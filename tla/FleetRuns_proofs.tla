-------------------------- MODULE FleetRuns_proofs --------------------------
(***************************************************************************)
(* Proofs about FleetRuns, for any runs, instances, roles, limits and      *)
(* teardowns: the safety properties and the inductive invariant they rest  *)
(* on.  The argument is in three facts about a step - terminal ledger      *)
(* events stay, leases are lost only on evidence, and leases are gained    *)
(* only by a dispatcher no closing marker stops - from which each part of  *)
(* the invariant follows action by action.                                 *)
(*                                                                         *)
(* The second half proves the properties of Boot.                          *)
(***************************************************************************)
EXTENDS FleetRuns, BootState, FiniteSetTheorems, TLAPS

USE DEF vars, store, tree, scripts, teardown

----------------------------------------------------------------------------
(* The store's operators.                                                  *)

\* What acquire asks for are lease names, and the instance's lease is among them.
LEMMA RequestNames ==
    ASSUME NEW r \in Runs, NEW after, NEW N \in Requests(r, after)
    PROVE  N \subseteq LeaseNames /\ InstanceName(r) \in N
<1>1. InstanceName(r) \in LeaseNames
  BY ConstantsAssumption DEF ConstantsAssumption, InstanceName, LeaseNames
<1>2. HeavyName \in LeaseNames
  BY DEF LeaseNames
<1>3. \A k \in 1 .. MaxLocal : SlotName(k) \in LeaseNames
  BY DEF LeaseNames, SlotName
<1>4. \A j \in 1 .. RoleLimit : RoleName(RoleOf[r], j) \in LeaseNames
  BY ConstantsAssumption DEF ConstantsAssumption, LeaseNames, RoleName
<1>5. CASE r \in Remote
  BY <1>1, <1>5 DEF Requests
<1>6. CASE r \notin Remote
  BY <1>1, <1>2, <1>3, <1>4, <1>6 DEF Requests, FirstFree
<1> QED BY <1>5, <1>6

\* The ledger keeps the first terminal event of a run and takes any other.
LEMMA RecordedFacts ==
    ASSUME event \in [Runs -> Statuses], NEW r \in Runs, NEW s \in Statuses, Recorded(r, s)
    PROVE  /\ event' \in [Runs -> Statuses]
           /\ \A q \in Runs \ {r} : event'[q] = event[q]
           /\ event[r] \in Terminal => event'[r] = event[r]
           /\ event[r] \notin Terminal => event'[r] = s
BY DEF Recorded

\* Marking a set of runs as abandoned ends each of them and no other.
LEMMA AbandonedFacts ==
    ASSUME event \in [Runs -> Statuses], NEW R \in SUBSET Runs, event' = Abandoned(R)
    PROVE  /\ event' \in [Runs -> Statuses]
           /\ \A q \in Runs \ R : event'[q] = event[q]
           /\ \A q \in Runs : event[q] \in Terminal => event'[q] = event[q]
           /\ \A q \in R : event[q] \notin Terminal => event'[q] = "abandoned"
BY DEF Abandoned, Statuses

\* Who is reclaimed is a run in scope that is settled or out of the tree.
LEMMA ReclaimableFacts ==
    ASSUME NEW scope \in SUBSET Runs, NEW probed \in BOOLEAN
    PROVE  /\ Reclaimable(scope, probed) \in SUBSET Runs
           /\ \A r \in Reclaimable(scope, probed) : Settled(r) \/ Absent(r)
BY DEF Reclaimable

\* Sweeping frees leases and gives none to anybody.
LEMMA SweptFacts ==
    ASSUME holder \in [LeaseNames -> Runs \cup {Free, Broken}], NEW R \in SUBSET Runs
    PROVE  /\ Swept(R) \in [LeaseNames -> Runs \cup {Free, Broken}]
           /\ \A n \in LeaseNames : Swept(R)[n] = Free \/ Swept(R)[n] = holder[n]
           /\ \A n \in LeaseNames : Swept(R)[n] # holder[n] => holder[n] \in R
BY DEF Swept
----------------------------------------------------------------------------
(* What the store's operations do to leases and ledger, in one form each.  *)

\* A run that lost a lease to a reconciliation is over, or out of the tree.
Over(r) == event'[r] \in {"done", "abandoned"} \/ (event'[r] = "indeterminate" /\ Absent(r))

\* The ledger moved by reconciliation only.
Reconciled ==
    /\ event' \in [Runs -> Statuses]
    /\ \A r \in Runs : event'[r] = event[r] \/ (event[r] \notin Terminal /\ event'[r] = "abandoned")

\* A reconciliation that left the leases "after".
Sweeping(after) ==
    /\ Reconciled
    /\ after \in [LeaseNames -> Runs \cup {Free, Broken}]
    /\ \A n \in LeaseNames : after[n] = Free \/ after[n] = holder[n]
    /\ \A n \in LeaseNames, r \in Runs : holder[n] = r /\ after[n] # r => Over(r)

\* An acquisition for r: no lease changes owner, none is made in a closing feature.
Granting(r) ==
    /\ Reconciled
    /\ holder' \in [LeaseNames -> Runs \cup {Free, Broken}]
    /\ closing[FeatureOf[r]] = Nobody
    /\ \A n \in LeaseNames, q \in Runs : holder[n] = q /\ holder'[n] # q => Over(q)
    /\ \A n \in LeaseNames, q \in Runs \ {r} : holder'[n] = q => holder[n] = q

\* A release by r: only r's leases change.
Releasing(r) ==
    /\ holder' \in [LeaseNames -> Runs \cup {Free, Broken}]
    /\ \A n \in LeaseNames :
        holder'[n] = holder[n] \/ (holder[n] = r /\ holder'[n] \in {Free, Broken})

LEMMA SweepFacts ==
    ASSUME StoreTypeOK, NEW scope \in SUBSET Runs, NEW probed \in BOOLEAN,
           NEW R \in SUBSET Reclaimable(scope, probed), event' = Abandoned(R)
    PROVE  Sweeping(Swept(R))
<1>1. R \in SUBSET Runs /\ \A r \in R : Settled(r) \/ Absent(r)
  BY ReclaimableFacts
<1>2. /\ event' \in [Runs -> Statuses]
      /\ \A q \in Runs \ R : event'[q] = event[q]
      /\ \A q \in Runs : event[q] \in Terminal => event'[q] = event[q]
      /\ \A q \in R : event[q] \notin Terminal => event'[q] = "abandoned"
  BY <1>1, AbandonedFacts DEF StoreTypeOK
<1>3. /\ Swept(R) \in [LeaseNames -> Runs \cup {Free, Broken}]
      /\ \A n \in LeaseNames : Swept(R)[n] = Free \/ Swept(R)[n] = holder[n]
      /\ \A n \in LeaseNames : Swept(R)[n] # holder[n] => holder[n] \in R
  BY <1>1, SweptFacts DEF StoreTypeOK
<1>4. Reconciled
  BY <1>1, <1>2 DEF Reconciled
<1>5. \A r \in R : Over(r)
  BY <1>1, <1>2 DEF Over, Settled, Terminal
<1> QED BY <1>3, <1>4, <1>5 DEF Sweeping

LEMMA ReconcileAllFacts ==
    ASSUME StoreTypeOK, NEW scope \in SUBSET Runs, NEW probed \in BOOLEAN,
           ReconcileAll(scope, probed)
    PROVE  Sweeping(holder')
BY SweepFacts DEF ReconcileAll

\* A reconciliation cut short did a part of what it would have done.
LEMMA ReconcilePartFacts ==
    ASSUME StoreTypeOK, NEW scope \in SUBSET Runs, ReconcilePart(scope)
    PROVE  Sweeping(holder')
<1>1. PICK probed \in BOOLEAN : \E r \in Reclaimable(scope, probed) :
        \E R \in SUBSET (Reclaimable(scope, probed) \ {r}), N \in SUBSET (Holds(r) \ litter) :
            /\ holder' = [n \in LeaseNames |-> IF n \in N THEN Free ELSE Swept(R)[n]]
            /\ event' = Abandoned(R \cup {r})
  BY DEF ReconcilePart
<1>2. PICK r \in Reclaimable(scope, probed) :
        \E R \in SUBSET (Reclaimable(scope, probed) \ {r}), N \in SUBSET (Holds(r) \ litter) :
            /\ holder' = [n \in LeaseNames |-> IF n \in N THEN Free ELSE Swept(R)[n]]
            /\ event' = Abandoned(R \cup {r})
  BY <1>1
<1>3. PICK R \in SUBSET (Reclaimable(scope, probed) \ {r}), N \in SUBSET (Holds(r) \ litter) :
        /\ holder' = [n \in LeaseNames |-> IF n \in N THEN Free ELSE Swept(R)[n]]
        /\ event' = Abandoned(R \cup {r})
  BY <1>2
<1>4. R \cup {r} \in SUBSET Reclaimable(scope, probed)
  OBVIOUS
<1>5. Sweeping(Swept(R \cup {r}))
  BY <1>3, <1>4, SweepFacts
<1>6. \A n \in LeaseNames :
        holder'[n] = holder[n] \/ (holder'[n] = Free /\ Swept(R \cup {r})[n] = Free)
  BY <1>3 DEF Swept, Holds
<1>7. holder' \in [LeaseNames -> Runs \cup {Free, Broken}]
  BY <1>3, <1>6 DEF StoreTypeOK
<1> QED BY <1>5, <1>6, <1>7 DEF Sweeping

LEMMA AcquireFacts ==
    ASSUME TypeOK, NEW r \in Runs, Acquire(r)
    PROVE  /\ Granting(r)
           /\ \E N \in SUBSET LeaseNames :
                /\ N # {} /\ claims' = [claims EXCEPT ![r] = N]
                /\ \A n \in N : holder'[n] = r
<1>1. PICK probed \in BOOLEAN :
        LET R == Reclaimable(Runs, probed) IN
        /\ event' = Abandoned(R)
        /\ \E N \in Requests(r, Swept(R)) :
            /\ Admissible(r, Swept(R), N)
            /\ Granted(r, Swept(R), N)
            /\ claims' = [claims EXCEPT ![r] = N]
  BY DEF Acquire
<1> DEFINE after == Swept(Reclaimable(Runs, probed))
<1>2. PICK N \in Requests(r, after) :
        Admissible(r, after, N) /\ Granted(r, after, N) /\ claims' = [claims EXCEPT ![r] = N]
  BY <1>1
<1>3. Sweeping(after)
  BY <1>1, SweepFacts DEF TypeOK
<1> HIDE DEF after
<1>4. N \subseteq LeaseNames /\ N # {}
  BY <1>2, RequestNames
<1>5. Granting(r)
  BY <1>2, <1>3, <1>4, ConstantsAssumption
     DEF ConstantsAssumption, Granting, Sweeping, Granted, Admissible
<1>6. \A n \in N : holder'[n] = r
  BY <1>2, <1>4 DEF Granted
<1> QED BY <1>2, <1>4, <1>5, <1>6

LEMMA AcquireCutFacts ==
    ASSUME TypeOK, NEW r \in Runs, AcquireCut(r)
    PROVE  Granting(r)
<1>1. PICK probed \in BOOLEAN :
        LET R == Reclaimable(Runs, probed) IN
        /\ event' = Abandoned(R)
        /\ \E N \in Requests(r, Swept(R)) :
            Admissible(r, Swept(R), N) /\ GrantedPart(r, Swept(R), N)
  BY DEF AcquireCut
<1> DEFINE after == Swept(Reclaimable(Runs, probed))
<1>2. PICK N \in Requests(r, after) : Admissible(r, after, N) /\ GrantedPart(r, after, N)
  BY <1>1
<1>3. Sweeping(after)
  BY <1>1, SweepFacts DEF TypeOK
<1> HIDE DEF after
<1>4. N \subseteq LeaseNames
  BY <1>2, RequestNames
<1>5. PICK P \in SUBSET N, X \in SUBSET N :
        holder' = [n \in LeaseNames |->
                     IF n \in P THEN r ELSE IF n \in X THEN Broken ELSE after[n]]
  BY <1>2 DEF GrantedPart, Prefixes
<1> QED
  BY <1>2, <1>3, <1>4, <1>5, ConstantsAssumption
     DEF ConstantsAssumption, Granting, Sweeping, Admissible

LEMMA ReleaseFacts ==
    ASSUME StoreTypeOK, NEW r \in Runs, NEW N \in SUBSET LeaseNames,
           Release(r, N) \/ ReleasePart(r, N)
    PROVE  Releasing(r)
<1>1. CASE Release(r, N)
  <2>1. Removable(N) \subseteq N
    BY DEF Removable
  <2> QED BY <1>1, <2>1 DEF Release, Releasing, Owns, StoreTypeOK
<1>2. CASE ReleasePart(r, N)
  <2>1. PICK P \in SUBSET N, X \in SUBSET N :
          holder' = [n \in LeaseNames |->
                       IF n \in P THEN Free ELSE IF n \in X THEN Broken ELSE holder[n]]
    BY <1>2 DEF ReleasePart, Prefixes
  <2>2. Owns(r, N)
    BY <1>2 DEF ReleasePart
  <2> QED BY <2>1, <2>2 DEF Releasing, Owns, StoreTypeOK
<1> QED BY <1>1, <1>2
----------------------------------------------------------------------------
(* Types.                                                                  *)

LEMMA ObservedName ==
    ASSUME NEW r \in Runs
    PROVE  {InstanceName(r)} \in SUBSET LeaseNames
BY ConstantsAssumption DEF ConstantsAssumption, InstanceName, LeaseNames

LEMMA ScopeFacts ==
    ASSUME NEW f
    PROVE  InFeature(f) \in SUBSET Runs
BY DEF InFeature

LEMMA TypeStep ==
    ASSUME TypeOK, [Next]_vars
    PROVE  TypeOK'
<1> USE DEF TypeOK, StoreTypeOK, DriverPC, RunnerPC, CloserPC, Pairs, Drive, Run, Step, Quit
<1>1. ASSUME NEW r \in Runs, DriverStep(r) PROVE TypeOK'
  <2>1. CASE Prepare(r)
    BY <2>1, RecordedFacts DEF Prepare, Statuses
  <2>2. CASE Acquire(r)
    <3>1. /\ driver' = [driver EXCEPT ![r] = "record"]
          /\ UNCHANGED <<litter, closing, tree, runner, observer, teardown>>
      BY <2>2 DEF Acquire
    <3>2. Granting(r) /\ claims' \in [Runs -> SUBSET LeaseNames]
      BY <2>2, AcquireFacts
    <3> QED BY <3>1, <3>2 DEF Granting, Reconciled
  <2>3. CASE AcquireRefused(r)
    BY <2>3, ReconcileAllFacts DEF AcquireRefused, Sweeping, Reconciled, Refused
  <2>4. CASE AcquireCut(r)
    BY <2>4, AcquireCutFacts DEF AcquireCut, Granting, Reconciled
  <2>5. CASE AcquireFails(r)
    BY <2>5, ReconcileAllFacts, ReconcilePartFacts DEF AcquireFails, Sweeping, Reconciled, Refused
  <2>6. CASE Record(r)
    BY <2>6, RecordedFacts DEF Record, Statuses
  <2>7. CASE Send(r)
    BY <2>7, RecordedFacts DEF Send, Statuses, Abandoning
  <2>8. CASE Enter(r)
    BY <2>8 DEF Enter
  <2>9. CASE Undo(r)
    BY <2>9, RecordedFacts DEF Undo, Statuses
  <2>10. CASE MarkIndeterminate(r)
    BY <2>10, RecordedFacts DEF MarkIndeterminate, Statuses
  <2>11. CASE FreeLeases(r)
    BY <2>11, ReleaseFacts DEF FreeLeases, Releasing
  <2>12. CASE DriverDies(r)
    BY <2>12 DEF DriverDies
  <2> QED BY <1>1, <2>1, <2>2, <2>3, <2>4, <2>5, <2>6, <2>7, <2>8, <2>9, <2>10, <2>11, <2>12 DEF DriverStep
<1>2. ASSUME NEW r \in Runs, RunnerStep(r) PROVE TypeOK'
  <2>1. CASE Validate(r)
    BY <2>1 DEF Validate
  <2>2. CASE Activate(r)
    BY <2>2 DEF Activate
  <2>3. CASE ActivateCut(r)
    BY <2>3 DEF ActivateCut
  <2>4. CASE Start(r)
    BY <2>4, RecordedFacts DEF Start, Statuses
  <2>5. CASE Finish(r)
    BY <2>5, RecordedFacts DEF Finish, Statuses
  <2>6. CASE Abandon(r)
    BY <2>6, RecordedFacts DEF Abandon, Statuses
  <2>7. CASE ReleaseLeases(r)
    BY <2>7, ReleaseFacts DEF ReleaseLeases, Releasing
  <2>8. CASE Interrupted(r)
    BY <2>8 DEF Interrupted
  <2>9. CASE RunnerDies(r)
    BY <2>9 DEF RunnerDies
  <2> QED BY <1>2, <2>1, <2>2, <2>3, <2>4, <2>5, <2>6, <2>7, <2>8, <2>9 DEF RunnerStep
<1>3. ASSUME NEW r \in Runs, ObserverStep(r) PROVE TypeOK'
  <2>1. CASE Observe(r)
    BY <2>1, RecordedFacts DEF Observe, Statuses
  <2>2. CASE AbandonRun(r)
    BY <2>2, RecordedFacts DEF AbandonRun, Statuses, Abandoning
  <2>3. CASE ReleaseObserved(r)
    BY <2>3, ReleaseFacts, ObservedName DEF ReleaseObserved, Releasing
  <2> QED BY <1>3, <2>1, <2>2, <2>3 DEF ObserverStep
<1>4. ASSUME NEW c \in Closers, CloserStep(c) PROVE TypeOK'
  <2>1. CASE Boot(c)
    BY <2>1, ConstantsAssumption DEF Boot, ConstantsAssumption
  <2>2. CASE BeginClose(c)
    <3>1. Sweeping(holder')
      BY <2>2, ScopeFacts, ReconcileAllFacts DEF BeginClose
    <3> QED BY <2>2, <3>1, ConstantsAssumption DEF BeginClose, Sweeping, Reconciled, ConstantsAssumption
  <2>3. CASE BeginRefused(c)
    <3>1. Sweeping(holder') \/ UNCHANGED <<holder, event>>
      BY <2>3, ScopeFacts, ReconcileAllFacts, ReconcilePartFacts DEF BeginRefused
    <3> QED BY <2>3, <3>1, ConstantsAssumption DEF BeginRefused, Sweeping, Reconciled, ConstantsAssumption
  <2>4. CASE BeginCut(c)
    <3>1. Sweeping(holder')
      BY <2>4, ScopeFacts, ReconcileAllFacts DEF BeginCut
    <3>2. Closes[c] \in Features
      BY ConstantsAssumption DEF ConstantsAssumption
    <3>3. closing' \in [Features -> Closers \cup {Nobody, Malformed}]
      BY <2>4, <3>2 DEF BeginCut
    <3>4. closer' \in [Closers -> CloserPC] /\ boot' \in [Features -> Closers \cup {Nobody}]
      BY <2>4, <3>2 DEF BeginCut
    <3> QED BY <2>4, <3>1, <3>3, <3>4 DEF BeginCut, Sweeping, Reconciled
  <2>5. CASE Shut(c)
    BY <2>5 DEF Shut
  <2>6. CASE Archive(c)
    <3>1. Closes[c] \in Features
      BY ConstantsAssumption DEF ConstantsAssumption
    <3>2. event' \in [Runs -> Statuses]
      BY <2>6 DEF Archive, Statuses
    <3> QED BY <2>6, <3>1, <3>2 DEF Archive
  <2>10. CASE MoveState(c)
    BY <2>10 DEF MoveState
  <2>11. CASE MoveManifest(c)
    BY <2>11 DEF MoveManifest
  <2>7. CASE ArchiveFails(c)
    BY <2>7 DEF ArchiveFails
  <2>8. CASE EndClose(c)
    BY <2>8, ConstantsAssumption DEF EndClose, ConstantsAssumption
  <2>9. CASE CloserDies(c)
    BY <2>9 DEF CloserDies
  <2> QED BY <1>4, <2>1, <2>2, <2>3, <2>4, <2>5, <2>6, <2>7, <2>8, <2>9, <2>10, <2>11 DEF CloserStep
<1>5. CASE Reconcile
  BY <1>5, ReconcileAllFacts, ReconcilePartFacts DEF Reconcile, Sweeping, Reconciled
<1>6. ASSUME NEW s \in Surfaces, CloseSurface(s) PROVE TypeOK'
  BY <1>6 DEF CloseSurface
<1>7. ASSUME NEW f \in Features, CloseWorkspace(f) PROVE TypeOK'
  BY <1>7 DEF CloseWorkspace
<1>8. CASE UNCHANGED vars
  BY <1>8
<1> QED BY <1>1, <1>2, <1>3, <1>4, <1>5, <1>6, <1>7, <1>8 DEF Next
----------------------------------------------------------------------------
(* The three facts about a step.                                           *)

\* The ledger's verdict on a run is final, whoever appends, until its feature is
\* torn down, and then for good.
LedgerFinal ==
    \A r \in Runs : Standing(r)' =>
        Standing(r) /\ (event[r] \in Terminal => event'[r] = event[r])

LEMMA LedgerStep ==
    ASSUME TypeOK, [Next]_vars
    PROVE  LedgerFinal
<1> USE DEF LedgerFinal, Standing
<1>0. StoreTypeOK /\ event \in [Runs -> Statuses]
  BY DEF TypeOK, StoreTypeOK
<1>1. ASSUME UNCHANGED <<event, archived>> PROVE LedgerFinal
  BY <1>1
<1>2. ASSUME NEW r \in Runs, NEW s \in Statuses, Recorded(r, s), UNCHANGED archived PROVE LedgerFinal
  BY <1>0, <1>2, RecordedFacts
<1>3. ASSUME Reconciled, UNCHANGED archived PROVE LedgerFinal
  BY <1>3 DEF Reconciled
<1>4. ASSUME NEW r \in Runs, DriverStep(r) PROVE LedgerFinal
  <2>1. CASE Prepare(r)
    BY <2>1, <1>1, <1>2 DEF Prepare, Statuses
  <2>2. CASE Acquire(r)
    BY <2>2, <1>0, <1>3, AcquireFacts DEF Acquire, Granting
  <2>3. CASE AcquireRefused(r)
    BY <2>3, <1>0, <1>1, <1>3, ReconcileAllFacts DEF AcquireRefused, Sweeping
  <2>4. CASE AcquireCut(r)
    BY <2>4, <1>3, AcquireCutFacts DEF AcquireCut, Granting
  <2>5. CASE AcquireFails(r)
    BY <2>5, <1>0, <1>1, <1>3, ReconcileAllFacts, ReconcilePartFacts DEF AcquireFails, Sweeping
  <2>6. CASE Record(r)
    BY <2>6, <1>1, <1>2 DEF Record, Statuses
  <2>7. CASE Send(r)
    BY <2>7, <1>1, <1>2 DEF Send, Statuses, Abandoning
  <2>8. CASE Enter(r)
    BY <2>8, <1>1 DEF Enter
  <2>9. CASE Undo(r)
    BY <2>9, <1>1, <1>2 DEF Undo, Statuses
  <2>10. CASE MarkIndeterminate(r)
    BY <2>10, <1>1, <1>2 DEF MarkIndeterminate, Statuses
  <2>11. CASE FreeLeases(r)
    BY <2>11, <1>1 DEF FreeLeases
  <2>12. CASE DriverDies(r)
    BY <2>12, <1>1 DEF DriverDies
  <2> QED BY <1>4, <2>1, <2>2, <2>3, <2>4, <2>5, <2>6, <2>7, <2>8, <2>9, <2>10, <2>11, <2>12 DEF DriverStep
<1>5. ASSUME NEW r \in Runs, RunnerStep(r) PROVE LedgerFinal
  <2>1. CASE Validate(r)
    BY <2>1, <1>1 DEF Validate
  <2>2. CASE Activate(r)
    BY <2>2, <1>1 DEF Activate
  <2>3. CASE ActivateCut(r)
    BY <2>3, <1>1 DEF ActivateCut
  <2>4. CASE Start(r)
    BY <2>4, <1>1, <1>2 DEF Start, Statuses
  <2>5. CASE Finish(r)
    BY <2>5, <1>1, <1>2 DEF Finish, Statuses
  <2>6. CASE Abandon(r)
    BY <2>6, <1>1, <1>2 DEF Abandon, Statuses
  <2>7. CASE ReleaseLeases(r)
    BY <2>7, <1>1 DEF ReleaseLeases
  <2>8. CASE Interrupted(r)
    BY <2>8, <1>1 DEF Interrupted
  <2>9. CASE RunnerDies(r)
    BY <2>9, <1>1 DEF RunnerDies
  <2> QED BY <1>5, <2>1, <2>2, <2>3, <2>4, <2>5, <2>6, <2>7, <2>8, <2>9 DEF RunnerStep
<1>6. ASSUME NEW r \in Runs, ObserverStep(r) PROVE LedgerFinal
  <2>1. CASE Observe(r)
    BY <2>1, <1>1, <1>2 DEF Observe, Statuses
  <2>2. CASE AbandonRun(r)
    BY <2>2, <1>1, <1>2 DEF AbandonRun, Statuses, Abandoning
  <2>3. CASE ReleaseObserved(r)
    BY <2>3, <1>1 DEF ReleaseObserved
  <2> QED BY <1>6, <2>1, <2>2, <2>3 DEF ObserverStep
<1>7. ASSUME NEW c \in Closers, CloserStep(c) PROVE LedgerFinal
  <2>1. CASE Boot(c)
    BY <2>1, <1>1 DEF Boot
  <2>2. CASE BeginClose(c)
    BY <2>2, <1>0, <1>1, <1>3, ReconcileAllFacts, ScopeFacts DEF BeginClose, Sweeping
  <2>3. CASE BeginRefused(c)
    BY <2>3, <1>0, <1>1, <1>3, ReconcileAllFacts, ReconcilePartFacts, ScopeFacts DEF BeginRefused, Sweeping
  <2>4. CASE BeginCut(c)
    BY <2>4, <1>0, <1>1, <1>3, ReconcileAllFacts, ScopeFacts DEF BeginCut, Sweeping
  <2>5. CASE Shut(c)
    BY <2>5, <1>1 DEF Shut
  <2>6. CASE Archive(c)
    BY <1>0, <2>6, ConstantsAssumption DEF Archive, ConstantsAssumption, InFeature
  <2>10. CASE MoveState(c)
    BY <2>10, <1>1 DEF MoveState
  <2>11. CASE MoveManifest(c)
    BY <2>11, <1>1 DEF MoveManifest
  <2>7. CASE ArchiveFails(c)
    BY <2>7, <1>1 DEF ArchiveFails
  <2>8. CASE EndClose(c)
    BY <2>8, <1>1 DEF EndClose
  <2>9. CASE CloserDies(c)
    BY <2>9, <1>1 DEF CloserDies
  <2> QED BY <1>7, <2>1, <2>2, <2>3, <2>4, <2>5, <2>6, <2>7, <2>8, <2>9, <2>10, <2>11 DEF CloserStep
<1>8. CASE Reconcile
  BY <1>0, <1>3, <1>8, ReconcileAllFacts, ReconcilePartFacts DEF Reconcile, Sweeping
<1>9. ASSUME NEW s \in Surfaces, CloseSurface(s) PROVE LedgerFinal
  BY <1>1, <1>9 DEF CloseSurface
<1>10. ASSUME NEW f \in Features, CloseWorkspace(f) PROVE LedgerFinal
  BY <1>1, <1>10 DEF CloseWorkspace
<1>11. CASE UNCHANGED vars
  BY <1>1, <1>11
<1> QED BY <1>4, <1>5, <1>6, <1>7, <1>8, <1>9, <1>10, <1>11 DEF Next
\* A lease leaves a run that is over, or a dispatcher that gives up unheard; and
\* a run gains one only where no closing marker stands, while none is put up.
LossJustified(r) ==
    \/ ~Standing(r)
    \/ event'[r] \in {"done", "abandoned"}
    \/ event'[r] = "indeterminate" /\ (Absent(r) \/ observer[r])
    \/ FreeLeases(r) /\ r \notin Remote /\ runner[r] = "none"
LeasesMove ==
    \A n \in LeaseNames, r \in Runs :
        /\ holder[n] = r /\ holder'[n] # r => LossJustified(r)
        /\ holder[n] # r /\ holder'[n] = r =>
              closing[FeatureOf[r]] = Nobody /\ UNCHANGED <<closing, closer>>

LEMMA LeaseStep ==
    ASSUME IInv, [Next]_vars
    PROVE  LeasesMove
<1>0. TypeOK /\ StoreTypeOK /\ ScriptsOrdered /\ ReleaseJustified /\ RetentionKnown
  BY DEF IInv, TypeOK
<1>1. ASSUME UNCHANGED holder PROVE LeasesMove
  BY <1>1 DEF LeasesMove
<1>2. ASSUME Sweeping(holder') PROVE LeasesMove
  BY <1>2, ConstantsAssumption DEF ConstantsAssumption, LeasesMove, LossJustified, Sweeping, Over
<1>3. ASSUME NEW r \in Runs, Granting(r), UNCHANGED <<closing, closer>> PROVE LeasesMove
  BY <1>3 DEF LeasesMove, LossJustified, Granting, Over
<1>4. ASSUME NEW r \in Runs, Releasing(r), LossJustified(r) PROVE LeasesMove
  BY <1>4, ConstantsAssumption DEF ConstantsAssumption, LeasesMove, Releasing
<1>5. \A r \in Runs : claims[r] \in SUBSET LeaseNames
  BY <1>0 DEF TypeOK
<1>6. ASSUME NEW r \in Runs, DriverStep(r) PROVE LeasesMove
  <2>1. CASE Prepare(r)
    BY <2>1, <1>1 DEF Prepare
  <2>2. CASE Acquire(r)
    BY <2>2, <1>0, <1>3, AcquireFacts DEF Acquire
  <2>3. CASE AcquireRefused(r)
    BY <2>3, <1>0, <1>1, <1>2, ReconcileAllFacts DEF AcquireRefused
  <2>4. CASE AcquireCut(r)
    BY <2>4, <1>0, <1>3, AcquireCutFacts DEF AcquireCut
  <2>5. CASE AcquireFails(r)
    BY <2>5, <1>0, <1>1, <1>2, ReconcileAllFacts, ReconcilePartFacts DEF AcquireFails
  <2>6. CASE Record(r)
    BY <2>6, <1>1 DEF Record
  <2>7. CASE Send(r)
    BY <2>7, <1>1 DEF Send
  <2>8. CASE Enter(r)
    BY <2>8, <1>1 DEF Enter
  <2>9. CASE Undo(r)
    BY <2>9, <1>1 DEF Undo
  <2>10. CASE MarkIndeterminate(r)
    BY <2>10, <1>1 DEF MarkIndeterminate
  <2>11. CASE FreeLeases(r)
    <3>1. Releasing(r)
      BY <2>11, <1>0, <1>5, ReleaseFacts DEF FreeLeases
    <3>2. LossJustified(r)
      BY <2>11, <1>0 DEF FreeLeases, Drive, LossJustified, ScriptsOrdered, ReleaseJustified,
             RetentionKnown, Terminal
    <3> QED BY <1>4, <3>1, <3>2
  <2>12. CASE DriverDies(r)
    BY <2>12, <1>1 DEF DriverDies
  <2> QED BY <1>6, <2>1, <2>2, <2>3, <2>4, <2>5, <2>6, <2>7, <2>8, <2>9, <2>10, <2>11, <2>12 DEF DriverStep
<1>7. ASSUME NEW r \in Runs, RunnerStep(r) PROVE LeasesMove
  <2>1. CASE Validate(r)
    BY <2>1, <1>1 DEF Validate
  <2>2. CASE Activate(r)
    BY <2>2, <1>1 DEF Activate
  <2>3. CASE ActivateCut(r)
    BY <2>3, <1>1 DEF ActivateCut
  <2>4. CASE Start(r)
    BY <2>4, <1>1 DEF Start
  <2>5. CASE Finish(r)
    BY <2>5, <1>1 DEF Finish
  <2>6. CASE Abandon(r)
    BY <2>6, <1>1 DEF Abandon
  <2>7. CASE ReleaseLeases(r)
    <3>1. Releasing(r)
      BY <2>7, <1>0, <1>5, ReleaseFacts DEF ReleaseLeases
    <3>2. LossJustified(r)
      BY <2>7, <1>0 DEF ReleaseLeases, Run, LossJustified, ScriptsOrdered, ReleaseJustified,
             RetentionKnown, Terminal
    <3> QED BY <1>4, <3>1, <3>2
  <2>8. CASE Interrupted(r)
    BY <2>8, <1>1 DEF Interrupted
  <2>9. CASE RunnerDies(r)
    BY <2>9, <1>1 DEF RunnerDies
  <2> QED BY <1>7, <2>1, <2>2, <2>3, <2>4, <2>5, <2>6, <2>7, <2>8, <2>9 DEF RunnerStep
<1>8. ASSUME NEW r \in Runs, ObserverStep(r) PROVE LeasesMove
  <2>1. CASE Observe(r)
    BY <2>1, <1>1 DEF Observe
  <2>2. CASE AbandonRun(r)
    BY <2>2, <1>1 DEF AbandonRun
  <2>3. CASE ReleaseObserved(r)
    <3>1. Releasing(r) \/ UNCHANGED holder
      BY <2>3, <1>0, ObservedName, ReleaseFacts DEF ReleaseObserved
    <3>2. LossJustified(r)
      BY <2>3, <1>0 DEF ReleaseObserved, LossJustified, ReleaseJustified, Terminal
    <3> QED BY <1>1, <1>4, <3>1, <3>2
  <2> QED BY <1>8, <2>1, <2>2, <2>3 DEF ObserverStep
<1>9. ASSUME NEW c \in Closers, CloserStep(c) PROVE LeasesMove
  <2>1. CASE Boot(c)
    BY <2>1, <1>1 DEF Boot
  <2>2. CASE BeginClose(c)
    BY <2>2, <1>0, <1>1, <1>2, ReconcileAllFacts, ScopeFacts DEF BeginClose
  <2>3. CASE BeginRefused(c)
    BY <2>3, <1>0, <1>1, <1>2, ReconcileAllFacts, ReconcilePartFacts, ScopeFacts DEF BeginRefused
  <2>4. CASE BeginCut(c)
    BY <2>4, <1>0, <1>1, <1>2, ReconcileAllFacts, ScopeFacts DEF BeginCut
  <2>5. CASE Shut(c)
    BY <2>5, <1>1 DEF Shut, Step
  <2>6. CASE Archive(c)
    BY <2>6, <1>1 DEF Archive
  <2>10. CASE MoveState(c)
    BY <2>10, <1>1 DEF MoveState
  <2>11. CASE MoveManifest(c)
    BY <2>11, <1>1 DEF MoveManifest
  <2>7. CASE ArchiveFails(c)
    BY <2>7, <1>1 DEF ArchiveFails
  <2>8. CASE EndClose(c)
    BY <2>8, <1>1 DEF EndClose
  <2>9. CASE CloserDies(c)
    BY <2>9, <1>1 DEF CloserDies
  <2> QED BY <1>9, <2>1, <2>2, <2>3, <2>4, <2>5, <2>6, <2>7, <2>8, <2>9, <2>10, <2>11 DEF CloserStep
<1>10. CASE Reconcile
  BY <1>0, <1>2, <1>10, ReconcileAllFacts, ReconcilePartFacts DEF Reconcile
<1>11. ASSUME NEW s \in Surfaces, CloseSurface(s) PROVE LeasesMove
  BY <1>1, <1>11 DEF CloseSurface
<1>12. ASSUME NEW f \in Features, CloseWorkspace(f) PROVE LeasesMove
  BY <1>1, <1>12 DEF CloseWorkspace
<1>13. CASE UNCHANGED vars
  BY <1>1, <1>13
<1> QED BY <1>6, <1>7, <1>8, <1>9, <1>10, <1>11, <1>12, <1>13 DEF Next
----------------------------------------------------------------------------
(* The parts of the invariant.                                             *)

\* Only an acquisition makes a run underway or changes what it claims.
GoesOn ==
    \A q \in Runs :
        ((Underway(q)' => Underway(q)) /\ claims'[q] = claims[q]) \/ Acquire(q)

LEMMA GoesOnStep ==
    ASSUME IInv, [Next]_vars
    PROVE  GoesOn
<1> USE DEF GoesOn, Underway, InProgress, Standing, Drive, Run, Step, Quit, Terminal
<1>0. /\ TypeOK /\ StoreTypeOK
      /\ driver \in [Runs -> DriverPC] /\ runner \in [Runs -> RunnerPC]
      /\ event \in [Runs -> Statuses] /\ claims \in [Runs -> SUBSET LeaseNames]
      /\ \A q \in Runs : driver[q] \in {"start", "acquire", "record", "send", "enter"} => runner[q] = "none"
      /\ \A q \in Runs : Standing(q)' => Standing(q)
  BY LedgerStep DEF IInv, TypeOK, StoreTypeOK, ScriptsOrdered, LedgerFinal
<1>1. ASSUME NEW r \in Runs, DriverStep(r) PROVE GoesOn
  <2>1. CASE Prepare(r)
    BY <2>1, <1>0, RecordedFacts DEF Prepare, Statuses
  <2>2. CASE Acquire(r)
    <3>1. \A q \in Runs \ {r} : claims'[q] = claims[q] /\ driver'[q] = driver[q]
      BY <2>2, <1>0 DEF Acquire
    <3>2. UNCHANGED runner
      BY <2>2 DEF Acquire
    <3>3. Reconciled
      BY <2>2, <1>0, AcquireFacts DEF Granting
    <3> QED BY <2>2, <1>0, <3>1, <3>2, <3>3 DEF Reconciled
  <2>3. CASE AcquireRefused(r)
    BY <2>3, <1>0, ReconcileAllFacts DEF AcquireRefused, Sweeping, Reconciled, Refused
  <2>4. CASE AcquireCut(r)
    BY <2>4, <1>0, AcquireCutFacts DEF AcquireCut, Granting, Reconciled
  <2>5. CASE AcquireFails(r)
    BY <2>5, <1>0, ReconcileAllFacts, ReconcilePartFacts DEF AcquireFails, Sweeping, Reconciled, Refused
  <2>6. CASE Record(r)
    BY <2>6, <1>0, RecordedFacts DEF Record, Statuses
  <2>7. CASE Send(r)
    BY <2>7, <1>0, RecordedFacts DEF Send, Statuses, Abandoning
  <2>8. CASE Enter(r)
    BY <2>8, <1>0 DEF Enter
  <2>9. CASE Undo(r)
    BY <2>9, <1>0, RecordedFacts DEF Undo, Statuses
  <2>10. CASE MarkIndeterminate(r)
    BY <2>10, <1>0, RecordedFacts DEF MarkIndeterminate, Statuses
  <2>11. CASE FreeLeases(r)
    BY <2>11, <1>0 DEF FreeLeases
  <2>12. CASE DriverDies(r)
    BY <2>12, <1>0 DEF DriverDies
  <2> QED BY <1>1, <2>1, <2>2, <2>3, <2>4, <2>5, <2>6, <2>7, <2>8, <2>9, <2>10, <2>11, <2>12 DEF DriverStep
<1>2. ASSUME NEW r \in Runs, RunnerStep(r) PROVE GoesOn
  <2>1. CASE Validate(r)
    BY <2>1, <1>0 DEF Validate
  <2>2. CASE Activate(r)
    BY <2>2, <1>0 DEF Activate
  <2>3. CASE ActivateCut(r)
    BY <2>3, <1>0 DEF ActivateCut
  <2>4. CASE Start(r)
    BY <2>4, <1>0, RecordedFacts DEF Start, Statuses
  <2>5. CASE Finish(r)
    BY <2>5, <1>0, RecordedFacts DEF Finish, Statuses
  <2>6. CASE Abandon(r)
    BY <2>6, <1>0, RecordedFacts DEF Abandon, Statuses
  <2>7. CASE ReleaseLeases(r)
    BY <2>7, <1>0 DEF ReleaseLeases
  <2>8. CASE Interrupted(r)
    BY <2>8, <1>0 DEF Interrupted
  <2>9. CASE RunnerDies(r)
    BY <2>9, <1>0 DEF RunnerDies
  <2> QED BY <1>2, <2>1, <2>2, <2>3, <2>4, <2>5, <2>6, <2>7, <2>8, <2>9 DEF RunnerStep
<1>3. ASSUME NEW r \in Runs, ObserverStep(r) PROVE GoesOn
  <2>1. CASE Observe(r)
    BY <2>1, <1>0, RecordedFacts DEF Observe, Statuses
  <2>2. CASE AbandonRun(r)
    BY <2>2, <1>0, RecordedFacts DEF AbandonRun, Statuses, Abandoning
  <2>3. CASE ReleaseObserved(r)
    BY <2>3, <1>0 DEF ReleaseObserved
  <2> QED BY <1>3, <2>1, <2>2, <2>3 DEF ObserverStep
<1>4. ASSUME NEW c \in Closers, CloserStep(c) PROVE GoesOn
  <2>1. CASE Boot(c)
    BY <2>1, <1>0 DEF Boot
  <2>2. CASE BeginClose(c)
    BY <2>2, <1>0, ReconcileAllFacts, ScopeFacts DEF BeginClose, Sweeping, Reconciled
  <2>3. CASE BeginRefused(c)
    BY <2>3, <1>0, ReconcileAllFacts, ReconcilePartFacts, ScopeFacts DEF BeginRefused, Sweeping, Reconciled
  <2>4. CASE BeginCut(c)
    BY <2>4, <1>0, ReconcileAllFacts, ScopeFacts DEF BeginCut, Sweeping, Reconciled
  <2>5. CASE Shut(c)
    BY <2>5, <1>0 DEF Shut
  <2>6. CASE Archive(c)
    <3>1. UNCHANGED scripts /\ \A q \in Runs : Standing(q)' => event'[q] = event[q]
      BY <2>6, <1>0, ConstantsAssumption DEF ConstantsAssumption, Archive, InFeature
    <3> QED BY <1>0, <3>1
  <2>10. CASE MoveState(c)
    BY <2>10, <1>0 DEF MoveState
  <2>11. CASE MoveManifest(c)
    BY <2>11, <1>0 DEF MoveManifest
  <2>7. CASE ArchiveFails(c)
    BY <2>7, <1>0 DEF ArchiveFails
  <2>8. CASE EndClose(c)
    BY <2>8, <1>0 DEF EndClose
  <2>9. CASE CloserDies(c)
    BY <2>9, <1>0 DEF CloserDies
  <2> QED BY <1>4, <2>1, <2>2, <2>3, <2>4, <2>5, <2>6, <2>7, <2>8, <2>9, <2>10, <2>11 DEF CloserStep
<1>5. CASE Reconcile
  BY <1>0, <1>5, ReconcileAllFacts, ReconcilePartFacts DEF Reconcile, Sweeping, Reconciled
<1>6. ASSUME NEW s \in Surfaces, CloseSurface(s) PROVE GoesOn
  BY <1>0, <1>6 DEF CloseSurface
<1>7. ASSUME NEW f \in Features, CloseWorkspace(f) PROVE GoesOn
  BY <1>0, <1>7 DEF CloseWorkspace
<1>8. CASE UNCHANGED vars
  BY <1>0, <1>8
<1> QED BY <1>1, <1>2, <1>3, <1>4, <1>5, <1>6, <1>7, <1>8 DEF Next
LEMMA UnderwayStep ==
    ASSUME IInv, [Next]_vars
    PROVE  UnderwayHolds'
<1>1. TypeOK /\ UnderwayHolds /\ ScriptsOrdered /\ ReleaseJustified
  BY DEF IInv
<1>2. GoesOn /\ LeasesMove /\ LedgerFinal
  BY <1>1, GoesOnStep, LeaseStep, LedgerStep
<1>3. SUFFICES ASSUME NEW r \in Runs, Underway(r)'
               PROVE  claims'[r] # {} /\ \A n \in claims'[r] : holder'[n] = r
  BY DEF UnderwayHolds, Owns
<1>4. CASE Acquire(r)
  <2>1. PICK N \in SUBSET LeaseNames :
          N # {} /\ claims' = [claims EXCEPT ![r] = N] /\ \A n \in N : holder'[n] = r
    BY <1>1, <1>4, AcquireFacts
  <2>2. claims'[r] = N
    BY <1>1, <2>1 DEF TypeOK
  <2> QED BY <2>1, <2>2
<1>5. CASE Underway(r) /\ claims'[r] = claims[r]
  <2>1. claims[r] # {} /\ claims[r] \subseteq LeaseNames /\ \A n \in claims[r] : holder[n] = r
    BY <1>1, <1>5 DEF UnderwayHolds, Owns, TypeOK
  <2>2. ~LossJustified(r)
    <3>0. Standing(r)
      BY <1>5 DEF Underway
    <3>1. event'[r] \notin Terminal
      BY <1>3 DEF Underway
    <3>2. ~FreeLeases(r)
      <4>1. SUFFICES ASSUME FreeLeases(r) PROVE FALSE
        OBVIOUS
      <4>2. driver'[r] = "exit" /\ runner' = runner /\ event' = event /\ driver[r] = "free"
        BY <1>1, <4>1 DEF FreeLeases, Drive, TypeOK
      <4> QED BY <1>1, <1>3, <3>0, <3>1, <4>2 DEF Underway, InProgress, ScriptsOrdered, ReleaseJustified
    <3> QED BY <3>0, <3>1, <3>2 DEF LossJustified, Terminal
  <2> QED BY <1>2, <1>5, <2>1, <2>2 DEF LeasesMove
<1> QED BY <1>2, <1>3, <1>4, <1>5 DEF GoesOn

\* What acquire asks for names one lease of each limit the run counts against.
LEMMA RequestCounted ==
    ASSUME NEW r \in Runs, NEW after, NEW N \in Requests(r, after)
    PROVE  /\ InstanceName(r) \in N
           /\ r \in Heavy => HeavyName \in N
           /\ r \notin Remote => /\ \E k \in 1 .. MaxLocal : SlotName(k) \in N
                                /\ \E j \in 1 .. RoleLimit : RoleName(RoleOf[r], j) \in N
<1>1. CASE r \in Remote
  BY <1>1, ConstantsAssumption DEF ConstantsAssumption, Requests
<1>2. CASE r \notin Remote
  <2>1. PICK k \in 1 .. MaxLocal, j \in 1 .. RoleLimit :
          N = {InstanceName(r), SlotName(k), RoleName(RoleOf[r], j)}
                  \cup (IF r \in Heavy THEN {HeavyName} ELSE {})
    BY <1>2 DEF Requests, FirstFree
  <2> QED BY <1>2, <2>1
<1> QED BY <1>1, <1>2

LEMMA CountedStep ==
    ASSUME IInv, [Next]_vars
    PROVE  ClaimsCounted'
<1>1. TypeOK /\ ClaimsCounted /\ GoesOn
  BY GoesOnStep DEF IInv
<1>2. SUFFICES ASSUME NEW r \in Runs
               PROVE  claims'[r] = claims[r] \/ \E after : claims'[r] \in Requests(r, after)
  BY <1>1, RequestCounted DEF ClaimsCounted
<1>3. CASE Acquire(r)
  <2>1. PICK probed \in BOOLEAN :
          \E N \in Requests(r, Swept(Reclaimable(Runs, probed))) :
              claims' = [claims EXCEPT ![r] = N]
    BY <1>3 DEF Acquire
  <2> QED BY <1>1, <2>1 DEF TypeOK
<1> QED BY <1>1, <1>3 DEF GoesOn

\* The order of the scripts survives every step.
LEMMA OrderStep ==
    ASSUME IInv, [Next]_vars
    PROVE  ScriptsOrdered'
<1> USE DEF ScriptsOrdered, Drive, Run, Local
<1>0. ScriptsOrdered /\ driver \in [Runs -> DriverPC] /\ runner \in [Runs -> RunnerPC]
  BY DEF IInv, TypeOK
<1>1. ASSUME UNCHANGED <<driver, runner>> PROVE ScriptsOrdered'
  BY <1>0, <1>1
<1>2. ASSUME NEW r \in Runs, DriverStep(r) PROVE ScriptsOrdered'
  <2>1. CASE Prepare(r)
    BY <1>0, <2>1 DEF Prepare
  <2>2. CASE Acquire(r)
    BY <1>0, <2>2 DEF Acquire
  <2>3. CASE AcquireRefused(r)
    BY <1>0, <2>3 DEF AcquireRefused, Refused
  <2>4. CASE AcquireCut(r)
    BY <1>0, <2>4 DEF AcquireCut
  <2>5. CASE AcquireFails(r)
    BY <1>0, <2>5 DEF AcquireFails, Refused
  <2>6. CASE Record(r)
    BY <1>0, <2>6 DEF Record
  <2>7. CASE Send(r)
    BY <1>0, <2>7 DEF Send
  <2>8. CASE Enter(r)
    BY <1>0, <2>8 DEF Enter
  <2>9. CASE Undo(r)
    BY <1>0, <2>9 DEF Undo
  <2>10. CASE MarkIndeterminate(r)
    BY <1>0, <2>10 DEF MarkIndeterminate
  <2>11. CASE FreeLeases(r)
    BY <1>0, <2>11 DEF FreeLeases
  <2>12. CASE DriverDies(r)
    BY <1>0, <2>12 DEF DriverDies
  <2> QED BY <1>2, <2>1, <2>2, <2>3, <2>4, <2>5, <2>6, <2>7, <2>8, <2>9, <2>10, <2>11, <2>12 DEF DriverStep
<1>3. ASSUME NEW r \in Runs, RunnerStep(r) PROVE ScriptsOrdered'
  BY <1>0, <1>3
     DEF RunnerStep, Validate, Activate, ActivateCut, Start, Finish, Abandon, ReleaseLeases,
         Interrupted, RunnerDies
<1>4. ASSUME NEW r \in Runs, ObserverStep(r) PROVE ScriptsOrdered'
  BY <1>1, <1>4 DEF ObserverStep, Observe, AbandonRun, ReleaseObserved
<1>5. ASSUME NEW c \in Closers, CloserStep(c) PROVE ScriptsOrdered'
  BY <1>1, <1>5
     DEF CloserStep, Boot, BeginClose, BeginRefused, BeginCut, Shut, MoveState, Archive,
         MoveManifest, ArchiveFails, EndClose, CloserDies
<1>6. CASE Reconcile
  BY <1>1, <1>6 DEF Reconcile
<1>7. ASSUME NEW s \in Surfaces, CloseSurface(s) PROVE ScriptsOrdered'
  BY <1>1, <1>7 DEF CloseSurface
<1>8. ASSUME NEW f \in Features, CloseWorkspace(f) PROVE ScriptsOrdered'
  BY <1>1, <1>8 DEF CloseWorkspace
<1>9. CASE UNCHANGED vars
  BY <1>1, <1>9
<1> QED BY <1>2, <1>3, <1>4, <1>5, <1>6, <1>7, <1>8, <1>9 DEF Next

LEMMA JustifiedStep ==
    ASSUME IInv, [Next]_vars
    PROVE  ReleaseJustified'
<1> USE DEF ReleaseJustified, Drive, Run, Step, Quit
<1>0. /\ TypeOK /\ StoreTypeOK /\ ScriptsOrdered /\ ReleaseJustified /\ LedgerFinal
      /\ driver \in [Runs -> DriverPC] /\ runner \in [Runs -> RunnerPC]
      /\ event \in [Runs -> Statuses] /\ observer \in [Runs -> BOOLEAN]
  BY LedgerStep DEF IInv, TypeOK, StoreTypeOK
<1> USE DEF LedgerFinal, ScriptsOrdered, Terminal
<1>1. ASSUME NEW r \in Runs, DriverStep(r) PROVE ReleaseJustified'
  <2>1. CASE Prepare(r)
    BY <2>1, <1>0, RecordedFacts DEF Prepare, Statuses
  <2>2. CASE Acquire(r)
    <3>1. /\ \A q \in Runs \ {r} : driver'[q] = driver[q]
          /\ driver[r] = "acquire" /\ driver'[r] = "record"
      BY <2>2, <1>0 DEF Acquire
    <3>2. UNCHANGED <<runner, observer>>
      BY <2>2 DEF Acquire
    <3>3. Reconciled
      BY <2>2, <1>0, AcquireFacts DEF Granting
    <3> QED BY <1>0, <3>1, <3>2, <3>3 DEF Reconciled
  <2>3. CASE AcquireRefused(r)
    BY <2>3, <1>0, ReconcileAllFacts DEF AcquireRefused, Sweeping, Reconciled, Refused
  <2>4. CASE AcquireCut(r)
    BY <2>4, <1>0, AcquireCutFacts DEF AcquireCut, Granting, Reconciled
  <2>5. CASE AcquireFails(r)
    BY <2>5, <1>0, ReconcileAllFacts, ReconcilePartFacts DEF AcquireFails, Sweeping, Reconciled, Refused
  <2>6. CASE Record(r)
    BY <2>6, <1>0, RecordedFacts DEF Record, Statuses
  <2>7. CASE Send(r)
    BY <2>7, <1>0, RecordedFacts DEF Send, Statuses, Abandoning
  <2>8. CASE Enter(r)
    BY <2>8, <1>0 DEF Enter
  <2>9. CASE Undo(r)
    BY <2>9, <1>0, RecordedFacts DEF Undo, Statuses
  <2>10. CASE MarkIndeterminate(r)
    BY <2>10, <1>0, RecordedFacts DEF MarkIndeterminate, Statuses
  <2>11. CASE FreeLeases(r)
    BY <2>11, <1>0 DEF FreeLeases
  <2>12. CASE DriverDies(r)
    BY <2>12, <1>0 DEF DriverDies
  <2> QED BY <1>1, <2>1, <2>2, <2>3, <2>4, <2>5, <2>6, <2>7, <2>8, <2>9, <2>10, <2>11, <2>12 DEF DriverStep
<1>2. ASSUME NEW r \in Runs, RunnerStep(r) PROVE ReleaseJustified'
  <2>1. CASE Validate(r)
    BY <2>1, <1>0 DEF Validate
  <2>2. CASE Activate(r)
    BY <2>2, <1>0 DEF Activate
  <2>3. CASE ActivateCut(r)
    BY <2>3, <1>0 DEF ActivateCut
  <2>4. CASE Start(r)
    BY <2>4, <1>0, RecordedFacts DEF Start, Statuses
  <2>5. CASE Finish(r)
    BY <2>5, <1>0, RecordedFacts DEF Finish, Statuses
  <2>6. CASE Abandon(r)
    BY <2>6, <1>0, RecordedFacts DEF Abandon, Statuses
  <2>7. CASE ReleaseLeases(r)
    BY <2>7, <1>0 DEF ReleaseLeases
  <2>8. CASE Interrupted(r)
    BY <2>8, <1>0 DEF Interrupted
  <2>9. CASE RunnerDies(r)
    BY <2>9, <1>0 DEF RunnerDies
  <2> QED BY <1>2, <2>1, <2>2, <2>3, <2>4, <2>5, <2>6, <2>7, <2>8, <2>9 DEF RunnerStep
<1>3. ASSUME NEW r \in Runs, ObserverStep(r) PROVE ReleaseJustified'
  <2>1. CASE Observe(r)
    BY <2>1, <1>0, RecordedFacts DEF Observe, Statuses
  <2>2. CASE AbandonRun(r)
    BY <2>2, <1>0, RecordedFacts DEF AbandonRun, Statuses, Abandoning
  <2>3. CASE ReleaseObserved(r)
    BY <2>3, <1>0 DEF ReleaseObserved
  <2> QED BY <1>3, <2>1, <2>2, <2>3 DEF ObserverStep
<1>4. ASSUME NEW c \in Closers, CloserStep(c) PROVE ReleaseJustified'
  <2>1. CASE Boot(c)
    BY <2>1, <1>0 DEF Boot
  <2>2. CASE BeginClose(c)
    BY <2>2, <1>0, ReconcileAllFacts, ScopeFacts DEF BeginClose, Sweeping, Reconciled
  <2>3. CASE BeginRefused(c)
    BY <2>3, <1>0, ReconcileAllFacts, ReconcilePartFacts, ScopeFacts DEF BeginRefused, Sweeping, Reconciled
  <2>4. CASE BeginCut(c)
    BY <2>4, <1>0, ReconcileAllFacts, ScopeFacts DEF BeginCut, Sweeping, Reconciled
  <2>5. CASE Shut(c)
    BY <2>5, <1>0 DEF Shut
  <2>6. CASE Archive(c)
    BY <2>6, <1>0 DEF Archive
  <2>10. CASE MoveState(c)
    BY <2>10, <1>0 DEF MoveState
  <2>11. CASE MoveManifest(c)
    BY <2>11, <1>0 DEF MoveManifest
  <2>7. CASE ArchiveFails(c)
    BY <2>7, <1>0 DEF ArchiveFails
  <2>8. CASE EndClose(c)
    BY <2>8, <1>0 DEF EndClose
  <2>9. CASE CloserDies(c)
    BY <2>9, <1>0 DEF CloserDies
  <2> QED BY <1>4, <2>1, <2>2, <2>3, <2>4, <2>5, <2>6, <2>7, <2>8, <2>9, <2>10, <2>11 DEF CloserStep
<1>5. CASE Reconcile
  BY <1>0, <1>5, ReconcileAllFacts, ReconcilePartFacts DEF Reconcile, Sweeping, Reconciled
<1>6. ASSUME NEW s \in Surfaces, CloseSurface(s) PROVE ReleaseJustified'
  BY <1>0, <1>6 DEF CloseSurface
<1>7. ASSUME NEW f \in Features, CloseWorkspace(f) PROVE ReleaseJustified'
  BY <1>0, <1>7 DEF CloseWorkspace
<1>8. CASE UNCHANGED vars
  BY <1>0, <1>8
<1> QED BY <1>1, <1>2, <1>3, <1>4, <1>5, <1>6, <1>7, <1>8 DEF Next

LEMMA RetentionStep ==
    ASSUME IInv, [Next]_vars
    PROVE  RetentionKnown'
<1> USE DEF RetentionKnown, Drive, Run, Step, Quit, Local
<1>0. /\ TypeOK /\ StoreTypeOK /\ ScriptsOrdered /\ RetentionKnown /\ LedgerFinal
      /\ driver \in [Runs -> DriverPC] /\ runner \in [Runs -> RunnerPC]
      /\ event \in [Runs -> Statuses]
      /\ \A q \in Runs : Standing(q) /\ driver[q] = "free" => event[q] \in Terminal \/ q \notin Remote
  BY LedgerStep DEF IInv, TypeOK, StoreTypeOK, ReleaseJustified
<1> USE DEF LedgerFinal, ScriptsOrdered, Terminal
<1>1. ASSUME NEW r \in Runs, DriverStep(r) PROVE RetentionKnown'
  <2>1. CASE Prepare(r)
    BY <2>1, <1>0, RecordedFacts DEF Prepare, Statuses
  <2>2. CASE Acquire(r)
    <3>1. driver'[r] = "record" /\ \A q \in Runs \ {r} : driver'[q] = driver[q]
      BY <2>2, <1>0 DEF Acquire
    <3>2. Reconciled
      BY <2>2, <1>0, AcquireFacts DEF Granting
    <3>3. \A q \in Runs : event'[q] = "indeterminate" => event[q] = "indeterminate"
      BY <3>2 DEF Reconciled
    <3>4. \A q \in Runs : driver'[q] = "free" => driver[q] = "free"
      BY <3>1
    <3>5. \A q \in Runs : Standing(q)' => Standing(q)
      BY <1>0
    <3>6. \A q \in Runs : Standing(q) /\ event[q] = "indeterminate" => q \in Remote /\ driver[q] # "free"
      BY <1>0
    <3> QED BY <3>3, <3>4, <3>5, <3>6
  <2>3. CASE AcquireRefused(r)
    BY <2>3, <1>0, ReconcileAllFacts DEF AcquireRefused, Sweeping, Reconciled, Refused
  <2>4. CASE AcquireCut(r)
    BY <2>4, <1>0, AcquireCutFacts DEF AcquireCut, Granting, Reconciled
  <2>5. CASE AcquireFails(r)
    BY <2>5, <1>0, ReconcileAllFacts, ReconcilePartFacts DEF AcquireFails, Sweeping, Reconciled, Refused
  <2>6. CASE Record(r)
    BY <2>6, <1>0, RecordedFacts DEF Record, Statuses
  <2>7. CASE Send(r)
    BY <2>7, <1>0, RecordedFacts DEF Send, Statuses, Abandoning
  <2>8. CASE Enter(r)
    BY <2>8, <1>0 DEF Enter
  <2>9. CASE Undo(r)
    BY <2>9, <1>0, RecordedFacts DEF Undo, Statuses
  <2>10. CASE MarkIndeterminate(r)
    BY <2>10, <1>0, RecordedFacts DEF MarkIndeterminate, Statuses
  <2>11. CASE FreeLeases(r)
    BY <2>11, <1>0 DEF FreeLeases
  <2>12. CASE DriverDies(r)
    BY <2>12, <1>0 DEF DriverDies
  <2> QED BY <1>1, <2>1, <2>2, <2>3, <2>4, <2>5, <2>6, <2>7, <2>8, <2>9, <2>10, <2>11, <2>12 DEF DriverStep
<1>2. ASSUME NEW r \in Runs, RunnerStep(r) PROVE RetentionKnown'
  <2>1. CASE Validate(r)
    BY <2>1, <1>0 DEF Validate
  <2>2. CASE Activate(r)
    BY <2>2, <1>0 DEF Activate
  <2>3. CASE ActivateCut(r)
    BY <2>3, <1>0 DEF ActivateCut
  <2>4. CASE Start(r)
    BY <2>4, <1>0, RecordedFacts DEF Start, Statuses
  <2>5. CASE Finish(r)
    BY <2>5, <1>0, RecordedFacts DEF Finish, Statuses
  <2>6. CASE Abandon(r)
    BY <2>6, <1>0, RecordedFacts DEF Abandon, Statuses
  <2>7. CASE ReleaseLeases(r)
    BY <2>7, <1>0 DEF ReleaseLeases
  <2>8. CASE Interrupted(r)
    BY <2>8, <1>0 DEF Interrupted
  <2>9. CASE RunnerDies(r)
    BY <2>9, <1>0 DEF RunnerDies
  <2> QED BY <1>2, <2>1, <2>2, <2>3, <2>4, <2>5, <2>6, <2>7, <2>8, <2>9 DEF RunnerStep
<1>3. ASSUME NEW r \in Runs, ObserverStep(r) PROVE RetentionKnown'
  <2>1. CASE Observe(r)
    BY <2>1, <1>0, RecordedFacts DEF Observe, Statuses
  <2>2. CASE AbandonRun(r)
    BY <2>2, <1>0, RecordedFacts DEF AbandonRun, Statuses, Abandoning
  <2>3. CASE ReleaseObserved(r)
    BY <2>3, <1>0 DEF ReleaseObserved
  <2> QED BY <1>3, <2>1, <2>2, <2>3 DEF ObserverStep
<1>4. ASSUME NEW c \in Closers, CloserStep(c) PROVE RetentionKnown'
  <2>1. CASE Boot(c)
    BY <2>1, <1>0 DEF Boot
  <2>2. CASE BeginClose(c)
    BY <2>2, <1>0, ReconcileAllFacts, ScopeFacts DEF BeginClose, Sweeping, Reconciled
  <2>3. CASE BeginRefused(c)
    BY <2>3, <1>0, ReconcileAllFacts, ReconcilePartFacts, ScopeFacts DEF BeginRefused, Sweeping, Reconciled
  <2>4. CASE BeginCut(c)
    BY <2>4, <1>0, ReconcileAllFacts, ScopeFacts DEF BeginCut, Sweeping, Reconciled
  <2>5. CASE Shut(c)
    BY <2>5, <1>0 DEF Shut
  <2>6. CASE Archive(c)
    BY <2>6, <1>0 DEF Archive
  <2>10. CASE MoveState(c)
    BY <2>10, <1>0 DEF MoveState
  <2>11. CASE MoveManifest(c)
    BY <2>11, <1>0 DEF MoveManifest
  <2>7. CASE ArchiveFails(c)
    BY <2>7, <1>0 DEF ArchiveFails
  <2>8. CASE EndClose(c)
    BY <2>8, <1>0 DEF EndClose
  <2>9. CASE CloserDies(c)
    BY <2>9, <1>0 DEF CloserDies
  <2> QED BY <1>4, <2>1, <2>2, <2>3, <2>4, <2>5, <2>6, <2>7, <2>8, <2>9, <2>10, <2>11 DEF CloserStep
<1>5. CASE Reconcile
  BY <1>0, <1>5, ReconcileAllFacts, ReconcilePartFacts DEF Reconcile, Sweeping, Reconciled
<1>6. ASSUME NEW s \in Surfaces, CloseSurface(s) PROVE RetentionKnown'
  BY <1>0, <1>6 DEF CloseSurface
<1>7. ASSUME NEW f \in Features, CloseWorkspace(f) PROVE RetentionKnown'
  BY <1>0, <1>7 DEF CloseWorkspace
<1>8. CASE UNCHANGED vars
  BY <1>0, <1>8
<1> QED BY <1>1, <1>2, <1>3, <1>4, <1>5, <1>6, <1>7, <1>8 DEF Next

LEMMA BootStep ==
    ASSUME IInv, [Next]_vars
    PROVE  BootHeld'
<1> USE DEF BootHeld, Step, Quit
<1>0. /\ BootHeld /\ closer \in [Closers -> CloserPC] /\ boot \in [Features -> Closers \cup {Nobody}]
      /\ Closes \in [Closers -> Features] /\ Nobody \notin Closers
  BY ConstantsAssumption DEF ConstantsAssumption, IInv, TypeOK
<1>1. ASSUME UNCHANGED <<closer, boot>> PROVE BootHeld'
  BY <1>0, <1>1
<1>2. ASSUME NEW r \in Runs, DriverStep(r) PROVE BootHeld'
  BY <1>1, <1>2
     DEF DriverStep, Prepare, Acquire, AcquireRefused, AcquireCut, AcquireFails, Record, Send,
         Enter, Undo, MarkIndeterminate, FreeLeases, DriverDies
<1>3. ASSUME NEW r \in Runs, RunnerStep(r) PROVE BootHeld'
  BY <1>1, <1>3
     DEF RunnerStep, Validate, Activate, ActivateCut, Start, Finish, Abandon, ReleaseLeases,
         Interrupted, RunnerDies
<1>4. ASSUME NEW r \in Runs, ObserverStep(r) PROVE BootHeld'
  BY <1>1, <1>4 DEF ObserverStep, Observe, AbandonRun, ReleaseObserved
<1>5. ASSUME NEW c \in Closers, CloserStep(c) PROVE BootHeld'
  BY <1>0, <1>5
     DEF CloserStep, Boot, BeginClose, BeginRefused, BeginCut, Shut, MoveState, Archive,
         MoveManifest, ArchiveFails, EndClose, CloserDies
<1>6. CASE Reconcile
  BY <1>1, <1>6 DEF Reconcile
<1>7. ASSUME NEW s \in Surfaces, CloseSurface(s) PROVE BootHeld'
  BY <1>1, <1>7 DEF CloseSurface
<1>8. ASSUME NEW f \in Features, CloseWorkspace(f) PROVE BootHeld'
  BY <1>1, <1>8 DEF CloseWorkspace
<1>9. CASE UNCHANGED vars
  BY <1>1, <1>9
<1> QED BY <1>2, <1>3, <1>4, <1>5, <1>6, <1>7, <1>8, <1>9 DEF Next

LEMMA QuietStep ==
    ASSUME IInv, [Next]_vars
    PROVE  TeardownQuiet'
<1> USE DEF TeardownQuiet, Step, Quit
<1>0. /\ TypeOK /\ StoreTypeOK /\ TeardownQuiet /\ BootHeld /\ LeasesMove
      /\ closer \in [Closers -> CloserPC] /\ closing \in [Features -> Closers \cup {Nobody, Malformed}]
      /\ Closes \in [Closers -> Features] /\ Nobody \notin Closers
  BY LeaseStep, ConstantsAssumption DEF ConstantsAssumption, IInv, TypeOK, StoreTypeOK
<1>1. Free \notin Runs
  BY ConstantsAssumption DEF ConstantsAssumption
<1>2. ASSUME UNCHANGED <<closing, closer>> PROVE TeardownQuiet'
  BY <1>0, <1>2 DEF InFeature, LeasesMove, Working
<1>3. ASSUME NEW r \in Runs, DriverStep(r) PROVE TeardownQuiet'
  BY <1>2, <1>3
     DEF DriverStep, Prepare, Acquire, AcquireRefused, AcquireCut, AcquireFails, Record, Send,
         Enter, Undo, MarkIndeterminate, FreeLeases, DriverDies
<1>4. ASSUME NEW r \in Runs, RunnerStep(r) PROVE TeardownQuiet'
  BY <1>2, <1>4
     DEF RunnerStep, Validate, Activate, ActivateCut, Start, Finish, Abandon, ReleaseLeases,
         Interrupted, RunnerDies
<1>5. ASSUME NEW r \in Runs, ObserverStep(r) PROVE TeardownQuiet'
  BY <1>2, <1>5 DEF ObserverStep, Observe, AbandonRun, ReleaseObserved
<1>6. ASSUME NEW c \in Closers, CloserStep(c) PROVE TeardownQuiet'
  <2>1. ASSUME UNCHANGED holder \/ Sweeping(holder')
        PROVE  \A n \in LeaseNames, f \in Features : holder'[n] \in InFeature(f) => holder[n] \in InFeature(f)
    BY <1>1, <2>1 DEF Sweeping, InFeature
  <2>2. \A d \in Closers \ {c} : Working(d) /\ closer[c] # "idle" => Closes[d] # Closes[c]
    BY <1>0 DEF BootHeld, Working
  <2>3. ASSUME closer[c] # "idle",
               \A d \in Closers \ {c} : closer'[d] = closer[d],
               \A f \in Features \ {Closes[c]} : closing'[f] = closing[f],
               UNCHANGED holder \/ Sweeping(holder'),
               Working(c)' => /\ closing'[Closes[c]] = c
                              /\ \A n \in LeaseNames : holder'[n] \notin InFeature(Closes[c])
        PROVE  TeardownQuiet'
    BY <1>0, <2>1, <2>2, <2>3 DEF Working
  <2>4. CASE Boot(c)
    BY <1>0, <2>4 DEF Boot, Working
  <2>5. CASE BeginClose(c)
    <3>1. Sweeping(holder')
      BY <1>0, <2>5, ScopeFacts, ReconcileAllFacts DEF BeginClose
    <3>2. closing'[Closes[c]] = c /\ \A f \in Features \ {Closes[c]} : closing'[f] = closing[f]
      BY <1>0, <2>5 DEF BeginClose
    <3>3. \A n \in LeaseNames : holder'[n] \notin InFeature(Closes[c])
      BY <2>5 DEF BeginClose, Closable
    <3>4. closer[c] # "idle" /\ \A d \in Closers \ {c} : closer'[d] = closer[d]
      BY <1>0, <2>5 DEF BeginClose
    <3> QED BY <2>3, <3>1, <3>2, <3>3, <3>4
  <2>6. CASE BeginRefused(c)
    <3>1. Sweeping(holder') \/ UNCHANGED holder
      BY <1>0, <2>6, ScopeFacts, ReconcileAllFacts, ReconcilePartFacts DEF BeginRefused
    <3> QED BY <1>0, <2>3, <2>6, <3>1 DEF BeginRefused, Working
  <2>7. CASE BeginCut(c)
    <3>1. Sweeping(holder')
      BY <1>0, <2>7, ScopeFacts, ReconcileAllFacts DEF BeginCut
    <3>2. \A f \in Features \ {Closes[c]} : closing'[f] = closing[f]
      BY <1>0, <2>7 DEF BeginCut
    <3>3. closer[c] # "idle" /\ closer'[c] = "idle" /\ \A d \in Closers \ {c} : closer'[d] = closer[d]
      BY <1>0, <2>7 DEF BeginCut
    <3> QED BY <2>3, <3>1, <3>2, <3>3 DEF Working
  <2>8. CASE Shut(c)
    BY <1>0, <2>3, <2>8 DEF Shut, Working
  <2>9. CASE Archive(c)
    BY <1>0, <2>3, <2>9 DEF Archive, Working
  <2>13. CASE MoveState(c)
    BY <1>0, <2>3, <2>13 DEF MoveState, Working
  <2>14. CASE MoveManifest(c)
    BY <1>0, <2>3, <2>14 DEF MoveManifest, Working
  <2>12. CASE ArchiveFails(c)
    BY <1>0, <2>3, <2>12 DEF ArchiveFails, Working
  <2>10. CASE EndClose(c)
    BY <1>0, <2>3, <2>10 DEF EndClose, Working
  <2>11. CASE CloserDies(c)
    BY <1>0, <2>3, <2>11 DEF CloserDies, Working
  <2> QED BY <1>6, <2>4, <2>5, <2>6, <2>7, <2>8, <2>9, <2>10, <2>11, <2>12, <2>13, <2>14 DEF CloserStep
<1>7. CASE Reconcile
  BY <1>2, <1>7 DEF Reconcile
<1>8. ASSUME NEW s \in Surfaces, CloseSurface(s) PROVE TeardownQuiet'
  BY <1>2, <1>8 DEF CloseSurface
<1>9. ASSUME NEW f \in Features, CloseWorkspace(f) PROVE TeardownQuiet'
  BY <1>2, <1>9 DEF CloseWorkspace
<1>10. CASE UNCHANGED vars
  BY <1>2, <1>10
<1> QED BY <1>3, <1>4, <1>5, <1>6, <1>7, <1>8, <1>9, <1>10 DEF Next

----------------------------------------------------------------------------
(* The theorems.                                                           *)

\* The inductive invariant holds in every reachable state, for any runs,
\* instances, limits and teardowns.
THEOREM InvariantTheorem == Spec => []IInv
<1>1. Init => IInv
  <2> SUFFICES ASSUME Init PROVE IInv
    OBVIOUS
  <2>1. TypeOK
    BY DEF Init, StoreInit, TypeOK, StoreTypeOK, Statuses, DriverPC, RunnerPC, CloserPC, Pairs
  <2>2. UnderwayHolds /\ ScriptsOrdered /\ ReleaseJustified /\ RetentionKnown
    BY DEF Init, StoreInit, UnderwayHolds, Underway, InProgress, ScriptsOrdered,
           ReleaseJustified, RetentionKnown
  <2>3. ClaimsCounted /\ BootHeld /\ TeardownQuiet
    BY DEF Init, ClaimsCounted, BootHeld, TeardownQuiet, Working
  <2> QED BY <2>1, <2>2, <2>3 DEF IInv
<1>2. IInv /\ [Next]_vars => IInv'
  <2> SUFFICES ASSUME IInv, [Next]_vars PROVE IInv'
    OBVIOUS
  <2>1. TypeOK'
    BY TypeStep DEF IInv
  <2> QED BY <2>1, UnderwayStep, CountedStep, OrderStep, JustifiedStep, RetentionStep, BootStep, QuietStep DEF IInv
<1> QED BY <1>1, <1>2, PTL DEF Spec

\* Leases, markers, ledger and script positions stay within their domains.
THEOREM TypeTheorem == Spec => []TypeOK
<1>1. IInv => TypeOK
  BY DEF IInv
<1> QED BY <1>1, InvariantTheorem, PTL

\* A run the ledger shows at work owns every lease it was given
\* (fleet_leases.py reconcile, release; fleet-dispatch.sh; run-local-task.sh).
THEOREM InProgressTheorem == Spec => []InProgressHolds
<1>1. IInv => InProgressHolds
  <2> SUFFICES ASSUME IInv, NEW r \in Runs, InProgress(r)
               PROVE  claims[r] # {} /\ Owns(r, claims[r])
    BY DEF InProgressHolds
  <2>1. Underway(r)
    BY DEF InProgress, Underway, Terminal, Standing
  <2> QED BY <2>1 DEF IInv, UnderwayHolds
<1> QED BY <1>1, InvariantTheorem, PTL

\* Two runs the ledger shows at work share no instance, slot, role or heavy lease.
THEOREM ExclusionTheorem ==
    Spec => [](\A q, r \in Runs :
                  q # r /\ InProgress(q) /\ InProgress(r) => claims[q] \cap claims[r] = {})
<1>1. InProgressHolds => \A q, r \in Runs :
                  q # r /\ InProgress(q) /\ InProgress(r) => claims[q] \cap claims[r] = {}
  BY DEF InProgressHolds, Owns
<1> QED BY <1>1, InProgressTheorem, PTL

\* While a live fleet-down.sh works its marker stands and its feature owns no lease.
THEOREM TeardownTheorem == Spec => []TeardownQuiet
<1>1. IInv => TeardownQuiet
  BY DEF IInv
<1> QED BY <1>1, InvariantTheorem, PTL

\* No lease leaves its run without evidence that the run is over or was never begun.
THEOREM EvidenceTheorem == Spec => ReclaimedOnEvidence
<1>1. IInv /\ [Next]_vars =>
        [\A n \in LeaseNames, r \in Runs : holder[n] = r /\ holder'[n] # r => Evidence(r)]_vars
  BY LeaseStep DEF LeasesMove, LossJustified, Evidence, FreeLeases, Drive, Standing
<1> QED BY <1>1, InvariantTheorem, PTL DEF Spec, ReclaimedOnEvidence
\* A set whose members have distinct numbers up to n has at most n members.
LEMMA Counted ==
    ASSUME NEW S, NEW n \in Nat, NEW f \in [S -> 1 .. n],
           \A x, y \in S : f[x] = f[y] => x = y
    PROVE  Cardinality(S) <= n
<1>1. f \in Injection(S, 1 .. n)
  BY DEF Injection, IsInjective
<1>2. IsFiniteSet(1 .. n) /\ Cardinality(1 .. n) = n
  BY FS_Interval
<1> QED BY <1>1, <1>2, FS_Injection

\* What the ledger shows at work stays within the limits on instances, heavy runs,
\* slots and roles, for any limits.
THEOREM LimitsTheorem == Spec => []WithinLimits
<1> DEFINE Apart == \A q, r \in Runs :
                  q # r /\ InProgress(q) /\ InProgress(r) => claims[q] \cap claims[r] = {}
<1>1. ClaimsCounted /\ InProgressHolds /\ Apart => WithinLimits
  <2> SUFFICES ASSUME ClaimsCounted, InProgressHolds, Apart PROVE WithinLimits
    OBVIOUS
  <2> DEFINE L == AtWork \ Remote
  <2>0. \A r \in AtWork : r \in Runs /\ InProgress(r)
    BY DEF AtWork
  <2>1. \A r \in AtWork :
          /\ InstanceName(r) \in claims[r]
          /\ r \in Heavy => HeavyName \in claims[r]
          /\ r \notin Remote => /\ \E k \in 1 .. MaxLocal : SlotName(k) \in claims[r]
                               /\ \E j \in 1 .. RoleLimit : RoleName(RoleOf[r], j) \in claims[r]
    BY <2>0 DEF ClaimsCounted, InProgressHolds
  <2>2. ASSUME NEW q \in AtWork, NEW r \in AtWork, q # r
        PROVE  InstanceOf[q] # InstanceOf[r] /\ ~({q, r} \subseteq Heavy)
    BY <2>0, <2>1, <2>2 DEF InstanceName
  <2>3. Cardinality(L) <= MaxLocal
    <3> DEFINE slot == [r \in L |-> CHOOSE k \in 1 .. MaxLocal : SlotName(k) \in claims[r]]
    <3>1. \A r \in L : slot[r] \in 1 .. MaxLocal /\ SlotName(slot[r]) \in claims[r]
      BY <2>1
    <3>2. slot \in [L -> 1 .. MaxLocal]
      BY <3>1
    <3>3. \A q, r \in L : slot[q] = slot[r] => q = r
      <4> HIDE DEF slot
      <4> QED BY <2>0, <3>1
    <3> HIDE DEF slot, L
    <3> QED BY <3>2, <3>3, Counted, ConstantsAssumption DEF ConstantsAssumption
  <2>4. ASSUME NEW p \in Roles PROVE Cardinality({r \in L : RoleOf[r] = p}) <= RoleLimit
    <3> DEFINE M == {r \in L : RoleOf[r] = p}
               lane == [r \in M |-> CHOOSE j \in 1 .. RoleLimit : RoleName(p, j) \in claims[r]]
    <3>1. \A r \in M : lane[r] \in 1 .. RoleLimit /\ RoleName(p, lane[r]) \in claims[r]
      BY <2>1
    <3>2. lane \in [M -> 1 .. RoleLimit]
      BY <3>1
    <3>3. \A q, r \in M : lane[q] = lane[r] => q = r
      <4> HIDE DEF lane
      <4> QED BY <2>0, <3>1
    <3> HIDE DEF lane, M
    <3>4. Cardinality(M) <= RoleLimit
      BY <3>2, <3>3, Counted, ConstantsAssumption DEF ConstantsAssumption
    <3> QED BY <3>4 DEF M
  <2> QED BY <2>2, <2>3, <2>4 DEF WithinLimits, Compatible
<1>2. IInv => ClaimsCounted
  BY DEF IInv
<1> HIDE DEF Apart
<1>3. Spec => []Apart
  BY ExclusionTheorem DEF Apart
<1> QED BY <1>1, <1>2, <1>3, InvariantTheorem, InProgressTheorem, PTL

----------------------------------------------------------------------------
(* FleetRuns implements FleetWork.                                         *)

\* What a script writes to the ledger, from where: an end, or what comes next.
Written(r, s) ==
    \/ s \in Terminal
    \/ s = "preparing" /\ Prepare(r)
    \/ s = "dispatched" /\ driver[r] = "record"
    \/ s = "running" /\ runner[r] = "start"
Records ==
    \E r \in Runs, s \in Statuses :
        Recorded(r, s) /\ Written(r, s) /\ UNCHANGED <<archived, closer>>

\* The ledger moves by a reconciliation, by one script or by an archive.
LedgerMoves ==
    \/ UNCHANGED <<event, archived>>
    \/ Reconciled /\ UNCHANGED archived
    \/ Records
    \/ \E c \in Closers : Archive(c)

LEMMA LedgerMovesStep ==
    ASSUME TypeOK, [Next]_vars
    PROVE  LedgerMoves
<1> USE DEF LedgerMoves, Drive, Run
<1>0. StoreTypeOK
  BY DEF TypeOK
<1>1. ASSUME NEW r \in Runs, NEW s \in Statuses, Recorded(r, s), Written(r, s),
             UNCHANGED <<archived, closer>>
      PROVE  LedgerMoves
  BY <1>1 DEF Records
<1>2. "preparing" \in Statuses /\ "dispatched" \in Statuses /\ "running" \in Statuses
      /\ Terminal \subseteq Statuses /\ "done" \in Terminal /\ "abandoned" \in Terminal
      /\ "indeterminate" \in Terminal
  BY DEF Statuses, Terminal
<1>3. ASSUME NEW r \in Runs, DriverStep(r) PROVE LedgerMoves
  <2>0. UNCHANGED <<archived, closer>>
    BY <1>3
       DEF DriverStep, Prepare, Acquire, AcquireRefused, AcquireCut, AcquireFails, Record, Send,
           Enter, Undo, MarkIndeterminate, FreeLeases, DriverDies
  <2>1. CASE Prepare(r)
    BY <1>1, <1>2, <2>0, <2>1 DEF Prepare, Written
  <2>2. CASE Acquire(r)
    BY <2>0, <2>2, AcquireFacts DEF Granting
  <2>3. CASE AcquireRefused(r)
    BY <1>0, <2>0, <2>3, ReconcileAllFacts DEF AcquireRefused, Sweeping
  <2>4. CASE AcquireCut(r)
    BY <2>0, <2>4, AcquireCutFacts DEF Granting
  <2>5. CASE AcquireFails(r)
    BY <1>0, <2>0, <2>5, ReconcileAllFacts, ReconcilePartFacts DEF AcquireFails, Sweeping
  <2>6. CASE Record(r)
    BY <1>1, <1>2, <2>0, <2>6 DEF Record, Written
  <2>7. CASE Send(r)
    BY <1>1, <1>2, <2>0, <2>7 DEF Send, Abandoning, Written
  <2>8. CASE Enter(r)
    BY <2>0, <2>8 DEF Enter
  <2>9. CASE Undo(r)
    BY <1>1, <1>2, <2>0, <2>9 DEF Undo, Written
  <2>10. CASE MarkIndeterminate(r)
    BY <1>1, <1>2, <2>0, <2>10 DEF MarkIndeterminate, Written
  <2>11. CASE FreeLeases(r) \/ DriverDies(r)
    BY <2>0, <2>11 DEF FreeLeases, DriverDies
  <2> QED BY <1>3, <2>1, <2>2, <2>3, <2>4, <2>5, <2>6, <2>7, <2>8, <2>9, <2>10, <2>11 DEF DriverStep
<1>4. ASSUME NEW r \in Runs, RunnerStep(r) PROVE LedgerMoves
  <2>1. CASE Start(r)
    BY <1>1, <1>2, <2>1 DEF Start, Written
  <2>2. CASE Finish(r)
    BY <1>1, <1>2, <2>2 DEF Finish, Written
  <2>3. CASE Abandon(r)
    BY <1>1, <1>2, <2>3 DEF Abandon, Written
  <2> QED
    BY <1>4, <2>1, <2>2, <2>3
       DEF RunnerStep, Validate, Activate, ActivateCut, ReleaseLeases, Interrupted, RunnerDies
<1>5. ASSUME NEW r \in Runs, ObserverStep(r) PROVE LedgerMoves
  <2>1. CASE Observe(r)
    BY <1>1, <1>2, <2>1 DEF Observe, Written
  <2>2. CASE AbandonRun(r)
    BY <1>1, <1>2, <2>2 DEF AbandonRun, Abandoning, Written
  <2> QED BY <1>5, <2>1, <2>2 DEF ObserverStep, ReleaseObserved
<1>6. ASSUME NEW c \in Closers, CloserStep(c) PROVE LedgerMoves
  <2>1. CASE BeginClose(c)
    BY <1>0, <2>1, ReconcileAllFacts, ScopeFacts DEF BeginClose, Sweeping
  <2>2. CASE BeginRefused(c)
    BY <1>0, <2>2, ReconcileAllFacts, ReconcilePartFacts, ScopeFacts DEF BeginRefused, Sweeping
  <2>3. CASE BeginCut(c)
    BY <1>0, <2>3, ReconcileAllFacts, ScopeFacts DEF BeginCut, Sweeping
  <2> QED
    BY <1>6, <2>1, <2>2, <2>3 DEF CloserStep, Boot, Shut, MoveState, MoveManifest, ArchiveFails, EndClose, CloserDies
<1>7. CASE Reconcile
  BY <1>0, <1>7, ReconcileAllFacts, ReconcilePartFacts DEF Reconcile, Sweeping
<1>8. ASSUME NEW s \in Surfaces, CloseSurface(s) PROVE LedgerMoves
  BY <1>8 DEF CloseSurface
<1>9. ASSUME NEW f \in Features, CloseWorkspace(f) PROVE LedgerMoves
  BY <1>9 DEF CloseWorkspace
<1> QED BY <1>3, <1>4, <1>5, <1>6, <1>7, <1>8, <1>9 DEF Next

\* No script goes back to its beginning, and what is written there moves it on.
LEMMA StartsOnce ==
    ASSUME TypeOK, [Next]_vars
    PROVE  \A q \in Runs : driver'[q] = "start" => driver[q] = "start" /\ ~Prepare(q)
<1> USE DEF Drive
<1>0. driver \in [Runs -> DriverPC]
  BY DEF TypeOK
<1>1. ASSUME NEW r \in Runs, DriverStep(r)
      PROVE  driver'[r] # "start" /\ \A q \in Runs \ {r} : driver'[q] = driver[q]
  BY <1>0, <1>1
     DEF DriverStep, Prepare, Acquire, AcquireRefused, AcquireCut, AcquireFails, Refused, Record,
         Send, Enter, Undo, MarkIndeterminate, FreeLeases, DriverDies
<1>2. (\A r \in Runs : ~DriverStep(r)) => UNCHANGED driver
  BY DEF Next, RunnerStep, Validate, Activate, ActivateCut, Start, Finish, Abandon, ReleaseLeases,
         Interrupted, RunnerDies, ObserverStep, Observe, AbandonRun, ReleaseObserved,
         CloserStep, Boot, BeginClose, BeginRefused, BeginCut, Shut, MoveState, Archive,
         MoveManifest, ArchiveFails, EndClose, CloserDies, Reconcile, CloseSurface, CloseWorkspace
<1>3. \A q \in Runs : Prepare(q) => DriverStep(q)
  BY DEF DriverStep
<1> QED BY <1>1, <1>2, <1>3

\* Before its script is through with its checks nothing of a run is recorded.
THEOREM NotBegunTheorem == Spec => []NotBegun
<1>1. Init => NotBegun
  BY DEF Init, StoreInit, NotBegun
<1>2. IInv /\ NotBegun /\ [Next]_vars => NotBegun'
  <2> SUFFICES ASSUME IInv, NotBegun, [Next]_vars, NEW q \in Runs, driver'[q] = "start"
               PROVE  event'[q] \in {"none"} \cup Terminal
    BY DEF NotBegun
  <2>0. /\ TypeOK /\ event \in [Runs -> Statuses]
        /\ event[q] \in {"none"} \cup Terminal
        /\ driver[q] = "start" /\ runner[q] = "none" /\ ~Prepare(q)
    BY StartsOnce DEF IInv, TypeOK, StoreTypeOK, ScriptsOrdered, NotBegun
  <2>1. CASE Records
    <3>1. PICK r \in Runs, s \in Statuses : Recorded(r, s) /\ Written(r, s)
      BY <2>1 DEF Records
    <3>2. q = r => s \in Terminal
      BY <2>0, <3>1 DEF Written
    <3> QED BY <2>0, <3>1, <3>2, RecordedFacts
  <2>2. CASE \E c \in Closers : Archive(c)
    BY <2>0, <2>2 DEF Archive
  <2> QED BY <2>0, <2>1, <2>2, LedgerMovesStep DEF LedgerMoves, Reconciled, Terminal
<1> QED BY <1>1, <1>2, InvariantTheorem, PTL DEF Spec

\* How far FleetWork sees a run.
Stage(r) == IF InProgress(r) THEN "working"
            ELSE IF Standing(r) /\ event[r] \notin Terminal THEN "waiting" ELSE "over"

\* A run keeps its stage or is over; or one begins, and nothing else happens.
Stays(q) == Stage(q)' \in {Stage(q), "over"}
StageMoves ==
    \/ \A q \in Runs : Stays(q)
    \/ \E r \in Runs :
        /\ Stage(r) = "waiting" /\ Stage(r)' = "working"
        /\ \A q \in Runs \ {r} : Stage(q)' = Stage(q)
        /\ UNCHANGED closer

LEMMA StageStep ==
    ASSUME IInv, NotBegun, [Next]_vars
    PROVE  StageMoves
<1> USE DEF StageMoves, Stays, Stage, InProgress, Standing, Terminal
<1>0. /\ TypeOK /\ event \in [Runs -> Statuses] /\ LedgerMoves
      /\ ScriptsOrdered /\ ReleaseJustified
  BY LedgerMovesStep DEF IInv, TypeOK, StoreTypeOK
<1>1. CASE UNCHANGED <<event, archived>>
  BY <1>1
<1>2. CASE Reconciled /\ UNCHANGED archived
  BY <1>2 DEF Reconciled
<1>3. CASE Records
  <2>1. PICK r \in Runs, s \in Statuses :
          Recorded(r, s) /\ Written(r, s) /\ UNCHANGED <<archived, closer>>
    BY <1>3 DEF Records
  <2>2. /\ \A q \in Runs \ {r} : event'[q] = event[q]
        /\ event[r] \in Terminal => event'[r] = event[r]
        /\ event[r] \notin Terminal => event'[r] = s
    BY <1>0, <2>1, RecordedFacts
  <2>3. \A q \in Runs \ {r} : Stage(q)' = Stage(q)
    BY <2>1, <2>2
  <2>4. Stays(r) \/ (Stage(r) = "waiting" /\ Stage(r)' = "working")
    <3>1. CASE ~Standing(r) \/ event[r] \in Terminal \/ s \in Terminal
      BY <2>1, <2>2, <3>1
    <3>2. CASE s = "preparing" /\ Prepare(r)
      <4>1. event[r] \in {"none"} \cup Terminal
        BY <3>2 DEF NotBegun, Prepare, Drive
      <4> QED BY <2>1, <2>2, <3>2, <4>1
    <3>3. CASE s = "dispatched" /\ driver[r] = "record" /\ Standing(r)
      <4>1. event[r] # "running"
        BY <1>0, <3>3 DEF ScriptsOrdered, ReleaseJustified
      <4> QED BY <2>1, <2>2, <3>3, <4>1
    <3>4. CASE s = "running" /\ runner[r] = "start"
      <4>1. r \notin Remote
        BY <1>0, <3>4 DEF ScriptsOrdered
      <4> QED BY <2>1, <2>2, <3>4, <4>1
    <3> QED BY <2>1, <3>1, <3>2, <3>3, <3>4 DEF Written
  <2> QED BY <2>1, <2>3, <2>4
<1>4. CASE \E c \in Closers : Archive(c)
  BY <1>0, <1>4, ConstantsAssumption DEF ConstantsAssumption, Archive, InFeature
<1> QED BY <1>0, <1>1, <1>2, <1>3, <1>4 DEF LedgerMoves

\* What FleetWork calls working is what the ledger shows at work.
LEMMA StageFacts ==
    /\ Progress = [r \in Runs |-> Stage(r)]
    /\ AtWork = {r \in Runs : Stage(r) = "working"}
    /\ Fleet!Working(Progress) = AtWork
BY DEF Progress, Stage, AtWork, Fleet!Working

\* No run is at work in a feature that is being torn down.
WorkClear == \A r \in AtWork : FeatureOf[r] \notin TornDown

THEOREM WorkClearTheorem == Spec => []WorkClear
<1>1. IInv => WorkClear
  <2> SUFFICES ASSUME IInv, NEW r \in Runs, InProgress(r),
                      NEW c \in Closers, Working(c), Closes[c] = FeatureOf[r]
               PROVE  FALSE
    BY DEF WorkClear, AtWork, TornDown, Working
  <2>1. Underway(r)
    BY DEF InProgress, Underway, Terminal, Standing
  <2>2. claims[r] # {} /\ claims[r] \subseteq LeaseNames /\ \A n \in claims[r] : holder[n] = r
    BY <2>1 DEF IInv, UnderwayHolds, Owns, TypeOK
  <2>3. \A n \in LeaseNames : holder[n] \notin InFeature(Closes[c])
    BY DEF IInv, TeardownQuiet, Working
  <2> QED BY <2>2, <2>3 DEF InFeature
<1> QED BY <1>1, InvariantTheorem, PTL

\* When no run begins, those whose stage changed have ended.
LEMMA EndedFacts ==
    ASSUME \A q \in Runs : Stays(q), NEW S, \A q \in Runs : Stage(q)' # Stage(q) => q \in S
    PROVE  \E R \in SUBSET {r \in Runs : r \in S} : Progress' = Fleet!Ended(R)
<1> DEFINE R == {q \in Runs : Stage(q)' # Stage(q)}
<1>1. Progress' = [r \in Runs |-> Stage(r)'] /\ \A r \in Runs : Progress[r] = Stage(r)
  BY DEF Progress, Stage
<1>2. \A r \in Runs : Stage(r)' = IF r \in R THEN "over" ELSE Progress[r]
  BY <1>1 DEF Stays
<1>3. Progress' = Fleet!Ended(R)
  BY <1>1, <1>2 DEF Fleet!Ended
<1> QED BY <1>3

\* Which features a step of a teardown adds to, or takes from, those torn down.
LEMMA TornDownMoves ==
    ASSUME IInv, NEW c \in Closers, CloserStep(c)
    PROVE  \/ BeginClose(c) /\ Closes[c] \notin TornDown /\ TornDown' = TornDown \cup {Closes[c]}
           \/ /\ UNCHANGED <<event, archived>>
              /\ Closes[c] \in TornDown /\ TornDown' = TornDown \ {Closes[c]}
           \/ TornDown' = TornDown
<1> USE DEF Step, Quit, Working
<1>0. /\ closer \in [Closers -> CloserPC] /\ BootHeld /\ Closes \in [Closers -> Features]
      /\ boot \in [Features -> Closers \cup {Nobody}] /\ Nobody \notin Closers
  BY ConstantsAssumption DEF ConstantsAssumption, IInv, TypeOK
<1>1. TornDown = {Closes[d] : d \in {d \in Closers : Working(d)}}
  BY DEF TornDown
<1>2. TornDown' = {Closes[d] : d \in {d \in Closers : Working(d)'}}
  BY DEF TornDown
<1>3. \A d \in Closers \ {c} : Working(d)' <=> Working(d)
  BY <1>0
     DEF CloserStep, Boot, BeginClose, BeginRefused, BeginCut, Shut, MoveState, Archive,
         MoveManifest, ArchiveFails, EndClose, CloserDies
<1>4. closer[c] # "idle" => \A d \in Closers \ {c} : Working(d) => Closes[d] # Closes[c]
  BY <1>0 DEF BootHeld
<1> HIDE DEF Working
<1>5. CASE Working(c)' <=> Working(c)
  BY <1>1, <1>2, <1>3, <1>5
<1>6. CASE Working(c)' /\ ~Working(c)
  <2>1. BeginClose(c) /\ closer[c] # "idle"
    BY <1>0, <1>6
       DEF Working, CloserStep, Boot, BeginClose, BeginRefused, BeginCut, Shut, MoveState, Archive,
           MoveManifest, ArchiveFails, EndClose, CloserDies
  <2> QED BY <1>1, <1>2, <1>3, <1>4, <1>6, <2>1
<1>7. CASE ~Working(c)' /\ Working(c)
  <2>1. UNCHANGED <<event, archived>> /\ closer[c] # "idle"
    BY <1>0, <1>7
       DEF Working, CloserStep, Boot, BeginClose, BeginRefused, BeginCut, Shut, MoveState, Archive,
           MoveManifest, ArchiveFails, EndClose, CloserDies
  <2> QED BY <1>1, <1>2, <1>3, <1>4, <1>7, <2>1
<1> QED BY <1>5, <1>6, <1>7

\* Each step of dispatch, runs and teardowns is one of FleetWork, or none.
LEMMA WorkStep ==
    ASSUME IInv, NotBegun, WorkClear', WithinLimits', [Next]_vars
    PROVE  [Fleet!Next]_(Fleet!vars)
<1>0. /\ StageMoves
      /\ Closes \in [Closers -> Features] /\ FeatureOf \in [Runs -> Features]
      /\ event \in [Runs -> Statuses]
  BY StageStep, ConstantsAssumption DEF ConstantsAssumption, IInv, TypeOK, StoreTypeOK
<1>1. UNCHANGED closer => UNCHANGED TornDown
  BY DEF TornDown, Working
<1>2. AtWork' = {r \in Runs : Stage(r)' = "working"} /\ Progress' = [r \in Runs |-> Stage(r)']
  BY DEF AtWork, Progress, Stage
<1>3. ASSUME NEW r \in Runs, Stage(r) = "waiting", Stage(r)' = "working", UNCHANGED closer,
             \A q \in Runs \ {r} : Stage(q)' = Stage(q)
      PROVE  Fleet!Begin(r)
  <2>1. Progress[r] = "waiting" /\ Progress' = [Progress EXCEPT ![r] = "working"]
    BY <1>2, <1>3, StageFacts
  <2>2. Fleet!Working(Progress) \cup {r} = AtWork'
    BY <1>2, <1>3, StageFacts
  <2>3. AtWork' \in {W \in SUBSET Runs : Compatible(W)}
    BY <1>2 DEF WithinLimits
  <2>4. FeatureOf[r] \notin TornDown /\ UNCHANGED TornDown
    BY <1>1, <1>2, <1>3 DEF WorkClear
  <2> QED BY <2>1, <2>2, <2>3, <2>4 DEF Fleet!Begin
<1>4. ASSUME \A q \in Runs : Stays(q), UNCHANGED TornDown PROVE Fleet!End
  <2>1. \E R \in SUBSET {r \in Runs : r \in Runs} : Progress' = Fleet!Ended(R)
    BY <1>4, EndedFacts
  <2> QED BY <1>4, <2>1 DEF Fleet!End
<1>5. ASSUME \A q \in Runs : Stays(q), NEW c \in Closers, BeginClose(c),
             Closes[c] \notin TornDown, TornDown' = TornDown \cup {Closes[c]}
      PROVE  Fleet!Close(Closes[c])
  <2>1. PICK probed \in BOOLEAN : event' = Abandoned(Reclaimable(InFeature(Closes[c]), probed))
    BY <1>5 DEF BeginClose, ReconcileAll
  <2>2. \A q \in Runs : Stage(q)' # Stage(q) => q \in InFeature(Closes[c])
    <3>1. Reclaimable(InFeature(Closes[c]), probed) \subseteq InFeature(Closes[c])
      BY DEF Reclaimable
    <3>2. \A q \in Runs \ InFeature(Closes[c]) : event'[q] = event[q]
      BY <1>0, <2>1, <3>1 DEF Abandoned
    <3>3. UNCHANGED archived
      BY <1>5 DEF BeginClose
    <3> QED BY <3>2, <3>3 DEF Stage, InProgress, Standing
  <2>3. \E R \in SUBSET {r \in Runs : FeatureOf[r] = Closes[c]} : Progress' = Fleet!Ended(R)
    <3>1. \E R \in SUBSET {r \in Runs : r \in InFeature(Closes[c])} : Progress' = Fleet!Ended(R)
      BY <1>5, <2>2, EndedFacts
    <3> QED BY <3>1 DEF InFeature
  <2>4. \A r \in Fleet!Working(Progress') : FeatureOf[r] # Closes[c]
    <3>1. Fleet!Working(Progress') = AtWork'
      BY <1>2 DEF Fleet!Working
    <3> QED BY <1>5, <3>1 DEF WorkClear
  <2> QED BY <1>5, <2>3, <2>4 DEF Fleet!Close
<1>6. ASSUME UNCHANGED <<event, archived>>, NEW c \in Closers,
             Closes[c] \in TornDown, TornDown' = TornDown \ {Closes[c]}
      PROVE  Fleet!Open(Closes[c])
  <2>1. UNCHANGED Progress
    BY <1>6 DEF Progress, InProgress, Standing
  <2> QED BY <1>6, <2>1 DEF Fleet!Open
<1>7. UNCHANGED closer \/ \E c \in Closers : CloserStep(c)
  BY DEF Next, DriverStep, Prepare, Acquire, AcquireRefused, AcquireCut, AcquireFails, Record,
         Send, Enter, Undo, MarkIndeterminate, FreeLeases, DriverDies, RunnerStep, Validate,
         Activate, ActivateCut, Start, Finish, Abandon, ReleaseLeases, Interrupted, RunnerDies,
         ObserverStep, Observe, AbandonRun, ReleaseObserved, Reconcile, CloseSurface,
         CloseWorkspace
<1>8. CASE \A q \in Runs : Stays(q)
  <2>1. CASE UNCHANGED TornDown
    BY <1>4, <1>8, <2>1 DEF Fleet!Next
  <2>2. CASE ~UNCHANGED TornDown
    <3>1. PICK c \in Closers : CloserStep(c)
      BY <1>1, <1>7, <2>2
    <3>2. Fleet!Close(Closes[c]) \/ Fleet!Open(Closes[c])
      BY <1>5, <1>6, <1>8, <2>2, <3>1, TornDownMoves
    <3> QED BY <1>0, <3>2 DEF Fleet!Next
  <2> QED BY <2>1, <2>2
<1>9. CASE \E r \in Runs :
              /\ Stage(r) = "waiting" /\ Stage(r)' = "working"
              /\ \A q \in Runs \ {r} : Stage(q)' = Stage(q)
              /\ UNCHANGED closer
  BY <1>3, <1>9 DEF Fleet!Next
<1> QED BY <1>0, <1>8, <1>9 DEF StageMoves

\* Dispatch, runs and teardowns implement FleetWork: a run begins once, only within
\* the limits and never in a feature that is being torn down (fleet_leases.py acquire,
\* begin_close; fleet-dispatch.sh, run-local-task.sh, fleet-down.sh).
THEOREM WorkTheorem == Spec => WorkAdmitted
<1>1. Init => Fleet!Init
  BY DEF Init, StoreInit, Fleet!Init, Progress, TornDown, Working, InProgress, Standing, Terminal
<1>2. IInv /\ NotBegun /\ WorkClear' /\ WithinLimits' /\ [Next]_vars => [Fleet!Next]_(Fleet!vars)
  BY WorkStep
<1> QED
  BY <1>1, <1>2, InvariantTheorem, NotBegunTheorem, WorkClearTheorem, LimitsTheorem, PTL
     DEF Spec, WorkAdmitted, Fleet!Spec

-----------------------------------------------------------------------------
(***************************************************************************)
(* Proofs about Boot, for any writers, readers, number of failures and     *)
(* number of directories in the way.  FleetRuns and Boot have no variable  *)
(* in common; each theorem speaks of one of the two specifications.        *)
(***************************************************************************)
Up == INSTANCE Boot

(* The assumption on the constants is the one of the instance. *)
LEMMA UpAssumed == Up!BootAssumption
BY BootAssumption DEF BootAssumption, Up!BootAssumption, Tasks, Places, Contents, StageIntents, Ledgers,
   Intents, Up!Tasks, Up!Places, Up!Contents, Up!StageIntents, Up!Ledgers, Up!Intents

USE DEF Up!vars, Up!disk, Up!journals, Up!books, Up!around, Up!script, Up!Clones, Up!BootSteps,
    Up!RetireSteps, Up!UndoSteps, Up!Creating, Up!AtClone, Up!Opened, Up!Undoing, Up!Tasks,
    Up!Places, Up!Contents, Up!StageIntents, Up!Ledgers, Up!Intents

(* What cannot be retired ends the attempt or is left for the next one: no variable leaves its type. *)
LEMMA UpGivesUp == ASSUME Up!ScriptTyped, Up!GiveUp PROVE Up!ScriptTyped'
<1>1. CASE task = "undo" BY <1>1 DEF Up!GiveUp, Up!ScriptTyped
<1>2. CASE task # "undo" BY <1>2 DEF Up!GiveUp, Up!Refuse, Up!Turn, Up!ScriptTyped
<1> QED BY <1>1, <1>2

(* Nor does one when the script goes to another step of a retirement or of the rollback. *)
LEMMA UpGoes ==
    ASSUME Up!ScriptTyped, NEW p \in Up!RetireSteps \cup Up!UndoSteps, Up!Goto(p)
    PROVE Up!ScriptTyped'
BY DEF Up!Goto, Up!ScriptTyped

(* The steps of a retirement that may give up. *)
LEMMA UpRetireTypes ==
    ASSUME Up!ScriptTyped, Up!Verify \/ Up!Bury \/ Up!Remove \/ Up!Exhume \/ Up!Unbind
    PROVE Up!ScriptTyped'
<1>1. CASE Up!GiveUp BY <1>1, UpGivesUp
<1>2. CASE \E p \in Up!RetireSteps : Up!Goto(p) BY <1>2, UpGoes
<1> QED BY <1>1, <1>2 DEF Up!Verify, Up!Bury, Up!Remove, Up!Exhume, Up!Unbind

(* Looking for a ledger to remove leaves the clones alone. *)
LEMMA UpCleanLedgerKeepsMade == ASSUME Up!BootAssumption, Up!IInv, Up!CleanLedger PROVE Up!Made'
<1>1. Up!Made /\ UNCHANGED <<manifest, Up!disk, Up!journals>> /\ attempt'.made = attempt.made
  BY DEF Up!IInv, Up!TypeOK, Up!CleanLedger, Up!Goto, Up!Notes, Up!ScriptTyped
<1> QED BY <1>1 DEF Up!Made

(* A rollback begins with the workspace: it is gone, or everything is kept. *)
LEMMA UpCloseKeepsTypes ==
    ASSUME Up!BootAssumption, Up!IInv, Up!Close
    PROVE Up!ScriptTyped' /\ Up!Made' /\ Up!Live'
<1>a. Up!ScriptTyped /\ Up!BooksTyped /\ Up!Steps /\ Up!Live /\ Up!Made /\ pc = "close"
      /\ attempt'.made = attempt.made
      /\ attempt'.opened = attempt.opened /\ UNCHANGED <<cur, task, manifest, ledger, Up!disk, Up!journals>>
  BY DEF Up!IInv, Up!TypeOK, Up!Close, Up!Goto, Up!Notes, Up!ScriptTyped
<1>1. Up!ScriptTyped'
  <2>1. CASE Up!Goto("undo") BY <2>1, <1>a, UpGoes
  <2>2. CASE Up!Notes("unmanifest", [attempt EXCEPT !.complete = FALSE, !.journaled = FALSE])
     BY <2>2, <1>a DEF Up!Notes, Up!ScriptTyped
  <2> QED BY <2>1, <2>2 DEF Up!Close
<1>2. Up!Made' BY <1>a DEF Up!Made
<1>3. Up!Live'
  <2>1. CASE live' = (live /\ ~attempt.opened) 
    <3>1. live => attempt.opened BY <1>a DEF Up!Live
    <3>2. ~live' BY <3>1, <2>1, <1>a
    <3> QED BY <3>2 DEF Up!Live
  <2>2. CASE attempt.opened /\ Up!Notes("unmanifest", [attempt EXCEPT !.complete = FALSE, !.journaled = FALSE])
    <3>1. ~attempt'.journaled /\ pc' = "unmanifest" BY <2>2, <1>a DEF Up!Notes, Up!ScriptTyped
    <3>2. live' = live BY <2>2, <1>a DEF Up!Close, Up!Goto, Up!Notes
    <3> QED BY <3>1, <3>2, <1>a, <2>2 DEF Up!Live
  <2> QED BY <2>1, <2>2 DEF Up!Close
<1> QED BY <1>1, <1>2, <1>3

(* The rollback takes up one clone more, leaves it, or is through with them. *)
LEMMA UpUndoSteps == ASSUME Up!BootAssumption, Up!IInv, Up!Undo PROVE Up!Steps'
<1>a. Up!ScriptTyped /\ Up!Steps /\ pc = "undo" BY DEF Up!IInv, Up!TypeOK, Up!Undo
<1>1. \/ pc' = "stage" /\ task' = "undo" /\ cur' \in Up!Clones
      \/ pc' = "undo" /\ UNCHANGED <<cur, task>>
      \/ pc' = "clean" /\ cur' = None /\ task' = None
  BY <1>a DEF Up!Undo, Up!Notes, Up!Turn, Up!ScriptTyped
<1> QED BY <1>a, <1>1 DEF Up!Steps, Up!BootAssumption

(* What the rollback of a clone keeps: it is given back to its journals, or kept with all others. *)
LEMMA UpUndoParts ==
    ASSUME Up!BootAssumption, Up!IInv, Up!Undo
    PROVE Up!ScriptTyped' /\ Up!Attempt' /\ Up!Made' /\ Up!Given' /\ Up!Current'
<1> USE DEF Up!BootAssumption
<1>a. Up!ScriptTyped /\ Up!Steps /\ Up!Attempt /\ Up!Made /\ Up!Given /\ Up!Current
      /\ Up!DiskTyped /\ pc = "undo" /\ UNCHANGED <<Up!disk, Up!journals, Up!books, Up!around>>
  BY DEF Up!IInv, Up!TypeOK, Up!Undo
<1>1. ASSUME NEW c \in attempt.made, Up!Head(c), pc' = "stage", cur' = c, task' = "undo",
             attempt' = [attempt EXCEPT !.made = @ \ {c}]
   PROVE Up!ScriptTyped' /\ Up!Attempt' /\ Up!Made' /\ Up!Given' /\ Up!Current'
   <2>0. c \in Up!Clones BY <1>a, <1>1 DEF Up!ScriptTyped
   <2>1. Up!ScriptTyped' BY <1>a, <1>1 DEF Up!ScriptTyped
   <2>2. Up!Attempt'
       BY <1>a, <1>1,<2>1 DEF Up!ScriptTyped, Up!Attempt, Up!Steps, Up!Early, Up!Late
   <2>3. Up!Made' BY <1>a, <1>1 DEF Up!ScriptTyped, Up!Made
   <2>4. Up!Given' BY <1>a, <1>1 DEF Up!ScriptTyped, Up!Given, Up!Made, Up!UndoingNow
   <2>5. Up!Current' BY <1>a, <1>1, <2>0 DEF Up!ScriptTyped, Up!Made, Up!Current
   <2> QED BY <2>1, <2>2, <2>3, <2>4, <2>5
<1>2. ASSUME NEW c \in attempt.made, ~Up!Head(c), Up!Notes("undo", [attempt EXCEPT !.made = @ \ {c},
             !.complete = FALSE, !.journaled = FALSE])
   PROVE Up!ScriptTyped' /\ Up!Attempt' /\ Up!Made' /\ Up!Given' /\ Up!Current'
   <2> USE DEF Up!Notes
   <2>1. Up!ScriptTyped' BY <1>a, <1>2 DEF Up!ScriptTyped
   <2>2. Up!Attempt'
       BY <1>a, <1>2,<2>1 DEF Up!ScriptTyped, Up!Attempt, Up!Steps, Up!Early, Up!Late
   <2>3. Up!Made' BY <1>a, <1>2 DEF Up!ScriptTyped, Up!Made
   <2>4. Up!Given' BY <1>a, <1>2 DEF Up!ScriptTyped, Up!Given, Up!Made, Up!UndoingNow
   <2>5. Up!Current' BY <1>a, <1>2 DEF Up!ScriptTyped, Up!Made, Up!Current
   <2> QED BY <2>1, <2>2, <2>3, <2>4, <2>5
<1>3. ASSUME attempt.made = {}, Up!Turn("clean", None, None)
   PROVE Up!ScriptTyped' /\ Up!Attempt' /\ Up!Made' /\ Up!Given' /\ Up!Current'
   <2> USE DEF Up!Turn
   <2>1. Up!ScriptTyped' BY <1>a, <1>3 DEF Up!ScriptTyped
   <2>2. Up!Attempt'
       BY <1>a, <1>3,<2>1 DEF Up!ScriptTyped, Up!Attempt, Up!Steps, Up!Early, Up!Late
   <2>3. Up!Made' BY <1>a, <1>3 DEF Up!ScriptTyped, Up!Made
   <2>4. Up!Given' BY <1>a, <1>3 DEF Up!ScriptTyped, Up!Given, Up!Made, Up!UndoingNow
   <2>5. Up!Current' BY <1>a, <1>3 DEF Up!ScriptTyped, Up!Made, Up!Current
   <2> QED BY <2>1, <2>2, <2>3, <2>4, <2>5
<1> QED BY <1>1, <1>2, <1>3 DEF Up!Undo

(* A ledger somebody has used makes the rollback keep everything. *)
LEMMA UpCleanLedgerParts ==
    ASSUME Up!BootAssumption, Up!IInv, Up!CleanLedger
    PROVE Up!ScriptTyped' /\ Up!Attempt'
<1> USE DEF Up!BootAssumption
<1>a. Up!ScriptTyped /\ Up!Steps /\ Up!Attempt /\ pc = "clean"
      /\ UNCHANGED <<manifest, live, cur, task>>
  BY DEF Up!IInv, Up!TypeOK, Up!CleanLedger, Up!Goto, Up!Notes
<1>b. ASSUME Up!Goto("unmanifest") \/ Up!Goto("drop") PROVE Up!ScriptTyped' /\ Up!Attempt'
  <2>1. Up!ScriptTyped' BY <1>a, <1>b DEF Up!Goto, Up!ScriptTyped
  <2>2. Up!Attempt'
      BY <1>a, <1>b DEF Up!Goto, Up!ScriptTyped, Up!Attempt, Up!Steps, Up!Early, Up!Late
  <2> QED BY <2>1, <2>2
<1>c. ASSUME Up!Notes("unmanifest", [attempt EXCEPT !.complete = FALSE,
             !.journaled = FALSE]) PROVE Up!ScriptTyped' /\ Up!Attempt'
  <2>1. Up!ScriptTyped' BY <1>a, <1>c DEF Up!Notes, Up!ScriptTyped
  <2>2. Up!Attempt'
      BY <1>a, <1>c DEF Up!Notes, Up!ScriptTyped, Up!Attempt, Up!Steps, Up!Early, Up!Late
  <2> QED BY <2>1, <2>2
<1> QED BY <1>b, <1>c DEF Up!CleanLedger

(* A workspace that may still be open does so too. *)
LEMMA UpCloseParts == ASSUME Up!BootAssumption, Up!IInv, Up!Close PROVE Up!Attempt' /\ Up!Given'
<1> USE DEF Up!BootAssumption
<1>a. Up!ScriptTyped /\ Up!Steps /\ Up!Attempt /\ pc = "close" /\ Up!DiskTyped /\ Up!Owned
      /\ UNCHANGED <<manifest, cur, task, Up!disk, Up!journals>>
  BY DEF Up!IInv, Up!TypeOK, Up!Close, Up!Goto, Up!Notes
<1>b. ASSUME Up!Goto("undo") PROVE Up!Attempt' /\ Up!Given'
  <2>2. Up!Attempt'
      BY <1>a, <1>b DEF Up!Goto, Up!ScriptTyped, Up!Attempt, Up!Steps, Up!Early, Up!Late
  <2>3. Up!Given'
      BY <1>a, <1>b DEF Up!Goto, Up!ScriptTyped, Up!Attempt, Up!Given, Up!Owned, Up!UndoingNow
  <2> QED BY <2>2, <2>3
<1>c. ASSUME Up!Notes("unmanifest", [attempt EXCEPT !.complete = FALSE,
             !.journaled = FALSE]) PROVE Up!Attempt' /\ Up!Given'
  <2>2. Up!Attempt'
      BY <1>a, <1>c DEF Up!Notes, Up!ScriptTyped, Up!Attempt, Up!Steps, Up!Early, Up!Late
  <2>3. Up!Given' BY <1>a, <1>c DEF Up!Notes, Up!ScriptTyped, Up!Given
  <2> QED BY <2>2, <2>3
<1> QED BY <1>b, <1>c DEF Up!Close

(* The manifest is withdrawn, or the attempt is over. *)
LEMMA UpUnpublishTypes == ASSUME Up!BootAssumption, Up!IInv, Up!Unpublish PROVE Up!ScriptTyped'
<1> USE DEF Up!BootAssumption
<1>a. Up!ScriptTyped /\ Up!BooksTyped BY DEF Up!IInv, Up!TypeOK
<1>1. CASE Up!Goto("unstate") BY <1>1, <1>a DEF Up!Goto, Up!ScriptTyped
<1>2. CASE Up!Gone BY <1>2, <1>a DEF Up!Gone, Up!ScriptTyped, Up!Fresh
<1> QED BY <1>1, <1>2 DEF Up!Unpublish

USE DEF Up!BootAssumption, Up!IInv, Up!TypeOK, Up!ScriptTyped, Up!DiskTyped, Up!BooksTyped,
    Up!Early, Up!Late, Up!UndoingNow, Up!Goto, Up!Turn, Up!Notes, Up!Refuse, Up!GiveUp, Up!Gone,
    Up!Head, Up!Kept, Up!Fresh

(* Admission and the lifecycle ledger. *)
LEMMA UpStartKeeps == ASSUME Up!BootAssumption, Up!IInv, Up!Start PROVE Up!IInv'
<1> USE DEF Up!Start
<1>1. Up!ScriptTyped' OBVIOUS
<1>2. Up!DiskTyped' OBVIOUS
<1>3. Up!BooksTyped' OBVIOUS
<1>4. Up!Steps' BY DEF Up!Steps
<1>5. Up!Attempt' BY DEF Up!Attempt
<1>6. Up!Live' BY DEF Up!Live
<1>7. Up!LedgerThere' BY DEF Up!LedgerThere
<1>8. Up!Made' BY DEF Up!Made
<1>9. Up!Buried' BY DEF Up!Buried
<1>10. Up!There' BY DEF Up!There
<1>11. Up!Given' BY DEF Up!Given, Up!Steps
<1>12. Up!Current' BY DEF Up!Current
<1>13. Up!Owned' BY DEF Up!Owned
<1> QED BY <1>1, <1>2, <1>3, <1>4, <1>5, <1>6, <1>7, <1>8, <1>9, <1>10, <1>11, <1>12, <1>13

LEMMA UpPrepareLedgerKeeps == ASSUME Up!BootAssumption, Up!IInv, Up!PrepareLedger PROVE Up!IInv'
<1> USE DEF Up!PrepareLedger
<1>1. Up!ScriptTyped' OBVIOUS
<1>2. Up!DiskTyped' OBVIOUS
<1>3. Up!BooksTyped' OBVIOUS
<1>4. Up!Steps' BY DEF Up!Steps
<1>5. Up!Attempt' BY DEF Up!Attempt
<1>6. Up!Live' BY DEF Up!Live
<1>7. Up!LedgerThere' BY DEF Up!LedgerThere
<1>8. Up!Made' BY DEF Up!Made
<1>9. Up!Buried' BY DEF Up!Buried
<1>10. Up!There' BY DEF Up!There
<1>11. Up!Given' BY DEF Up!Given
<1>12. Up!Current' BY DEF Up!Current
<1>13. Up!Owned' BY DEF Up!Owned
<1> QED BY <1>1, <1>2, <1>3, <1>4, <1>5, <1>6, <1>7, <1>8, <1>9, <1>10, <1>11, <1>12, <1>13

LEMMA UpCreateLedgerKeeps == ASSUME Up!BootAssumption, Up!IInv, Up!CreateLedger PROVE Up!IInv'
<1> USE DEF Up!CreateLedger
<1>1. Up!ScriptTyped' OBVIOUS
<1>2. Up!DiskTyped' OBVIOUS
<1>3. Up!BooksTyped' OBVIOUS
<1>4. Up!Steps' BY DEF Up!Steps
<1>5. Up!Attempt' BY DEF Up!Attempt
<1>6. Up!Live' BY DEF Up!Live
<1>7. Up!LedgerThere' BY DEF Up!LedgerThere
<1>8. Up!Made' BY DEF Up!Made
<1>9. Up!Buried' BY DEF Up!Buried
<1>10. Up!There' BY DEF Up!There
<1>11. Up!Given' BY DEF Up!Given
<1>12. Up!Current' BY DEF Up!Current
<1>13. Up!Owned' BY DEF Up!Owned
<1> QED BY <1>1, <1>2, <1>3, <1>4, <1>5, <1>6, <1>7, <1>8, <1>9, <1>10, <1>11, <1>12, <1>13

LEMMA UpBindLedgerKeeps == ASSUME Up!BootAssumption, Up!IInv, Up!BindLedger PROVE Up!IInv'
<1> USE DEF Up!BindLedger
<1>1. Up!ScriptTyped' OBVIOUS
<1>2. Up!DiskTyped' OBVIOUS
<1>3. Up!BooksTyped' OBVIOUS
<1>4. Up!Steps' BY DEF Up!Steps
<1>5. Up!Attempt' BY DEF Up!Attempt
<1>6. Up!Live' BY DEF Up!Live
<1>7. Up!LedgerThere' BY DEF Up!LedgerThere
<1>8. Up!Made' BY DEF Up!Made
<1>9. Up!Buried' BY DEF Up!Buried
<1>10. Up!There' BY DEF Up!There
<1>11. Up!Given' BY DEF Up!Given
<1>12. Up!Current' BY DEF Up!Current
<1>13. Up!Owned' BY DEF Up!Owned
<1> QED BY <1>1, <1>2, <1>3, <1>4, <1>5, <1>6, <1>7, <1>8, <1>9, <1>10, <1>11, <1>12, <1>13

LEMMA UpDropLedgerKeeps == ASSUME Up!BootAssumption, Up!IInv, Up!DropLedger PROVE Up!IInv'
<1> USE DEF Up!DropLedger
<1>1. Up!ScriptTyped' OBVIOUS
<1>2. Up!DiskTyped' OBVIOUS
<1>3. Up!BooksTyped' OBVIOUS
<1>4. Up!Steps' BY DEF Up!Steps
<1>5. Up!Attempt' BY DEF Up!Attempt
<1>6. Up!Live' BY DEF Up!Live, Up!Steps
<1>7. Up!LedgerThere' BY DEF Up!LedgerThere, Up!Steps
<1>8. Up!Made' BY DEF Up!Made
<1>9. Up!Buried' BY DEF Up!Buried
<1>10. Up!There' BY DEF Up!There
<1>11. Up!Given' BY DEF Up!Given
<1>12. Up!Current' BY DEF Up!Current
<1>13. Up!Owned' BY DEF Up!Owned
<1> QED BY <1>1, <1>2, <1>3, <1>4, <1>5, <1>6, <1>7, <1>8, <1>9, <1>10, <1>11, <1>12, <1>13

LEMMA UpDropIntentKeeps == ASSUME Up!BootAssumption, Up!IInv, Up!DropIntent PROVE Up!IInv'
<1> USE DEF Up!DropIntent
<1>1. Up!ScriptTyped' OBVIOUS
<1>2. Up!DiskTyped' OBVIOUS
<1>3. Up!BooksTyped' OBVIOUS
<1>4. Up!Steps' BY DEF Up!Steps
<1>5. Up!Attempt' BY DEF Up!Attempt
<1>6. Up!Live' BY DEF Up!Live
<1>7. Up!LedgerThere' BY DEF Up!LedgerThere
<1>8. Up!Made' BY DEF Up!Made
<1>9. Up!Buried' BY DEF Up!Buried
<1>10. Up!There' BY DEF Up!There
<1>11. Up!Given' BY DEF Up!Given
<1>12. Up!Current' BY DEF Up!Current
<1>13. Up!Owned' BY DEF Up!Owned
<1> QED BY <1>1, <1>2, <1>3, <1>4, <1>5, <1>6, <1>7, <1>8, <1>9, <1>10, <1>11, <1>12, <1>13

(* Clearing what an earlier attempt left, and retiring a clone. *)
LEMMA UpReconcileKeeps == ASSUME Up!BootAssumption, Up!IInv, Up!Reconcile PROVE Up!IInv'
<1> USE DEF Up!Reconcile, Up!Resume, Up!Refuses
<1>1. Up!ScriptTyped' BY DEF Up!Steps
<1>2. Up!DiskTyped' OBVIOUS
<1>3. Up!BooksTyped' OBVIOUS
<1>4. Up!Steps' BY DEF Up!Steps
<1>5. Up!Attempt' BY DEF Up!Attempt, Up!Steps
<1>6. Up!Live' BY DEF Up!Live, Up!Steps
<1>7. Up!LedgerThere' BY DEF Up!LedgerThere
<1>8. Up!Made' BY DEF Up!Made
<1>9. Up!Buried' BY DEF Up!Buried
<1>10. Up!There' BY DEF Up!There
<1>11. Up!Given' BY DEF Up!Given, Up!Steps
<1>12. Up!Current' BY DEF Up!Current, Up!Steps
<1>13. Up!Owned' BY DEF Up!Owned
<1> QED BY <1>1, <1>2, <1>3, <1>4, <1>5, <1>6, <1>7, <1>8, <1>9, <1>10, <1>11, <1>12, <1>13

LEMMA UpAdoptKeeps == ASSUME Up!BootAssumption, Up!IInv, Up!Adopt PROVE Up!IInv'
<1> USE DEF Up!Adopt, Up!HaveDirectory
<1>1. Up!ScriptTyped' OBVIOUS
<1>2. Up!DiskTyped' BY DEF Up!Steps
<1>3. Up!BooksTyped' OBVIOUS
<1>4. Up!Steps' BY DEF Up!Steps
<1>5. Up!Attempt' BY DEF Up!Attempt
<1>6. Up!Live' BY DEF Up!Live, Up!Steps
<1>7. Up!LedgerThere' BY DEF Up!LedgerThere
<1>8. Up!Made' BY DEF Up!Made, Up!Current
<1>9. Up!Buried' BY DEF Up!Buried, Up!Current
<1>10. Up!There' BY DEF Up!There
<1>11. Up!Given' BY DEF Up!Given
<1>12. Up!Current' BY DEF Up!Current
<1>13. Up!Owned' BY DEF Up!Owned, Up!Current
<1> QED BY <1>1, <1>2, <1>3, <1>4, <1>5, <1>6, <1>7, <1>8, <1>9, <1>10, <1>11, <1>12, <1>13

LEMMA UpStageKeeps == ASSUME Up!BootAssumption, Up!IInv, Up!Stage PROVE Up!IInv'
<1> USE DEF Up!Stage
<1>1. Up!ScriptTyped' OBVIOUS
<1>2. Up!DiskTyped' BY DEF Up!Steps
<1>3. Up!BooksTyped' OBVIOUS
<1>4. Up!Steps' BY DEF Up!Steps
<1>5. Up!Attempt' BY DEF Up!Attempt
<1>6. Up!Live' BY DEF Up!Live
<1>7. Up!LedgerThere' BY DEF Up!LedgerThere
<1>8. Up!Made' BY DEF Up!Made, Up!Steps, Up!Current
<1>9. Up!Buried' BY DEF Up!Buried
<1>10. Up!There' BY DEF Up!There
<1>11. Up!Given' BY DEF Up!Given
<1>12. Up!Current' BY DEF Up!Current, Up!Steps
<1>13. Up!Owned' BY DEF Up!Owned
<1> QED BY <1>1, <1>2, <1>3, <1>4, <1>5, <1>6, <1>7, <1>8, <1>9, <1>10, <1>11, <1>12, <1>13

LEMMA UpMoveKeeps == ASSUME Up!BootAssumption, Up!IInv, Up!Move PROVE Up!IInv'
<1> USE DEF Up!Move
<1>1. Up!ScriptTyped' OBVIOUS
<1>2. Up!DiskTyped' BY DEF Up!Steps
<1>3. Up!BooksTyped' OBVIOUS
<1>4. Up!Steps' BY DEF Up!Steps
<1>5. Up!Attempt' BY DEF Up!Attempt
<1>6. Up!Live' BY DEF Up!Live, Up!Steps
<1>7. Up!LedgerThere' BY DEF Up!LedgerThere
<1>8. Up!Made' BY DEF Up!Made, Up!Current
<1>9. Up!Buried' BY DEF Up!Buried
<1>10. Up!There' BY DEF Up!There, Up!Current
<1>11. Up!Given' BY DEF Up!Given
<1>12. Up!Current' BY DEF Up!Current, Up!Steps
<1>13. Up!Owned' BY DEF Up!Owned, Up!Current
<1> QED BY <1>1, <1>2, <1>3, <1>4, <1>5, <1>6, <1>7, <1>8, <1>9, <1>10, <1>11, <1>12, <1>13

LEMMA UpVerifyKeeps == ASSUME Up!BootAssumption, Up!IInv, Up!Verify PROVE Up!IInv'
<1> USE DEF Up!Verify
<1>1. Up!ScriptTyped' BY UpRetireTypes
<1>2. Up!DiskTyped' OBVIOUS
<1>3. Up!BooksTyped' OBVIOUS
<1>4. Up!Steps' BY DEF Up!Steps, Up!Current
<1>5. Up!Attempt' BY DEF Up!Attempt, Up!Steps
<1>6. Up!Live' BY DEF Up!Live
<1>7. Up!LedgerThere' BY DEF Up!LedgerThere
<1>8. Up!Made' BY DEF Up!Made
<1>9. Up!Buried' BY DEF Up!Buried
<1>10. Up!There' BY DEF Up!There
<1>11. Up!Given' BY DEF Up!Given, Up!Current
<1>12. Up!Current' BY DEF Up!Current
<1>13. Up!Owned' BY DEF Up!Owned
<1> QED BY <1>1, <1>2, <1>3, <1>4, <1>5, <1>6, <1>7, <1>8, <1>9, <1>10, <1>11, <1>12, <1>13

LEMMA UpBuryKeeps == ASSUME Up!BootAssumption, Up!IInv, Up!Bury PROVE Up!IInv'
<1> USE DEF Up!Bury
<1>1. Up!ScriptTyped' BY UpRetireTypes
<1>2. Up!DiskTyped' BY DEF Up!Steps
<1>3. Up!BooksTyped' OBVIOUS
<1>4. Up!Steps' BY DEF Up!Steps
<1>5. Up!Attempt' BY DEF Up!Attempt, Up!Steps
<1>6. Up!Live' BY DEF Up!Live
<1>7. Up!LedgerThere' BY DEF Up!LedgerThere
<1>8. Up!Made' BY DEF Up!Made, Up!Current
<1>9. Up!Buried' BY DEF Up!Buried, Up!Current
<1>10. Up!There' BY DEF Up!There
<1>11. Up!Given' BY DEF Up!Given, Up!Current
<1>12. Up!Current' BY DEF Up!Current
<1>13. Up!Owned' BY DEF Up!Owned
<1> QED BY <1>1, <1>2, <1>3, <1>4, <1>5, <1>6, <1>7, <1>8, <1>9, <1>10, <1>11, <1>12, <1>13

LEMMA UpRemoveKeeps == ASSUME Up!BootAssumption, Up!IInv, Up!Remove PROVE Up!IInv'
<1> USE DEF Up!Remove
<1>1. Up!ScriptTyped' BY UpRetireTypes
<1>2. Up!DiskTyped' OBVIOUS
<1>3. Up!BooksTyped' OBVIOUS
<1>4. Up!Steps' BY DEF Up!Steps
<1>5. Up!Attempt' BY DEF Up!Attempt, Up!Steps
<1>6. Up!Live' BY DEF Up!Live, Up!Steps
<1>7. Up!LedgerThere' BY DEF Up!LedgerThere
<1>8. Up!Made' BY DEF Up!Made, Up!Current
<1>9. Up!Buried' BY DEF Up!Buried
<1>10. Up!There' BY DEF Up!There
<1>11. Up!Given' BY DEF Up!Given, Up!Current, Up!Buried
<1>12. Up!Current' BY DEF Up!Current, Up!Steps
<1>13. Up!Owned' BY DEF Up!Owned
<1> QED BY <1>1, <1>2, <1>3, <1>4, <1>5, <1>6, <1>7, <1>8, <1>9, <1>10, <1>11, <1>12, <1>13

LEMMA UpRemoveLastKeeps == ASSUME Up!BootAssumption, Up!IInv, Up!RemoveLast PROVE Up!IInv'
<1> USE DEF Up!RemoveLast
<1>1. Up!ScriptTyped' OBVIOUS
<1>2. Up!DiskTyped' BY DEF Up!Steps
<1>3. Up!BooksTyped' OBVIOUS
<1>4. Up!Steps' BY DEF Up!Steps
<1>5. Up!Attempt' BY DEF Up!Attempt
<1>6. Up!Live' BY DEF Up!Live, Up!Steps
<1>7. Up!LedgerThere' BY DEF Up!LedgerThere
<1>8. Up!Made' BY DEF Up!Made, Up!Current
<1>9. Up!Buried' BY DEF Up!Buried
<1>10. Up!There' BY DEF Up!There
<1>11. Up!Given' BY DEF Up!Given
<1>12. Up!Current' BY DEF Up!Current
<1>13. Up!Owned' BY DEF Up!Owned
<1> QED BY <1>1, <1>2, <1>3, <1>4, <1>5, <1>6, <1>7, <1>8, <1>9, <1>10, <1>11, <1>12, <1>13

LEMMA UpExhumeKeeps == ASSUME Up!BootAssumption, Up!IInv, Up!Exhume PROVE Up!IInv'
<1> USE DEF Up!Exhume
<1>1. Up!ScriptTyped' BY UpRetireTypes
<1>2. Up!DiskTyped' OBVIOUS
<1>3. Up!BooksTyped' OBVIOUS
<1>4. Up!Steps' BY DEF Up!Steps
<1>5. Up!Attempt' BY DEF Up!Attempt, Up!Steps
<1>6. Up!Live' BY DEF Up!Live
<1>7. Up!LedgerThere' BY DEF Up!LedgerThere
<1>8. Up!Made' BY DEF Up!Made
<1>9. Up!Buried' BY DEF Up!Buried
<1>10. Up!There' BY DEF Up!There
<1>11. Up!Given' BY DEF Up!Given, Up!Current
<1>12. Up!Current' BY DEF Up!Current
<1>13. Up!Owned' BY DEF Up!Owned
<1> QED BY <1>1, <1>2, <1>3, <1>4, <1>5, <1>6, <1>7, <1>8, <1>9, <1>10, <1>11, <1>12, <1>13

LEMMA UpUnstageKeeps == ASSUME Up!BootAssumption, Up!IInv, Up!Unstage PROVE Up!IInv'
<1> USE DEF Up!Unstage
<1>1. Up!ScriptTyped' OBVIOUS
<1>2. Up!DiskTyped' BY DEF Up!Steps
<1>3. Up!BooksTyped' OBVIOUS
<1>4. Up!Steps' BY DEF Up!Steps
<1>5. Up!Attempt' BY DEF Up!Attempt
<1>6. Up!Live' BY DEF Up!Live
<1>7. Up!LedgerThere' BY DEF Up!LedgerThere
<1>8. Up!Made' BY DEF Up!Made
<1>9. Up!Buried' BY DEF Up!Buried, Up!Current
<1>10. Up!There' BY DEF Up!There
<1>11. Up!Given' BY DEF Up!Given
<1>12. Up!Current' BY DEF Up!Current, Up!Steps
<1>13. Up!Owned' BY DEF Up!Owned, Up!Current
<1> QED BY <1>1, <1>2, <1>3, <1>4, <1>5, <1>6, <1>7, <1>8, <1>9, <1>10, <1>11, <1>12, <1>13

LEMMA UpUnbindKeeps == ASSUME Up!BootAssumption, Up!IInv, Up!Unbind PROVE Up!IInv'
<1> USE DEF Up!Unbind
<1>1. Up!ScriptTyped' BY UpRetireTypes
<1>2. Up!DiskTyped' OBVIOUS
<1>3. Up!BooksTyped' OBVIOUS
<1>4. Up!Steps' BY DEF Up!Steps
<1>5. Up!Attempt' BY DEF Up!Attempt, Up!Steps
<1>6. Up!Live' BY DEF Up!Live
<1>7. Up!LedgerThere' BY DEF Up!LedgerThere
<1>8. Up!Made' BY DEF Up!Made
<1>9. Up!Buried' BY DEF Up!Buried
<1>10. Up!There' BY DEF Up!There
<1>11. Up!Given' BY DEF Up!Given
<1>12. Up!Current' BY DEF Up!Current
<1>13. Up!Owned' BY DEF Up!Owned
<1> QED BY <1>1, <1>2, <1>3, <1>4, <1>5, <1>6, <1>7, <1>8, <1>9, <1>10, <1>11, <1>12, <1>13

LEMMA UpUnplanKeeps == ASSUME Up!BootAssumption, Up!IInv, Up!Unplan PROVE Up!IInv'
<1> USE DEF Up!Unplan
<1>1. Up!ScriptTyped' BY DEF Up!Steps
<1>2. Up!DiskTyped' OBVIOUS
<1>3. Up!BooksTyped' OBVIOUS
<1>4. Up!Steps' BY DEF Up!Steps
<1>5. Up!Attempt' BY DEF Up!Attempt, Up!Steps
<1>6. Up!Live' BY DEF Up!Live
<1>7. Up!LedgerThere' BY DEF Up!LedgerThere, Up!Steps
<1>8. Up!Made' BY DEF Up!Made, Up!Steps, Up!Attempt, Up!Current
<1>9. Up!Buried' BY DEF Up!Buried
<1>10. Up!There' BY DEF Up!There
<1>11. Up!Given' BY DEF Up!Given, Up!Steps, Up!Current
<1>12. Up!Current' BY DEF Up!Current, Up!Steps
<1>13. Up!Owned' BY DEF Up!Owned, Up!Steps, Up!Attempt, Up!Current
<1> QED BY <1>1, <1>2, <1>3, <1>4, <1>5, <1>6, <1>7, <1>8, <1>9, <1>10, <1>11, <1>12, <1>13

(* A new clone. *)
LEMMA UpNextCloneKeeps == ASSUME Up!BootAssumption, Up!IInv, Up!NextClone PROVE Up!IInv'
<1> USE DEF Up!NextClone
<1>1. Up!ScriptTyped' OBVIOUS
<1>2. Up!DiskTyped' OBVIOUS
<1>3. Up!BooksTyped' OBVIOUS
<1>4. Up!Steps' BY DEF Up!Steps
<1>5. Up!Attempt' BY DEF Up!Attempt
<1>6. Up!Live' BY DEF Up!Live, Up!Steps
<1>7. Up!LedgerThere' BY DEF Up!LedgerThere
<1>8. Up!Made' BY DEF Up!Made
<1>9. Up!Buried' BY DEF Up!Buried
<1>10. Up!There' BY DEF Up!There
<1>11. Up!Given' BY DEF Up!Given
<1>12. Up!Current' BY DEF Up!Current
<1>13. Up!Owned' BY DEF Up!Owned
<1> QED BY <1>1, <1>2, <1>3, <1>4, <1>5, <1>6, <1>7, <1>8, <1>9, <1>10, <1>11, <1>12, <1>13

LEMMA UpPlanCloneKeeps == ASSUME Up!BootAssumption, Up!IInv, Up!PlanClone PROVE Up!IInv'
<1> USE DEF Up!PlanClone
<1>1. Up!ScriptTyped' OBVIOUS
<1>2. Up!DiskTyped' BY DEF Up!Steps
<1>3. Up!BooksTyped' OBVIOUS
<1>4. Up!Steps' BY DEF Up!Steps
<1>5. Up!Attempt' BY DEF Up!Attempt
<1>6. Up!Live' BY DEF Up!Live
<1>7. Up!LedgerThere' BY DEF Up!LedgerThere
<1>8. Up!Made' BY DEF Up!Made
<1>9. Up!Buried' BY DEF Up!Buried
<1>10. Up!There' BY DEF Up!There
<1>11. Up!Given' BY DEF Up!Given
<1>12. Up!Current' BY DEF Up!Current
<1>13. Up!Owned' BY DEF Up!Owned
<1> QED BY <1>1, <1>2, <1>3, <1>4, <1>5, <1>6, <1>7, <1>8, <1>9, <1>10, <1>11, <1>12, <1>13

LEMMA UpMakeDirectoryKeeps == ASSUME Up!BootAssumption, Up!IInv, Up!MakeDirectory PROVE Up!IInv'
<1> USE DEF Up!MakeDirectory, Up!HaveDirectory
<1>1. Up!ScriptTyped' OBVIOUS
<1>2. Up!DiskTyped' BY DEF Up!Steps
<1>3. Up!BooksTyped' OBVIOUS
<1>4. Up!Steps' BY DEF Up!Steps
<1>5. Up!Attempt' BY DEF Up!Attempt
<1>6. Up!Live' BY DEF Up!Live, Up!Steps
<1>7. Up!LedgerThere' BY DEF Up!LedgerThere
<1>8. Up!Made' BY DEF Up!Made, Up!Current
<1>9. Up!Buried' BY DEF Up!Buried, Up!Current
<1>10. Up!There' BY DEF Up!There
<1>11. Up!Given' BY DEF Up!Given
<1>12. Up!Current' BY DEF Up!Current
<1>13. Up!Owned' BY DEF Up!Owned, Up!Current
<1> QED BY <1>1, <1>2, <1>3, <1>4, <1>5, <1>6, <1>7, <1>8, <1>9, <1>10, <1>11, <1>12, <1>13

LEMMA UpBindCloneKeeps == ASSUME Up!BootAssumption, Up!IInv, Up!BindClone PROVE Up!IInv'
<1> USE DEF Up!BindClone
<1>1. Up!ScriptTyped' OBVIOUS
<1>2. Up!DiskTyped' BY DEF Up!Steps
<1>3. Up!BooksTyped' OBVIOUS
<1>4. Up!Steps' BY DEF Up!Steps
<1>5. Up!Attempt' BY DEF Up!Attempt
<1>6. Up!Live' BY DEF Up!Live
<1>7. Up!LedgerThere' BY DEF Up!LedgerThere
<1>8. Up!Made' BY DEF Up!Made
<1>9. Up!Buried' BY DEF Up!Buried
<1>10. Up!There' BY DEF Up!There
<1>11. Up!Given' BY DEF Up!Given
<1>12. Up!Current' BY DEF Up!Current
<1>13. Up!Owned' BY DEF Up!Owned
<1> QED BY <1>1, <1>2, <1>3, <1>4, <1>5, <1>6, <1>7, <1>8, <1>9, <1>10, <1>11, <1>12, <1>13

LEMMA UpCloneKeeps == ASSUME Up!BootAssumption, Up!IInv, Up!Clone PROVE Up!IInv'
<1> USE DEF Up!Clone
<1>1. Up!ScriptTyped' OBVIOUS
<1>2. Up!DiskTyped' BY DEF Up!Steps
<1>3. Up!BooksTyped' OBVIOUS
<1>4. Up!Steps' BY DEF Up!Steps
<1>5. Up!Attempt' BY DEF Up!Attempt
<1>6. Up!Live' BY DEF Up!Live, Up!Steps
<1>7. Up!LedgerThere' BY DEF Up!LedgerThere
<1>8. Up!Made' BY DEF Up!Made, Up!Current
<1>9. Up!Buried' BY DEF Up!Buried
<1>10. Up!There' BY DEF Up!There, Up!Current
<1>11. Up!Given' BY DEF Up!Given
<1>12. Up!Current' BY DEF Up!Current
<1>13. Up!Owned' BY DEF Up!Owned
<1> QED BY <1>1, <1>2, <1>3, <1>4, <1>5, <1>6, <1>7, <1>8, <1>9, <1>10, <1>11, <1>12, <1>13

LEMMA UpRegisterKeeps == ASSUME Up!BootAssumption, Up!IInv, Up!Register PROVE Up!IInv'
<1> USE DEF Up!Register
<1>1. Up!ScriptTyped' BY DEF Up!Steps
<1>2. Up!DiskTyped' BY DEF Up!Steps
<1>3. Up!BooksTyped' OBVIOUS
<1>4. Up!Steps' BY DEF Up!Steps
<1>5. Up!Attempt' BY DEF Up!Attempt
<1>6. Up!Live' BY DEF Up!Live, Up!Steps
<1>7. Up!LedgerThere' BY DEF Up!LedgerThere
<1>8. Up!Made' BY DEF Up!Made, Up!Current
<1>9. Up!Buried' BY DEF Up!Buried
<1>10. Up!There' BY DEF Up!There, Up!Current
<1>11. Up!Given' BY DEF Up!Given
<1>12. Up!Current' BY DEF Up!Current
<1>13. Up!Owned' BY DEF Up!Owned
<1> QED BY <1>1, <1>2, <1>3, <1>4, <1>5, <1>6, <1>7, <1>8, <1>9, <1>10, <1>11, <1>12, <1>13

(* Workspace, manifest and the transfer of the clones. *)
LEMMA UpOpenKeeps == ASSUME Up!BootAssumption, Up!IInv, Up!Open PROVE Up!IInv'
<1> USE DEF Up!Open
<1>1. Up!ScriptTyped' OBVIOUS
<1>2. Up!DiskTyped' OBVIOUS
<1>3. Up!BooksTyped' OBVIOUS
<1>4. Up!Steps' BY DEF Up!Steps
<1>5. Up!Attempt' BY DEF Up!Attempt, Up!Steps
<1>6. Up!Live' BY DEF Up!Live, Up!Attempt, Up!Made, Up!LedgerThere
<1>7. Up!LedgerThere' BY DEF Up!LedgerThere
<1>8. Up!Made' BY DEF Up!Made
<1>9. Up!Buried' BY DEF Up!Buried
<1>10. Up!There' BY DEF Up!There
<1>11. Up!Given' BY DEF Up!Given
<1>12. Up!Current' BY DEF Up!Current
<1>13. Up!Owned' BY DEF Up!Owned
<1> QED BY <1>1, <1>2, <1>3, <1>4, <1>5, <1>6, <1>7, <1>8, <1>9, <1>10, <1>11, <1>12, <1>13

LEMMA UpHandLedgerKeeps == ASSUME Up!BootAssumption, Up!IInv, Up!HandLedger PROVE Up!IInv'
<1> USE DEF Up!HandLedger
<1>1. Up!ScriptTyped' OBVIOUS
<1>2. Up!DiskTyped' OBVIOUS
<1>3. Up!BooksTyped' OBVIOUS
<1>4. Up!Steps' BY DEF Up!Steps
<1>5. Up!Attempt' BY DEF Up!Attempt
<1>6. Up!Live' BY DEF Up!Live
<1>7. Up!LedgerThere' BY DEF Up!LedgerThere
<1>8. Up!Made' BY DEF Up!Made
<1>9. Up!Buried' BY DEF Up!Buried
<1>10. Up!There' BY DEF Up!There
<1>11. Up!Given' BY DEF Up!Given
<1>12. Up!Current' BY DEF Up!Current
<1>13. Up!Owned' BY DEF Up!Owned
<1> QED BY <1>1, <1>2, <1>3, <1>4, <1>5, <1>6, <1>7, <1>8, <1>9, <1>10, <1>11, <1>12, <1>13

LEMMA UpPublishKeeps == ASSUME Up!BootAssumption, Up!IInv, Up!Publish PROVE Up!IInv'
<1> USE DEF Up!Publish
<1>1. Up!ScriptTyped' OBVIOUS
<1>2. Up!DiskTyped' OBVIOUS
<1>3. Up!BooksTyped' OBVIOUS
<1>4. Up!Steps' BY DEF Up!Steps
<1>5. Up!Attempt' BY DEF Up!Attempt
<1>6. Up!Live' BY DEF Up!Live
<1>7. Up!LedgerThere' BY DEF Up!LedgerThere
<1>8. Up!Made' BY DEF Up!Made
<1>9. Up!Buried' BY DEF Up!Buried
<1>10. Up!There' BY DEF Up!There
<1>11. Up!Given' BY DEF Up!Given
<1>12. Up!Current' BY DEF Up!Current
<1>13. Up!Owned' BY DEF Up!Owned
<1> QED BY <1>1, <1>2, <1>3, <1>4, <1>5, <1>6, <1>7, <1>8, <1>9, <1>10, <1>11, <1>12, <1>13

LEMMA UpInitStateKeeps == ASSUME Up!BootAssumption, Up!IInv, Up!InitState PROVE Up!IInv'
<1> USE DEF Up!InitState
<1>1. Up!ScriptTyped' OBVIOUS
<1>2. Up!DiskTyped' OBVIOUS
<1>3. Up!BooksTyped' OBVIOUS
<1>4. Up!Steps' BY DEF Up!Steps
<1>5. Up!Attempt' BY DEF Up!Attempt
<1>6. Up!Live' BY DEF Up!Live
<1>7. Up!LedgerThere' BY DEF Up!LedgerThere
<1>8. Up!Made' BY DEF Up!Made
<1>9. Up!Buried' BY DEF Up!Buried
<1>10. Up!There' BY DEF Up!There
<1>11. Up!Given' BY DEF Up!Given
<1>12. Up!Current' BY DEF Up!Current
<1>13. Up!Owned' BY DEF Up!Owned
<1> QED BY <1>1, <1>2, <1>3, <1>4, <1>5, <1>6, <1>7, <1>8, <1>9, <1>10, <1>11, <1>12, <1>13

LEMMA UpTransferKeeps == ASSUME Up!BootAssumption, Up!IInv, Up!Transfer PROVE Up!IInv'
<1> USE DEF Up!Transfer
<1>1. Up!ScriptTyped' OBVIOUS
<1>2. Up!DiskTyped' OBVIOUS
<1>3. Up!BooksTyped' OBVIOUS
<1>4. Up!Steps' BY DEF Up!Steps
<1>5. Up!Attempt' BY DEF Up!Attempt
<1>6. Up!Live' BY DEF Up!Live
<1>7. Up!LedgerThere' BY DEF Up!LedgerThere
<1>8. Up!Made' BY DEF Up!Made
<1>9. Up!Buried' BY DEF Up!Buried
<1>10. Up!There' BY DEF Up!There
<1>11. Up!Given' BY DEF Up!Given
<1>12. Up!Current' BY DEF Up!Current, Up!Attempt, Up!Made
<1>13. Up!Owned' BY DEF Up!Owned
<1> QED BY <1>1, <1>2, <1>3, <1>4, <1>5, <1>6, <1>7, <1>8, <1>9, <1>10, <1>11, <1>12, <1>13

LEMMA UpCompleteKeeps == ASSUME Up!BootAssumption, Up!IInv, Up!Complete PROVE Up!IInv'
<1> USE DEF Up!Complete
<1>1. Up!ScriptTyped' OBVIOUS
<1>2. Up!DiskTyped' OBVIOUS
<1>3. Up!BooksTyped' OBVIOUS
<1>4. Up!Steps' BY DEF Up!Steps
<1>5. Up!Attempt' BY DEF Up!Attempt
<1>6. Up!Live' BY DEF Up!Live
<1>7. Up!LedgerThere' BY DEF Up!LedgerThere
<1>8. Up!Made' BY DEF Up!Made
<1>9. Up!Buried' BY DEF Up!Buried
<1>10. Up!There' BY DEF Up!There
<1>11. Up!Given' BY DEF Up!Given
<1>12. Up!Current' BY DEF Up!Current
<1>13. Up!Owned' BY DEF Up!Owned
<1> QED BY <1>1, <1>2, <1>3, <1>4, <1>5, <1>6, <1>7, <1>8, <1>9, <1>10, <1>11, <1>12, <1>13

(* The rollback. *)
LEMMA UpCloseKeeps == ASSUME Up!BootAssumption, Up!IInv, Up!Close PROVE Up!IInv'
<1> USE DEF Up!Close
<1>1. Up!ScriptTyped' BY UpCloseKeepsTypes
<1>2. Up!DiskTyped' OBVIOUS
<1>3. Up!BooksTyped' OBVIOUS
<1>4. Up!Steps' BY DEF Up!Steps
<1>5. Up!Attempt' BY UpCloseParts
<1>6. Up!Live' BY UpCloseKeepsTypes
<1>7. Up!LedgerThere' BY DEF Up!LedgerThere
<1>8. Up!Made' BY UpCloseKeepsTypes
<1>9. Up!Buried' BY DEF Up!Buried
<1>10. Up!There' BY DEF Up!There
<1>11. Up!Given' BY UpCloseParts
<1>12. Up!Current' BY DEF Up!Current
<1>13. Up!Owned' BY DEF Up!Owned
<1> QED BY <1>1, <1>2, <1>3, <1>4, <1>5, <1>6, <1>7, <1>8, <1>9, <1>10, <1>11, <1>12, <1>13

LEMMA UpUndoKeeps == ASSUME Up!BootAssumption, Up!IInv, Up!Undo PROVE Up!IInv'
<1> USE DEF Up!Undo
<1>1. Up!ScriptTyped' BY UpUndoParts
<1>2. Up!DiskTyped' BY DEF Up!Steps
<1>3. Up!BooksTyped' OBVIOUS
<1>4. Up!Steps' BY UpUndoSteps
<1>5. Up!Attempt' BY UpUndoParts
<1>6. Up!Live' BY DEF Up!Live, Up!Steps, Up!Attempt, Up!LedgerThere, Up!Made, Up!Buried, Up!There,
    Up!Given, Up!Current, Up!Owned
<1>7. Up!LedgerThere' BY DEF Up!LedgerThere
<1>8. Up!Made' BY UpUndoParts
<1>9. Up!Buried' BY DEF Up!Buried
<1>10. Up!There' BY DEF Up!There
<1>11. Up!Given' BY UpUndoParts
<1>12. Up!Current' BY UpUndoParts
<1>13. Up!Owned' BY DEF Up!Owned
<1> QED BY <1>1, <1>2, <1>3, <1>4, <1>5, <1>6, <1>7, <1>8, <1>9, <1>10, <1>11, <1>12, <1>13

LEMMA UpCleanLedgerKeeps == ASSUME Up!BootAssumption, Up!IInv, Up!CleanLedger PROVE Up!IInv'
<1> USE DEF Up!CleanLedger
<1>1. Up!ScriptTyped' BY UpCleanLedgerParts
<1>2. Up!DiskTyped' OBVIOUS
<1>3. Up!BooksTyped' OBVIOUS
<1>4. Up!Steps' BY DEF Up!Steps
<1>5. Up!Attempt' BY UpCleanLedgerParts
<1>6. Up!Live' BY DEF Up!Live, Up!Steps
<1>7. Up!LedgerThere' BY DEF Up!LedgerThere
<1>8. Up!Made' BY UpCleanLedgerKeepsMade
<1>9. Up!Buried' BY DEF Up!Buried
<1>10. Up!There' BY DEF Up!There
<1>11. Up!Given' BY DEF Up!Given
<1>12. Up!Current' BY DEF Up!Current
<1>13. Up!Owned' BY DEF Up!Owned
<1> QED BY <1>1, <1>2, <1>3, <1>4, <1>5, <1>6, <1>7, <1>8, <1>9, <1>10, <1>11, <1>12, <1>13

LEMMA UpRemoveLedgerKeeps == ASSUME Up!BootAssumption, Up!IInv, Up!RemoveLedger PROVE Up!IInv'
<1> USE DEF Up!RemoveLedger
<1>1. Up!ScriptTyped' OBVIOUS
<1>2. Up!DiskTyped' OBVIOUS
<1>3. Up!BooksTyped' OBVIOUS
<1>4. Up!Steps' BY DEF Up!Steps
<1>5. Up!Attempt' BY DEF Up!Attempt
<1>6. Up!Live' BY DEF Up!Live, Up!Steps
<1>7. Up!LedgerThere' BY DEF Up!LedgerThere, Up!Steps
<1>8. Up!Made' BY DEF Up!Made
<1>9. Up!Buried' BY DEF Up!Buried
<1>10. Up!There' BY DEF Up!There
<1>11. Up!Given' BY DEF Up!Given
<1>12. Up!Current' BY DEF Up!Current
<1>13. Up!Owned' BY DEF Up!Owned
<1> QED BY <1>1, <1>2, <1>3, <1>4, <1>5, <1>6, <1>7, <1>8, <1>9, <1>10, <1>11, <1>12, <1>13

LEMMA UpForgetIntentKeeps == ASSUME Up!BootAssumption, Up!IInv, Up!ForgetIntent PROVE Up!IInv'
<1> USE DEF Up!ForgetIntent
<1>1. Up!ScriptTyped' OBVIOUS
<1>2. Up!DiskTyped' OBVIOUS
<1>3. Up!BooksTyped' OBVIOUS
<1>4. Up!Steps' BY DEF Up!Steps
<1>5. Up!Attempt' BY DEF Up!Attempt
<1>6. Up!Live' BY DEF Up!Live, Up!Steps
<1>7. Up!LedgerThere' BY DEF Up!LedgerThere
<1>8. Up!Made' BY DEF Up!Made
<1>9. Up!Buried' BY DEF Up!Buried
<1>10. Up!There' BY DEF Up!There
<1>11. Up!Given' BY DEF Up!Given
<1>12. Up!Current' BY DEF Up!Current
<1>13. Up!Owned' BY DEF Up!Owned
<1> QED BY <1>1, <1>2, <1>3, <1>4, <1>5, <1>6, <1>7, <1>8, <1>9, <1>10, <1>11, <1>12, <1>13

LEMMA UpUnpublishKeeps == ASSUME Up!BootAssumption, Up!IInv, Up!Unpublish PROVE Up!IInv'
<1> USE DEF Up!Unpublish
<1>1. Up!ScriptTyped' BY UpUnpublishTypes
<1>2. Up!DiskTyped' OBVIOUS
<1>3. Up!BooksTyped' OBVIOUS
<1>4. Up!Steps' BY DEF Up!Steps
<1>5. Up!Attempt' BY DEF Up!Attempt, Up!Steps
<1>6. Up!Live' BY DEF Up!Live, Up!Steps, Up!Attempt, Up!LedgerThere, Up!Made, Up!Buried, Up!There,
    Up!Given, Up!Current, Up!Owned
<1>7. Up!LedgerThere' BY DEF Up!LedgerThere
<1>8. Up!Made' BY DEF Up!Made, Up!Attempt
<1>9. Up!Buried' BY DEF Up!Buried
<1>10. Up!There' BY DEF Up!There
<1>11. Up!Given' BY DEF Up!Given
<1>12. Up!Current' BY DEF Up!Current
<1>13. Up!Owned' BY DEF Up!Owned, Up!Steps, Up!Attempt, Up!Given
<1> QED BY <1>1, <1>2, <1>3, <1>4, <1>5, <1>6, <1>7, <1>8, <1>9, <1>10, <1>11, <1>12, <1>13

LEMMA UpDropStateKeeps == ASSUME Up!BootAssumption, Up!IInv, Up!DropState PROVE Up!IInv'
<1> USE DEF Up!DropState
<1>1. Up!ScriptTyped' OBVIOUS
<1>2. Up!DiskTyped' OBVIOUS
<1>3. Up!BooksTyped' OBVIOUS
<1>4. Up!Steps' BY DEF Up!Steps
<1>5. Up!Attempt' BY DEF Up!Attempt
<1>6. Up!Live' BY DEF Up!Live
<1>7. Up!LedgerThere' BY DEF Up!LedgerThere
<1>8. Up!Made' BY DEF Up!Made
<1>9. Up!Buried' BY DEF Up!Buried
<1>10. Up!There' BY DEF Up!There
<1>11. Up!Given' BY DEF Up!Given
<1>12. Up!Current' BY DEF Up!Current
<1>13. Up!Owned' BY DEF Up!Owned
<1> QED BY <1>1, <1>2, <1>3, <1>4, <1>5, <1>6, <1>7, <1>8, <1>9, <1>10, <1>11, <1>12, <1>13

(* Failures and the world around. *)
LEMMA UpCloneFailsKeeps == ASSUME Up!BootAssumption, Up!IInv, Up!CloneFails PROVE Up!IInv'
<1> USE DEF Up!CloneFails
<1>1. Up!ScriptTyped' OBVIOUS
<1>2. Up!DiskTyped' OBVIOUS
<1>3. Up!BooksTyped' OBVIOUS
<1>4. Up!Steps' BY DEF Up!Steps
<1>5. Up!Attempt' BY DEF Up!Attempt
<1>6. Up!Live' BY DEF Up!Live, Up!Steps
<1>7. Up!LedgerThere' BY DEF Up!LedgerThere
<1>8. Up!Made' BY DEF Up!Made
<1>9. Up!Buried' BY DEF Up!Buried
<1>10. Up!There' BY DEF Up!There
<1>11. Up!Given' BY DEF Up!Given
<1>12. Up!Current' BY DEF Up!Current, Up!Steps
<1>13. Up!Owned' BY DEF Up!Owned
<1> QED BY <1>1, <1>2, <1>3, <1>4, <1>5, <1>6, <1>7, <1>8, <1>9, <1>10, <1>11, <1>12, <1>13

LEMMA UpFailKeeps == ASSUME Up!BootAssumption, Up!IInv, Up!Fail PROVE Up!IInv'
<1> USE DEF Up!Fail
<1>1. Up!ScriptTyped' OBVIOUS
<1>2. Up!DiskTyped' OBVIOUS
<1>3. Up!BooksTyped' OBVIOUS
<1>4. Up!Steps' BY DEF Up!Steps
<1>5. Up!Attempt' BY DEF Up!Attempt, Up!Steps
<1>6. Up!Live' BY DEF Up!Live
<1>7. Up!LedgerThere' BY DEF Up!LedgerThere
<1>8. Up!Made' BY DEF Up!Made
<1>9. Up!Buried' BY DEF Up!Buried
<1>10. Up!There' BY DEF Up!There
<1>11. Up!Given' BY DEF Up!Given
<1>12. Up!Current' BY DEF Up!Current
<1>13. Up!Owned' BY DEF Up!Owned
<1> QED BY <1>1, <1>2, <1>3, <1>4, <1>5, <1>6, <1>7, <1>8, <1>9, <1>10, <1>11, <1>12, <1>13

LEMMA UpUndoFailsKeeps == ASSUME Up!BootAssumption, Up!IInv, Up!UndoFails PROVE Up!IInv'
<1> USE DEF Up!UndoFails
<1>1. Up!ScriptTyped' OBVIOUS
<1>2. Up!DiskTyped' OBVIOUS
<1>3. Up!BooksTyped' OBVIOUS
<1>4. Up!Steps' BY DEF Up!Steps
<1>5. Up!Attempt' BY DEF Up!Attempt, Up!Steps
<1>6. Up!Live' BY DEF Up!Live, Up!Steps
<1>7. Up!LedgerThere' BY DEF Up!LedgerThere
<1>8. Up!Made' BY DEF Up!Made
<1>9. Up!Buried' BY DEF Up!Buried
<1>10. Up!There' BY DEF Up!There
<1>11. Up!Given' BY DEF Up!Given, Up!Current, Up!Buried
<1>12. Up!Current' BY DEF Up!Current
<1>13. Up!Owned' BY DEF Up!Owned
<1> QED BY <1>1, <1>2, <1>3, <1>4, <1>5, <1>6, <1>7, <1>8, <1>9, <1>10, <1>11, <1>12, <1>13

LEMMA UpKillKeeps == ASSUME Up!BootAssumption, Up!IInv, Up!Kill PROVE Up!IInv'
<1> USE DEF Up!Kill
<1>1. Up!ScriptTyped' OBVIOUS
<1>2. Up!DiskTyped' OBVIOUS
<1>3. Up!BooksTyped' OBVIOUS
<1>4. Up!Steps' BY DEF Up!Steps
<1>5. Up!Attempt' BY DEF Up!Attempt
<1>6. Up!Live' BY DEF Up!Live
<1>7. Up!LedgerThere' BY DEF Up!LedgerThere
<1>8. Up!Made' BY DEF Up!Made
<1>9. Up!Buried' BY DEF Up!Buried
<1>10. Up!There' BY DEF Up!There
<1>11. Up!Given' BY DEF Up!Given
<1>12. Up!Current' BY DEF Up!Current
<1>13. Up!Owned' BY DEF Up!Owned
<1> QED BY <1>1, <1>2, <1>3, <1>4, <1>5, <1>6, <1>7, <1>8, <1>9, <1>10, <1>11, <1>12, <1>13

LEMMA UpEditKeeps == ASSUME Up!BootAssumption, Up!IInv, NEW c \in Up!Clones, Up!Edit(c) PROVE Up!IInv'
<1> USE DEF Up!Edit
<1>1. Up!ScriptTyped' OBVIOUS
<1>2. Up!DiskTyped' OBVIOUS
<1>3. Up!BooksTyped' OBVIOUS
<1>4. Up!Steps' BY DEF Up!Steps
<1>5. Up!Attempt' BY DEF Up!Attempt
<1>6. Up!Live' BY DEF Up!Live
<1>7. Up!LedgerThere' BY DEF Up!LedgerThere
<1>8. Up!Made' BY DEF Up!Made
<1>9. Up!Buried' BY DEF Up!Buried, Up!Live
<1>10. Up!There' BY DEF Up!There
<1>11. Up!Given' BY DEF Up!Given
<1>12. Up!Current' BY DEF Up!Current, Up!Live
<1>13. Up!Owned' BY DEF Up!Owned
<1> QED BY <1>1, <1>2, <1>3, <1>4, <1>5, <1>6, <1>7, <1>8, <1>9, <1>10, <1>11, <1>12, <1>13

LEMMA UpSquatKeeps == ASSUME Up!BootAssumption, Up!IInv, NEW c \in Up!Clones, Up!Squat(c) PROVE Up!IInv'
<1> USE DEF Up!Squat
<1>1. Up!ScriptTyped' OBVIOUS
<1>2. Up!DiskTyped' OBVIOUS
<1>3. Up!BooksTyped' OBVIOUS
<1>4. Up!Steps' BY DEF Up!Steps
<1>5. Up!Attempt' BY DEF Up!Attempt
<1>6. Up!Live' BY DEF Up!Live
<1>7. Up!LedgerThere' BY DEF Up!LedgerThere
<1>8. Up!Made' BY DEF Up!Made
<1>9. Up!Buried' BY DEF Up!Buried
<1>10. Up!There' BY DEF Up!There
<1>11. Up!Given' BY DEF Up!Given
<1>12. Up!Current' BY DEF Up!Current
<1>13. Up!Owned' BY DEF Up!Owned
<1> QED BY <1>1, <1>2, <1>3, <1>4, <1>5, <1>6, <1>7, <1>8, <1>9, <1>10, <1>11, <1>12, <1>13

LEMMA UpUnsquatKeeps == ASSUME Up!BootAssumption, Up!IInv, NEW c \in Up!Clones, Up!Unsquat(c) PROVE Up!IInv'
<1> USE DEF Up!Unsquat
<1>1. Up!ScriptTyped' OBVIOUS
<1>2. Up!DiskTyped' OBVIOUS
<1>3. Up!BooksTyped' OBVIOUS
<1>4. Up!Steps' BY DEF Up!Steps
<1>5. Up!Attempt' BY DEF Up!Attempt
<1>6. Up!Live' BY DEF Up!Live
<1>7. Up!LedgerThere' BY DEF Up!LedgerThere
<1>8. Up!Made' BY DEF Up!Made
<1>9. Up!Buried' BY DEF Up!Buried
<1>10. Up!There' BY DEF Up!There
<1>11. Up!Given' BY DEF Up!Given
<1>12. Up!Current' BY DEF Up!Current
<1>13. Up!Owned' BY DEF Up!Owned
<1> QED BY <1>1, <1>2, <1>3, <1>4, <1>5, <1>6, <1>7, <1>8, <1>9, <1>10, <1>11, <1>12, <1>13

LEMMA UpUseKeeps == ASSUME Up!BootAssumption, Up!IInv, Up!Use PROVE Up!IInv'
<1> USE DEF Up!Use
<1>1. Up!ScriptTyped' OBVIOUS
<1>2. Up!DiskTyped' OBVIOUS
<1>3. Up!BooksTyped' OBVIOUS
<1>4. Up!Steps' BY DEF Up!Steps
<1>5. Up!Attempt' BY DEF Up!Attempt
<1>6. Up!Live' BY DEF Up!Live
<1>7. Up!LedgerThere' BY DEF Up!LedgerThere
<1>8. Up!Made' BY DEF Up!Made
<1>9. Up!Buried' BY DEF Up!Buried
<1>10. Up!There' BY DEF Up!There
<1>11. Up!Given' BY DEF Up!Given
<1>12. Up!Current' BY DEF Up!Current
<1>13. Up!Owned' BY DEF Up!Owned
<1> QED BY <1>1, <1>2, <1>3, <1>4, <1>5, <1>6, <1>7, <1>8, <1>9, <1>10, <1>11, <1>12, <1>13

LEMMA UpCloseWorkspaceKeeps == ASSUME Up!BootAssumption, Up!IInv, Up!CloseWorkspace PROVE Up!IInv'
<1> USE DEF Up!CloseWorkspace
<1>1. Up!ScriptTyped' OBVIOUS
<1>2. Up!DiskTyped' OBVIOUS
<1>3. Up!BooksTyped' OBVIOUS
<1>4. Up!Steps' BY DEF Up!Steps
<1>5. Up!Attempt' BY DEF Up!Attempt
<1>6. Up!Live' BY DEF Up!Live
<1>7. Up!LedgerThere' BY DEF Up!LedgerThere
<1>8. Up!Made' BY DEF Up!Made
<1>9. Up!Buried' BY DEF Up!Buried
<1>10. Up!There' BY DEF Up!There
<1>11. Up!Given' BY DEF Up!Given
<1>12. Up!Current' BY DEF Up!Current
<1>13. Up!Owned' BY DEF Up!Owned
<1> QED BY <1>1, <1>2, <1>3, <1>4, <1>5, <1>6, <1>7, <1>8, <1>9, <1>10, <1>11, <1>12, <1>13

LEMMA UpTearDownKeeps == ASSUME Up!BootAssumption, Up!IInv, Up!TearDown PROVE Up!IInv'
<1> USE DEF Up!TearDown
<1>1. Up!ScriptTyped' OBVIOUS
<1>2. Up!DiskTyped' OBVIOUS
<1>3. Up!BooksTyped' OBVIOUS
<1>4. Up!Steps' BY DEF Up!Steps
<1>5. Up!Attempt' BY DEF Up!Attempt
<1>6. Up!Live' BY DEF Up!Live
<1>7. Up!LedgerThere' BY DEF Up!LedgerThere, Up!Steps
<1>8. Up!Made' BY DEF Up!Made, Up!Attempt
<1>9. Up!Buried' BY DEF Up!Buried
<1>10. Up!There' BY DEF Up!There
<1>11. Up!Given' BY DEF Up!Given
<1>12. Up!Current' BY DEF Up!Current
<1>13. Up!Owned' BY DEF Up!Owned
<1> QED BY <1>1, <1>2, <1>3, <1>4, <1>5, <1>6, <1>7, <1>8, <1>9, <1>10, <1>11, <1>12, <1>13

LEMMA UpRemoveBranchKeeps == ASSUME Up!BootAssumption, Up!IInv, Up!RemoveBranch PROVE Up!IInv'
<1> USE DEF Up!RemoveBranch
<1>1. Up!ScriptTyped' OBVIOUS
<1>2. Up!DiskTyped' OBVIOUS
<1>3. Up!BooksTyped' OBVIOUS
<1>4. Up!Steps' BY DEF Up!Steps
<1>5. Up!Attempt' BY DEF Up!Attempt
<1>6. Up!Live' BY DEF Up!Live
<1>7. Up!LedgerThere' BY DEF Up!LedgerThere
<1>8. Up!Made' BY DEF Up!Made
<1>9. Up!Buried' BY DEF Up!Buried
<1>10. Up!There' BY DEF Up!There
<1>11. Up!Given' BY DEF Up!Given
<1>12. Up!Current' BY DEF Up!Current
<1>13. Up!Owned' BY DEF Up!Owned
<1> QED BY <1>1, <1>2, <1>3, <1>4, <1>5, <1>6, <1>7, <1>8, <1>9, <1>10, <1>11, <1>12, <1>13

(* Before the first attempt nothing is there. *)
LEMMA UpInitKeeps == ASSUME Up!BootAssumption, Up!Init PROVE Up!IInv
<1> USE DEF Up!Init
<1>1. Up!ScriptTyped OBVIOUS
<1>2. Up!DiskTyped OBVIOUS
<1>3. Up!BooksTyped OBVIOUS
<1>4. Up!Steps BY DEF Up!Steps
<1>5. Up!Attempt BY DEF Up!Attempt
<1>6. Up!Live BY DEF Up!Live
<1>7. Up!LedgerThere BY DEF Up!LedgerThere
<1>8. Up!Made BY DEF Up!Made
<1>9. Up!Buried BY DEF Up!Buried
<1>10. Up!There BY DEF Up!There
<1>11. Up!Given BY DEF Up!Given
<1>12. Up!Current BY DEF Up!Current
<1>13. Up!Owned BY DEF Up!Owned
<1> QED BY <1>1, <1>2, <1>3, <1>4, <1>5, <1>6, <1>7, <1>8, <1>9, <1>10, <1>11, <1>12, <1>13

(* A step that changes nothing of it. *)
LEMMA UpStutters == ASSUME Up!IInv, UNCHANGED Up!vars PROVE Up!IInv'
<1>1. Up!ScriptTyped' OBVIOUS
<1>2. Up!DiskTyped' OBVIOUS
<1>3. Up!BooksTyped' OBVIOUS
<1>4. Up!Steps' BY DEF Up!Steps
<1>5. Up!Attempt' BY DEF Up!Attempt
<1>6. Up!Live' BY DEF Up!Live
<1>7. Up!LedgerThere' BY DEF Up!LedgerThere
<1>8. Up!Made' BY DEF Up!Made
<1>9. Up!Buried' BY DEF Up!Buried
<1>10. Up!There' BY DEF Up!There
<1>11. Up!Given' BY DEF Up!Given
<1>12. Up!Current' BY DEF Up!Current
<1>13. Up!Owned' BY DEF Up!Owned
<1> QED BY <1>1, <1>2, <1>3, <1>4, <1>5, <1>6, <1>7, <1>8, <1>9, <1>10, <1>11, <1>12, <1>13

HIDE DEF Up!vars, Up!disk, Up!journals, Up!books, Up!around, Up!script, Up!Clones, Up!BootSteps,
    Up!RetireSteps, Up!UndoSteps, Up!Creating, Up!AtClone, Up!Opened, Up!Undoing, Up!Tasks,
    Up!Places, Up!Contents, Up!StageIntents, Up!Ledgers, Up!Intents, Up!IInv, Up!TypeOK,
    Up!ScriptTyped, Up!DiskTyped, Up!BooksTyped, Up!Early, Up!Late, Up!UndoingNow, Up!Goto,
    Up!Turn, Up!Notes, Up!Refuse, Up!GiveUp, Up!Gone, Up!Head, Up!Kept, Up!Fresh

LEMMA UpLedgerKeeps == ASSUME Up!BootAssumption, Up!IInv, Up!Ledger PROVE Up!IInv'
BY UpPrepareLedgerKeeps, UpCreateLedgerKeeps, UpBindLedgerKeeps, UpDropLedgerKeeps,
    UpDropIntentKeeps DEF Up!Ledger

LEMMA UpRetireKeeps == ASSUME Up!BootAssumption, Up!IInv, Up!Retire PROVE Up!IInv'
BY UpReconcileKeeps, UpAdoptKeeps, UpStageKeeps, UpMoveKeeps, UpVerifyKeeps, UpBuryKeeps, UpRemoveKeeps,
    UpRemoveLastKeeps, UpExhumeKeeps, UpUnstageKeeps, UpUnbindKeeps, UpUnplanKeeps DEF Up!Retire

LEMMA UpCreateKeeps == ASSUME Up!BootAssumption, Up!IInv, Up!Create PROVE Up!IInv'
BY UpNextCloneKeeps, UpPlanCloneKeeps, UpMakeDirectoryKeeps, UpBindCloneKeeps, UpCloneKeeps,
    UpRegisterKeeps DEF Up!Create

LEMMA UpRaiseKeeps == ASSUME Up!BootAssumption, Up!IInv, Up!Raise PROVE Up!IInv'
BY UpOpenKeeps, UpHandLedgerKeeps, UpPublishKeeps, UpInitStateKeeps, UpTransferKeeps,
    UpCompleteKeeps DEF Up!Raise

LEMMA UpRollbackKeeps == ASSUME Up!BootAssumption, Up!IInv, Up!Rollback PROVE Up!IInv'
BY UpCloseKeeps, UpUndoKeeps, UpCleanLedgerKeeps, UpRemoveLedgerKeeps, UpForgetIntentKeeps,
    UpUnpublishKeeps, UpDropStateKeeps DEF Up!Rollback

(* Every step keeps the inductive invariant. *)
LEMMA UpNextKeeps == ASSUME Up!BootAssumption, Up!IInv, [Up!Next]_(Up!vars) PROVE Up!IInv'
<1>1. CASE Up!Script
    BY <1>1, UpLedgerKeeps, UpRetireKeeps, UpCreateKeeps, UpRaiseKeeps, UpRollbackKeeps DEF Up!Script
<1>2. CASE \E c \in Up!Clones : Up!Edit(c) \/ Up!Squat(c) \/ Up!Unsquat(c)
    BY <1>2, UpEditKeeps, UpSquatKeeps, UpUnsquatKeeps
<1>3. CASE Up!Start \/ Up!CloneFails \/ Up!Fail \/ Up!UndoFails \/ Up!Kill
    BY <1>3, UpStartKeeps, UpCloneFailsKeeps, UpFailKeeps, UpUndoFailsKeeps, UpKillKeeps
<1>4. CASE Up!Use \/ Up!CloseWorkspace \/ Up!TearDown \/ Up!RemoveBranch
    BY <1>4, UpUseKeeps, UpCloseWorkspaceKeeps, UpTearDownKeeps, UpRemoveBranchKeeps
<1>5. CASE UNCHANGED Up!vars
    BY <1>5, UpStutters
<1> QED BY <1>1, <1>2, <1>3, <1>4, <1>5 DEF Up!Next

(* The inductive invariant of Boot holds in every reachable state: at each step of an attempt *)
(* and of its rollback, and wherever it was killed, the clones, their journals, the manifest  *)
(* and what the script knows of them fit together.                                            *)
THEOREM BootInvariantTheorem == Up!Spec => []Up!IInv
<1>1. Up!Init => Up!IInv
    BY UpAssumed, UpInitKeeps
<1>2. Up!IInv /\ [Up!Next]_(Up!vars) => Up!IInv'
    BY UpAssumed, UpNextKeeps
<1> QED BY <1>1, <1>2, PTL DEF Up!Spec

(* Every variable of Boot keeps its type. *)
THEOREM BootTypeTheorem == Up!Spec => []Up!TypeOK
<1>1. Up!IInv => Up!TypeOK
    BY DEF Up!IInv
<1> QED BY <1>1, BootInvariantTheorem, PTL

(* Every clone on disk is named by a creation plan, a stage intent or the manifest, at every  *)
(* step of its way from the one to the other and back, for any fleet and number of failures.  *)
THEOREM OwnedTheorem == Up!Spec => []Owned
<1>1. Up!IInv => Owned
    BY DEF Up!IInv, Up!Owned, Owned, Up!Clones, Clones
<1> QED BY <1>1, BootInvariantTheorem, PTL

(* A fleet that is up is whole: while its manifest stands and its workspace is open, every    *)
(* clone is in its place and complete and the lifecycle ledger is there.                      *)
THEOREM FleetWholeTheorem == Up!Spec => []FleetWhole
<1>1. Up!IInv => FleetWhole
    BY DEF Up!IInv, Up!Live, FleetWhole, Up!Clones, Clones
<1> QED BY <1>1, BootInvariantTheorem, PTL

(* What is being deleted was looked at after it was out of the agents' reach. *)
LEMMA UpRemoveSpares ==
    ASSUME Up!IInv, Up!Remove, NEW c \in Up!Clones, what[c] \in {"work", "dirty"}, what'[c] = "half"
    PROVE  orphan
<1>1. c = cur /\ pc = "remove"
    BY DEF Up!Remove, Up!GiveUp, Up!Refuse, Up!Turn, Up!Goto, Up!IInv, Up!TypeOK, Up!DiskTyped
<1>2. cur \in tomb
    BY <1>1 DEF Up!IInv, Up!Current, Up!AtClone, Up!RetireSteps
<1> QED BY <1>1, <1>2 DEF Up!IInv, Up!Buried

(* Nothing an agent has committed or left pending is deleted by an attempt, its rollback or   *)
(* the reconciliation of a later one, unless a killed attempt left a workspace open.          *)
THEOREM BootWorkKeptTheorem == Up!Spec => WorkKept
<1> DEFINE Half(c) == what[c] \in {"work", "dirty"} /\ what'[c] = "half"
<1>1. ASSUME Up!IInv, [Up!Next]_(Up!vars), NEW c \in Up!Clones, Half(c) PROVE orphan
    <2> USE UpAssumed DEF Up!vars, Up!disk
    <2>1. CASE Up!Remove
        BY <1>1, <2>1, UpRemoveSpares
    <2>2. CASE Up!RemoveLast \/ Up!Adopt \/ Up!MakeDirectory \/ Up!Clone \/ Up!Register \/ Up!TearDown
        BY <1>1, <2>2 DEF Up!RemoveLast, Up!Adopt, Up!MakeDirectory, Up!HaveDirectory, Up!Clone, Up!Register, Up!TearDown, Up!IInv,
           Up!TypeOK, Up!DiskTyped, Up!BootAssumption, Up!Contents
    <2>3. CASE \E v \in Up!Clones : Up!Edit(v) \/ Up!Squat(v) \/ Up!Unsquat(v)
        BY <1>1, <2>3 DEF Up!Edit, Up!Squat, Up!Unsquat, Up!IInv, Up!TypeOK, Up!DiskTyped
    <2>4. CASE UNCHANGED what
        BY <1>1, <2>4
    <2> QED BY <1>1, <2>1, <2>2, <2>3, <2>4
        DEF Up!Next, Up!Script, Up!Ledger, Up!Retire, Up!Create, Up!Raise, Up!Rollback, Up!Start,
            Up!PrepareLedger, Up!CreateLedger, Up!BindLedger, Up!DropLedger, Up!DropIntent,
            Up!Reconcile, Up!Stage, Up!Move, Up!Verify, Up!Bury, Up!Exhume, Up!Unstage, Up!Unbind,
            Up!Unplan, Up!NextClone, Up!PlanClone, Up!BindClone, Up!Open, Up!HandLedger, Up!Publish,
            Up!InitState, Up!Transfer, Up!Complete, Up!Close, Up!Undo, Up!CleanLedger,
            Up!RemoveLedger, Up!ForgetIntent, Up!Unpublish, Up!DropState, Up!CloneFails, Up!Fail,
            Up!UndoFails, Up!Kill, Up!Use, Up!CloseWorkspace, Up!RemoveBranch
<1>2. Up!IInv /\ [Up!Next]_(Up!vars) => [\A c \in Clones : Half(c) => orphan]_what
    BY <1>1 DEF Clones, Up!Clones, Up!vars, Up!disk
<1> QED BY <1>2, BootInvariantTheorem, PTL DEF Up!Spec, WorkKept
=============================================================================
