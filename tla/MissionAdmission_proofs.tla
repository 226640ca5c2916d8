----------------------- MODULE MissionAdmission_proofs -----------------------
(* Proofs about MissionAdmission for every set of ids, recipients and         *)
(* requests and every deadline, credit pool and bound.                        *)
EXTENDS MissionAdmission, FiniteSetTheorems, TLAPS

(* What the named safety properties leave implicit: a reserved admission       *)
(* keeps a well-formed request, and lead_admission_id is a reserved one.       *)
Recorded ==
  /\ \A i \in Reserved : request[i] \in RequestType
  /\ leadAdmission # None => leadAdmission \in Reserved

IInv == /\ TypeOK /\ Recorded
        /\ LineageSound /\ ExclusiveActivity /\ RunOwnershipExact /\ LaneIsolation

-----------------------------------------------------------------------------
(* Lemmas about batches.                                                       *)

(* In a well-formed batch an id names one request and every request is found   *)
(* by its id.                                                                  *)
LEMMA BatchIds ==
  ASSUME NEW B \in SUBSET Requests, WellFormedBatch(B)
  PROVE  /\ \A q \in B : q.id \in IdsOf(B) /\ WithId(B, q.id) = q
         /\ \A i \in IdsOf(B) : WithId(B, i) \in B /\ WithId(B, i).id = i
<1>1. ASSUME NEW q \in B PROVE q.id \in IdsOf(B) /\ WithId(B, q.id) = q
  <2>1. \A p \in B : p.id = q.id => p = q
    BY DEF WellFormedBatch
  <2>2. WithId(B, q.id) \in B /\ WithId(B, q.id).id = q.id
    BY DEF WithId
  <2> QED BY <2>1, <2>2 DEF IdsOf
<1>2. ASSUME NEW i \in IdsOf(B) PROVE WithId(B, i) \in B /\ WithId(B, i).id = i
  <2>1. PICK q \in B : i = q.id
    BY DEF IdsOf
  <2> QED BY <1>1, <2>1
<1> QED BY <1>1, <1>2

(* A batch's ids are ids, and its parents are ids or none.                     *)
LEMMA BatchTypes ==
  ASSUME NEW B \in SUBSET Requests, WellFormedBatch(B), TypeOK,
         NEW actor, NEW q \in B
  PROVE  /\ q \in RequestType /\ q.id \in Ids /\ q.recipient \in Recipients
         /\ q.writer \in BOOLEAN /\ q.kind \in {"lead", "specialist"} /\ q.budget \in Nat
         /\ ResolvedParent(B, q, actor) \in Ids \cup {None}
<1>1. \A p \in B : p \in RequestType
  BY ConstantsAssumption DEF ConstantsAssumption
<1>2. \A p \in B : p.id \in Ids /\ p.recipient \in Recipients /\ p.writer \in BOOLEAN
                   /\ p.kind \in {"lead", "specialist"} /\ p.budget \in Nat
                   /\ p.parent \in Ids \cup {None}
  BY <1>1 DEF RequestType
<1>3. leadAdmission \in Ids \cup {None}
  BY DEF TypeOK
<1>4. Leads(B) # {} => (CHOOSE l \in Leads(B) : TRUE) \in B
  BY DEF Leads
<1>5. ResolvedParent(B, q, actor) \in Ids \cup {None}
  <2>1. q.parent \in Ids \cup {None}
    BY <1>2
  <2>2. Leads(B) # {} => (CHOOSE l \in Leads(B) : TRUE).id \in Ids
    BY <1>2, <1>4
  <2> QED BY <2>1, <2>2, <1>3 DEF ResolvedParent
<1> QED BY <1>1, <1>2, <1>5

(* What a set of requests costs: nothing for none, a natural, and a disjoint   *)
(* union the sum.                                                              *)
LEMMA CreditsFinite == ASSUME NEW S \in SUBSET Requests PROVE IsFiniteSet(CreditsOf(S))
<1> DEFINE granted == [q \in S |-> {q} \X (0..q.budget)]
           G == {granted[q] : q \in S}
<1>1. IsFiniteSet(S)
  BY FS_Subset, ConstantsAssumption DEF ConstantsAssumption
<1>2. IsFiniteSet(G)
  <2>1. granted \in Surjection(S, G)
    BY DEF Surjection
  <2> HIDE DEF granted, G
  <2> QED BY <1>1, <2>1, FS_Surjection
<1>3. ASSUME NEW T \in G PROVE IsFiniteSet(T)
  <2>1. PICK q \in S : T = {q} \X (0..q.budget)
    OBVIOUS
  <2>2. q.budget \in Nat
    BY ConstantsAssumption DEF ConstantsAssumption, RequestType
  <2>3. IsFiniteSet({q}) /\ IsFiniteSet(0..q.budget)
    <3>1. IsFiniteSet({q})
      BY FS_Singleton, Zenon
    <3>2. 0 \in Int /\ q.budget \in Int
      BY <2>2
    <3> QED BY <3>1, <3>2, FS_Interval, Zenon
  <2>4. IsFiniteSet({q} \X (0..q.budget))
    <3> HIDE DEF G, granted
    <3> QED BY ONLY <2>3, FS_Product
  <2> QED BY <2>1, <2>4
<1>4. CreditsOf(S) = UNION G
  BY DEF CreditsOf
<1> HIDE DEF G
<1> QED BY <1>2, <1>3, <1>4, FS_UNION

LEMMA CostType == ASSUME NEW S \in SUBSET Requests PROVE Cost(S) \in Nat
BY CreditsFinite, FS_CardinalityType DEF Cost

LEMMA CostEmpty == Cost({}) = 0
<1>1. CreditsOf({}) = {}
  BY DEF CreditsOf
<1> QED BY <1>1, FS_EmptySet DEF Cost

LEMMA CostUnion ==
  ASSUME NEW S \in SUBSET Requests, NEW T \in SUBSET Requests, S \cap T = {}
  PROVE  Cost(S \cup T) = Cost(S) + Cost(T)
<1>1. CreditsOf(S \cup T) = CreditsOf(S) \cup CreditsOf(T)
  BY DEF CreditsOf
<1>2. CreditsOf(S) \cap CreditsOf(T) = {}
  BY DEF CreditsOf
<1>3. Cardinality(CreditsOf(S) \cap CreditsOf(T)) = 0
  BY <1>2, FS_EmptySet
<1>4. Cost(S) \in Nat /\ Cost(T) \in Nat
  BY CostType
<1>5. IsFiniteSet(CreditsOf(S)) /\ IsFiniteSet(CreditsOf(T))
  BY CreditsFinite
<1>6. Cardinality(CreditsOf(S) \cup CreditsOf(T)) =
        Cardinality(CreditsOf(S)) + Cardinality(CreditsOf(T)) - 0
  BY <1>3, <1>5, FS_Union
<1>7. Cost(S \cup T) = Cardinality(CreditsOf(S) \cup CreditsOf(T))
  BY <1>1, Zenon DEF Cost
<1> QED BY <1>4, <1>6, <1>7 DEF Cost

(* Costs of parts of a batch are naturals.                                     *)
LEMMA BatchCosts ==
  ASSUME NEW B \in SUBSET Requests, NEW actor, NEW i
  PROVE  /\ Cost(ChildrenIn(B, i, actor)) \in Nat
         /\ Cost(Roots(B, actor)) \in Nat
         /\ Cardinality(Specialists(B)) \in Nat
<1>1. ChildrenIn(B, i, actor) \in SUBSET Requests /\ Roots(B, actor) \in SUBSET Requests
  BY DEF ChildrenIn, Roots, Specialists
<1>2. Specialists(B) \subseteq Requests
  BY DEF Specialists
<1>3. IsFiniteSet(Specialists(B))
  BY <1>2, FS_Subset, ConstantsAssumption DEF ConstantsAssumption
<1> QED BY <1>1, <1>3, CostType, FS_CardinalityType

-----------------------------------------------------------------------------
(* Preservation of the inductive invariant, one lemma per kind of event.       *)

LEMMA InitIInv == Init => IInv
<1> SUFFICES ASSUME Init PROVE IInv
  OBVIOUS
<1>0. None \notin Ids /\ MaxTime \in Nat /\ MaxRisk \in Nat /\ Credits \in Nat
  BY ConstantsAssumption DEF ConstantsAssumption
<1>1. TypeOK
  <2>1. status \in Statuses /\ phase \in [Ids -> Phases]
    BY DEF Init, Statuses, Phases
  <2>2. /\ clock \in 0..MaxTime /\ creditsSpent \in 0..Credits
        /\ childSpent \in [Ids -> Nat] /\ activeCount \in Int
    BY <1>0 DEF Init
  <2> QED BY <2>1, <2>2 DEF Init, TypeOK
<1>2. \A i \in Ids : ~IsActive(i) /\ i \notin Reserved /\ phase[i] \notin Owning
                      /\ phase[i] # "reserved" /\ phase[i] # "finalized"
  BY DEF Init, IsActive, Active, Owning, Reserved
<1>3. Recorded /\ LineageSound /\ LaneIsolation
  <2>1. Reserved = {}
    BY <1>2 DEF Reserved
  <2>2. leadAdmission = None
    BY DEF Init
  <2> QED BY <1>2, <2>1, <2>2 DEF Recorded, LineageSound, LaneIsolation
<1>4. ExclusiveActivity
  BY <1>0, <1>2 DEF Init, ExclusiveActivity
<1>5. RunOwnershipExact
  BY <1>2 DEF Init, RunOwnershipExact, Reserved
<1> QED BY <1>1, <1>3, <1>4, <1>5 DEF IInv

(* A lifecycle event or the passing of time touches no admission; it leaves a  *)
(* lane only when no admission is active.                                      *)
LEMMA LifecycleKeepsIInv ==
  ASSUME IInv, LifecycleStep \/ Tick
  PROVE  IInv'
<1> USE DEF IInv
<1>1. UNCHANGED <<admissions, ownership, indexes, leadRun>>
  BY DEF LifecycleStep, WorkflowCompiled, PolicyFrozen, FleetBootStarted, MissionRunning,
     AssuranceRequested, AssuranceApproved, ApprovalRenewed, AssuranceBootStarted,
     AssuranceStarted, RiskEscalated, MissionCompleting, ArchiveCreated, MissionTerminal,
     Tick
<1>2. /\ Recorded' /\ LineageSound' /\ ExclusiveActivity' /\ RunOwnershipExact'
  <2> USE <1>1 DEF admissions, ownership, indexes
  <2>1. \A i : IsActive(i)' <=> IsActive(i)
    BY DEF IsActive
  <2>2. Reserved' = Reserved
    BY DEF Reserved
  <2>3. Recorded' /\ LineageSound'
    BY <2>1, <2>2 DEF Recorded, LineageSound
  <2>4. ExclusiveActivity'
    BY <2>1 DEF ExclusiveActivity
  <2>5. RunOwnershipExact'
    BY <2>2 DEF RunOwnershipExact
  <2> QED BY <2>3, <2>4, <2>5
<1>3. LaneIsolation'
  <2>1. \A i \in Ids : IsActive(i)' => IsActive(i) /\ lane'[i] = lane[i]
    BY <1>1 DEF IsActive, admissions
  <2>2. \/ \A i \in Ids : ~IsActive(i)
        \/ status \in ControlLane /\ status' \in ControlLane
        \/ status \in AssuredLane /\ status' \in AssuredLane
    <3>1. CASE Tick \/ PolicyFrozen \/ (\E r \in 0..MaxRisk : RiskEscalated(r))
               \/ (\E e \in 1..MaxTime + 1 : ApprovalRenewed(e))
      BY <3>1 DEF LaneIsolation, Tick, PolicyFrozen, RiskEscalated, ApprovalRenewed
    <3>2. CASE WorkflowCompiled \/ AssuranceBootStarted
               \/ (\E e \in 1..MaxTime + 1 : AssuranceApproved(e))
      BY <3>2 DEF LaneIsolation, WorkflowCompiled, AssuranceBootStarted,
         AssuranceApproved, ControlLane, AssuredLane
    <3>3. CASE FleetBootStarted \/ MissionRunning \/ AssuranceStarted
      BY <3>3 DEF FleetBootStarted, MissionRunning, AssuranceStarted, ControlLane,
         AssuredLane
    <3>4. CASE AssuranceRequested \/ MissionCompleting \/ ArchiveCreated
               \/ (\E o \in Terminals : MissionTerminal(o))
      BY <3>4 DEF AssuranceRequested, MissionCompleting, ArchiveCreated, MissionTerminal,
         NoActiveAdmissions
    <3> QED BY <3>1, <3>2, <3>3, <3>4 DEF LifecycleStep
  <2>3. ControlLane \cap AssuredLane = {}
    BY DEF ControlLane, AssuredLane
  <2> QED BY <2>1, <2>2, <2>3 DEF LaneIsolation
<1>4. TypeOK'
  <2>1. status' \in Statuses /\ frozen' \in BOOLEAN
    BY DEF TypeOK, LifecycleStep,
     WorkflowCompiled, PolicyFrozen, FleetBootStarted, MissionRunning, AssuranceRequested,
     AssuranceApproved, ApprovalRenewed, AssuranceBootStarted, AssuranceStarted,
     RiskEscalated, MissionCompleting, ArchiveCreated, MissionTerminal, Tick,
     Statuses, ControlLane, AssuredLane
  <2>3. risk' \in 0..MaxRisk
    <3>1. risk' = risk \/ \E r \in 0..MaxRisk : risk' = r
      BY DEF LifecycleStep,
       WorkflowCompiled, PolicyFrozen, FleetBootStarted, MissionRunning,
       AssuranceRequested, AssuranceApproved, ApprovalRenewed, AssuranceBootStarted,
       AssuranceStarted, RiskEscalated, MissionCompleting, ArchiveCreated,
       MissionTerminal, Tick
    <3> QED BY <3>1 DEF TypeOK
  <2>4. clock' \in 0..MaxTime
    <3>1. clock' = clock \/ (clock < MaxTime /\ clock' = clock + 1)
      BY DEF LifecycleStep,
       WorkflowCompiled, PolicyFrozen, FleetBootStarted, MissionRunning,
       AssuranceRequested, AssuranceApproved, ApprovalRenewed, AssuranceBootStarted,
       AssuranceStarted, RiskEscalated, MissionCompleting, ArchiveCreated,
       MissionTerminal, Tick
    <3> QED BY <3>1, ConstantsAssumption DEF ConstantsAssumption, TypeOK
  <2>2. approval' = None \/ approval' \in [risk : 0..MaxRisk, expires : 1..MaxTime + 1]
    <3>1. CASE \E e \in 1..MaxTime + 1 : AssuranceApproved(e) \/ ApprovalRenewed(e)
      <4>1. PICK e \in 1..MaxTime + 1 : approval' = [risk |-> risk, expires |-> e]
        BY <3>1 DEF AssuranceApproved, ApprovalRenewed
      <4> QED BY <4>1 DEF TypeOK
    <3>2. CASE approval' = approval
      BY <3>2 DEF TypeOK
    <3> QED BY <3>1, <3>2 DEF LifecycleStep,
       WorkflowCompiled, PolicyFrozen, FleetBootStarted, MissionRunning,
       AssuranceRequested, AssuranceBootStarted, AssuranceStarted,
       RiskEscalated, MissionCompleting, ArchiveCreated, MissionTerminal, Tick
  <2> QED BY <1>1, <2>1, <2>2, <2>3, <2>4 DEF TypeOK, admissions, ownership, indexes
<1> QED BY <1>2, <1>3, <1>4

(* An admission that advances without being settled stays what it was for      *)
(* every index of active admissions.                                           *)
LEMMA AdvanceKeepsActivity ==
  ASSUME IInv, NEW i \in Ids, NEW to \in Owning, phase[i] \in Active,
         phase' = [phase EXCEPT ![i] = to],
         UNCHANGED <<lifecycle, request, parent, lane, childSpent, indexes>>
  PROVE  /\ Recorded' /\ ExclusiveActivity' /\ LaneIsolation'
         /\ Reserved' = Reserved
         /\ \A j \in Ids : IsActive(j)' <=> IsActive(j)
         /\ \A j \in Ids : phase'[j] = IF j = i THEN to ELSE phase[j]
         /\ phase' \in [Ids -> Phases]
<1> USE DEF IInv, TypeOK
<1>1. \A j \in Ids : phase'[j] = IF j = i THEN to ELSE phase[j]
  OBVIOUS
<1>2. \A j \in Ids : IsActive(j)' <=> IsActive(j)
  BY <1>1 DEF IsActive, Active, Owning
<1>3. Reserved' = Reserved
  BY <1>1 DEF Reserved, Active, Owning
<1>4. Recorded' /\ ExclusiveActivity' /\ LaneIsolation'
  BY <1>2, <1>3 DEF Recorded, ExclusiveActivity, LaneIsolation, lifecycle, indexes
<1>5. phase' \in [Ids -> Phases]
  BY DEF Phases, Active, Owning
<1> QED BY <1>1, <1>2, <1>3, <1>4, <1>5

LEMMA CommitKeepsIInv ==
  ASSUME IInv, NEW i \in Ids, DelegationCommitted(i)
  PROVE  IInv'
<1> USE DEF IInv
<1>1. /\ Recorded' /\ ExclusiveActivity' /\ LaneIsolation' /\ Reserved' = Reserved
      /\ \A j \in Ids : IsActive(j)' <=> IsActive(j)
      /\ \A j \in Ids : phase'[j] = IF j = i THEN "committed" ELSE phase[j]
      /\ phase' \in [Ids -> Phases]
  BY AdvanceKeepsActivity DEF DelegationCommitted, Active, Owning
<1>2. LineageSound'
  BY <1>1 DEF LineageSound, DelegationCommitted, ParentStarted, Owning, TypeOK
<1>3. RunOwnershipExact'
  BY <1>1 DEF RunOwnershipExact, DelegationCommitted, Owning, indexes, TypeOK
<1>4. TypeOK'
  BY <1>1 DEF TypeOK, DelegationCommitted, lifecycle, indexes
<1> QED BY <1>1, <1>2, <1>3, <1>4

(* Authorizing a launch and starting it.                                       *)
LEMMA LaunchKeepsIInv ==
  ASSUME IInv, NEW i \in Ids, LaunchAuthorized(i) \/ DelegationStarted(i)
  PROVE  IInv'
<1> USE DEF IInv
<1>1. PICK to \in Owning :
        /\ phase[i] \in Owning /\ phase[i] # "started" /\ to # "committed"
        /\ phase' = [phase EXCEPT ![i] = to]
        /\ UNCHANGED <<lifecycle, request, parent, lane, childSpent, ownership, indexes,
                       leadRun>>
  BY DEF LaunchAuthorized, DelegationStarted, Owning
<1>2. /\ Recorded' /\ ExclusiveActivity' /\ LaneIsolation' /\ Reserved' = Reserved
      /\ \A j \in Ids : IsActive(j)' <=> IsActive(j)
      /\ \A j \in Ids : phase'[j] = IF j = i THEN to ELSE phase[j]
      /\ phase' \in [Ids -> Phases]
  BY <1>1, AdvanceKeepsActivity DEF Active, Owning
<1>3. LineageSound'
  BY <1>1, <1>2 DEF LineageSound, Owning, TypeOK
<1>4. RunOwnershipExact'
  BY <1>1, <1>2 DEF RunOwnershipExact, Owning, ownership, indexes, TypeOK
<1>5. TypeOK'
  BY <1>1, <1>2 DEF TypeOK, lifecycle, ownership, indexes
<1> QED BY <1>2, <1>3, <1>4, <1>5

(* Settling releases exactly the admission that is settled.                    *)
LEMMA SettleKeepsIInv ==
  ASSUME IInv, NEW i \in Ids, DelegationFinalized(i) \/ ReservationAborted(i)
  PROVE  IInv'
<1> USE DEF IInv
<1>0. PICK to \in {"finalized", "aborted"} :
        /\ phase[i] \in Active /\ NoActiveChild(i) /\ Release(i)
        /\ phase' = [phase EXCEPT ![i] = to]
        /\ UNCHANGED <<lifecycle, request, parent, lane, childSpent, cancelled,
                       creditsSpent, leadAdmission, leadRun>>
  <2>1. CASE DelegationFinalized(i)
    BY <2>1 DEF DelegationFinalized, Active, Owning, ownership
  <2>2. CASE ReservationAborted(i)
    BY <2>2 DEF ReservationAborted, Active
  <2> QED BY <2>1, <2>2
<1>1. /\ phase[i] \in Active /\ NoActiveChild(i) /\ Release(i)
      /\ phase' = [phase EXCEPT ![i] = to] /\ phase'[i] = to
      /\ UNCHANGED <<lifecycle, request, parent, lane, childSpent, cancelled,
                     creditsSpent, leadAdmission, leadRun>>
  BY <1>0 DEF TypeOK
<1>2. \A j \in Ids : j # i => phase'[j] = phase[j]
  BY <1>1 DEF TypeOK
<1>3. \A j \in Ids : IsActive(j)' <=> IsActive(j) /\ j # i
  BY <1>1, <1>2 DEF IsActive, Active
<1>4. Reserved' = Reserved
  BY <1>1, <1>2 DEF Reserved, Active
<1>5. Recorded' /\ LaneIsolation'
  BY <1>1, <1>3, <1>4 DEF Recorded, LaneIsolation, lifecycle
<1>6. LineageSound'
  BY <1>1, <1>2, <1>3 DEF LineageSound, NoActiveChild, Owning, TypeOK
<1>7. ExclusiveActivity'
  <2>1. request[i] \in RequestType
    BY <1>1 DEF Recorded, Reserved, Active
  <2>2. \A j \in Ids : IsActive(j)' /\ request'[j].writer <=> activeWriter' = j
    BY <1>1, <1>3, ConstantsAssumption
    DEF ConstantsAssumption, ExclusiveActivity, Release
  <2>3. \A j \in Ids, r \in Recipients :
          IsActive(j)' /\ request'[j].recipient = r <=> activeRecipients'[r] = j
    BY <1>1, <1>3, ConstantsAssumption
    DEF ConstantsAssumption, ExclusiveActivity, Release, IsActive
  <2> QED BY <2>2, <2>3 DEF ExclusiveActivity
<1>8. RunOwnershipExact'
  <2>1. CASE DelegationFinalized(i)
    BY <2>1, <1>2, <1>4
    DEF RunOwnershipExact, DelegationFinalized, Owning, ownership, TypeOK
  <2>2. CASE ReservationAborted(i)
    BY <2>2, <1>2, <1>4 DEF RunOwnershipExact, ReservationAborted, Owning, TypeOK
  <2> QED BY <2>1, <2>2
<1>9. TypeOK'
  <2>1. runClaims' \in SUBSET Ids /\ runOwners' \in SUBSET Ids
    BY DEF DelegationFinalized, ReservationAborted, ownership, TypeOK
  <2>2. /\ activeCount' \in Int /\ activeWriter' \in Ids \cup {None}
        /\ activeRecipients' \in [Recipients -> Ids \cup {None}]
    BY <1>1 DEF Release, TypeOK
  <2>3. phase' \in [Ids -> Phases]
    BY <1>1 DEF TypeOK, Phases
  <2> QED BY <1>1, <2>1, <2>2, <2>3 DEF TypeOK, lifecycle
<1> QED BY <1>5, <1>6, <1>7, <1>8, <1>9

LEMMA RunEventKeepsIInv ==
  ASSUME IInv, NEW i \in Ids, LeadDispatched(i) \/ RunCancelRequested(i)
  PROVE  IInv'
<1> USE DEF IInv
<1>1. /\ UNCHANGED <<lifecycle, admissions, runClaims, runOwners, indexes>>
      /\ \A j : IsActive(j)' <=> IsActive(j)
      /\ Reserved' = Reserved
  BY DEF LeadDispatched, RunCancelRequested, ownership, admissions, IsActive, Reserved
<1>2. Recorded' /\ LineageSound' /\ LaneIsolation'
  BY <1>1 DEF Recorded, LineageSound, LaneIsolation, lifecycle, admissions, indexes
<1>3. ExclusiveActivity'
  BY <1>1 DEF ExclusiveActivity, admissions, indexes
<1>4. RunOwnershipExact'
  <2>1. leadRun' # None => leadRun' = leadAdmission /\ phase[leadRun'] \in {"started", "finalized"}
    BY DEF LeadDispatched, RunCancelRequested, RunOwnershipExact, Reserved
  <2> QED BY <1>1, <2>1 DEF RunOwnershipExact, admissions, indexes
<1>5. TypeOK'
  BY <1>1 DEF TypeOK, LeadDispatched, RunCancelRequested, lifecycle, admissions, ownership,
     indexes
<1> QED BY <1>2, <1>3, <1>4, <1>5

(* A batch is admitted whole: its admissions are fresh, distinct, and bound to  *)
(* parents admitted with them or active in the same lane.                      *)
LEMMA ReserveKeepsIInv ==
  ASSUME IInv, NEW B \in SUBSET Requests, NEW actor \in {"CONTROL", "ASSURED"},
         DelegationsReserved(B, actor)
  PROVE  IInv'
<1> USE DEF IInv
<1> DEFINE ids == IdsOf(B)
<1>1. WellFormedBatch(B) /\ AdmissionLane(actor) /\ UNCHANGED <<lifecycle, runOwners, cancelled, leadRun>>
  BY DEF DelegationsReserved
<1>2. /\ \A q \in B : q.id \in ids /\ WithId(B, q.id) = q
      /\ \A i \in ids : WithId(B, i) \in B /\ WithId(B, i).id = i
  BY <1>1, BatchIds
<1>3. \A q \in B : /\ q \in RequestType /\ q.id \in Ids /\ q.recipient \in Recipients
                   /\ q.writer \in BOOLEAN /\ q.kind \in {"lead", "specialist"}
                   /\ q.budget \in Nat
                   /\ ResolvedParent(B, q, actor) \in Ids \cup {None}
  BY <1>1, BatchTypes
<1>4. ids \subseteq Ids
  BY <1>3 DEF IdsOf
<1>5. /\ \A i \in ids : /\ phase[i] = "absent" /\ i \notin runClaims /\ i \notin runOwners
                        /\ PermittedParent(B, ResolvedParent(B, WithId(B, i), actor), actor)
      /\ \A q \in B : /\ activeRecipients[q.recipient] = None
                      /\ q.writer => activeWriter = None
      /\ Leads(B) # {} => leadAdmission = None
  BY <1>2 DEF DelegationsReserved
<1>6. \A i \in Ids :
        /\ request'[i] = IF i \in ids THEN WithId(B, i) ELSE request[i]
        /\ parent'[i] = IF i \in ids THEN ResolvedParent(B, WithId(B, i), actor) ELSE parent[i]
        /\ lane'[i] = IF i \in ids THEN actor ELSE lane[i]
        /\ phase'[i] = IF i \in ids THEN "reserved" ELSE phase[i]
  BY DEF DelegationsReserved
<1>7. \A i \in Ids : /\ i \in Reserved' <=> i \in Reserved \/ i \in ids
                     /\ IsActive(i)' <=> IsActive(i) \/ i \in ids
                     /\ i \in ids => i \notin Reserved /\ ~IsActive(i)
  BY <1>5, <1>6 DEF Reserved, IsActive, Active
<1>8. /\ Leads(B) # {} => (CHOOSE q \in Leads(B) : TRUE) \in Leads(B)
      /\ Writers(B) # {} => (CHOOSE q \in Writers(B) : TRUE) \in Writers(B)
  OBVIOUS
<1>9. /\ leadAdmission' = IF Leads(B) # {} THEN (CHOOSE q \in Leads(B) : TRUE).id
                                           ELSE leadAdmission
      /\ activeWriter' = IF Writers(B) # {} THEN (CHOOSE q \in Writers(B) : TRUE).id
                                            ELSE activeWriter
      /\ runClaims' = runClaims \cup ids
  BY DEF DelegationsReserved
<1>10. TypeOK'
  <2>1. /\ request' \in [Ids -> RequestType \cup {None}] /\ phase' \in [Ids -> Phases]
        /\ lane' \in [Ids -> {"CONTROL", "ASSURED", None}]
        /\ parent' \in [Ids -> Ids \cup {None}]
    <3>1. \A i \in Ids : /\ request'[i] \in RequestType \cup {None}
                         /\ parent'[i] \in Ids \cup {None}
                         /\ lane'[i] \in {"CONTROL", "ASSURED", None}
                         /\ phase'[i] \in Phases
      BY <1>2, <1>3, <1>6 DEF TypeOK, Phases, Active
    <3>2. /\ DOMAIN request' = Ids /\ request' = [i \in Ids |-> request'[i]]
          /\ DOMAIN parent' = Ids /\ parent' = [i \in Ids |-> parent'[i]]
          /\ DOMAIN lane' = Ids /\ lane' = [i \in Ids |-> lane'[i]]
          /\ DOMAIN phase' = Ids /\ phase' = [i \in Ids |-> phase'[i]]
      BY DEF DelegationsReserved
    <3> QED BY <3>1, <3>2
  <2>2. childSpent' \in [Ids -> Nat]
    BY BatchCosts DEF DelegationsReserved, TypeOK
  <2>3. activeCount' \in Int /\ creditsSpent' \in 0..Credits
    BY BatchCosts, ConstantsAssumption
    DEF ConstantsAssumption, DelegationsReserved, WithinCredits, TypeOK
  <2>4. /\ activeWriter' \in Ids \cup {None} /\ leadAdmission' \in Ids \cup {None}
        /\ runClaims' \in SUBSET Ids
    BY <1>3, <1>4, <1>8, <1>9 DEF TypeOK, Leads, Writers
  <2>5. activeRecipients' \in [Recipients -> Ids \cup {None}]
    <3>1. \A r \in Recipients : (\E q \in B : q.recipient = r) =>
            (CHOOSE q \in B : q.recipient = r).id \in Ids
      BY <1>3
    <3> QED BY <3>1 DEF DelegationsReserved, TypeOK
  <2> QED BY <1>1, <2>1, <2>2, <2>3, <2>4, <2>5 DEF TypeOK, lifecycle
<1>11. Recorded'
  <2>1. \A i \in Ids : i \in Reserved' => request'[i] \in RequestType
    BY <1>2, <1>3, <1>6, <1>7 DEF Recorded
  <2>2. leadAdmission' # None => leadAdmission' \in Ids /\ leadAdmission' \in Reserved'
    BY <1>2, <1>4, <1>7, <1>8, <1>9 DEF Recorded, Leads, Reserved
  <2> QED BY <2>1, <2>2 DEF Recorded, Reserved
<1>12. LineageSound'
  <2> SUFFICES ASSUME NEW i \in Ids, IsActive(i)', parent'[i] # None
               PROVE  /\ IsActive(parent[i])' /\ lane'[parent'[i]] = lane'[i]
                      /\ phase'[i] \in Owning => phase'[parent'[i]] = "started"
    BY DEF LineageSound
  <2>1. parent'[i] \in Ids
    BY <1>10 DEF TypeOK
  <2>2. CASE i \in ids
    <3>1. PermittedParent(B, parent'[i], actor) /\ phase'[i] = "reserved" /\ lane'[i] = actor
      BY <2>2, <1>5, <1>6
    <3>2. CASE parent'[i] \in ids
      BY <2>1, <3>1, <3>2, <1>6, <1>7 DEF Owning
    <3>3. CASE parent'[i] \notin ids
      BY <2>1, <3>1, <3>3, <1>6, <1>7 DEF Owning, PermittedParent
    <3> QED BY <3>2, <3>3
  <2>3. CASE i \notin ids
    <3>1. parent'[i] = parent[i] /\ IsActive(i) /\ phase'[i] = phase[i] /\ lane'[i] = lane[i]
      BY <2>3, <1>6, <1>7
    <3>2. IsActive(parent[i]) /\ parent[i] \notin ids
      BY <3>1, <2>1, <1>7 DEF LineageSound
    <3> QED BY <2>1, <3>1, <3>2, <1>6, <1>7 DEF LineageSound
  <2> QED BY <2>2, <2>3
<1>13. ExclusiveActivity'
  <2>1. ASSUME NEW i \in Ids PROVE IsActive(i)' /\ request'[i].writer <=> activeWriter' = i
    <3>1. \A p, q \in Writers(B) : p = q
      BY <1>1 DEF WellFormedBatch
    <3>2. CASE Writers(B) = {}
      <4>1. activeWriter' = activeWriter /\ (i \in ids => ~WithId(B, i).writer)
        BY <3>2, <1>2, <1>9 DEF Writers
      <4>2. i \in ids => activeWriter # i
        BY <1>7 DEF ExclusiveActivity
      <4> QED BY <4>1, <4>2, <1>6, <1>7 DEF ExclusiveActivity
    <3>3. CASE Writers(B) # {}
      <4>1. PICK w \in Writers(B) : activeWriter' = w.id
        BY <3>3, <1>8, <1>9
      <4>2. /\ w \in B /\ w.writer /\ w.id \in ids /\ WithId(B, w.id) = w
            /\ \A q \in B : q.writer => q = w
        BY <4>1, <3>1, <1>2 DEF Writers
      <4>3. ~(IsActive(i) /\ request[i].writer)
        <5>1. activeWriter = None
          BY <4>2, <1>5
        <5> QED BY <5>1, ConstantsAssumption DEF ExclusiveActivity, ConstantsAssumption
      <4>4. i \in ids => (WithId(B, i).writer <=> i = w.id)
        BY <4>2, <1>2
      <4>5. CASE i \in ids
        BY <4>1, <4>4, <4>5, <1>6, <1>7
      <4>6. CASE i \notin ids
        BY <4>1, <4>2, <4>3, <4>6, <1>6, <1>7
      <4> QED BY <4>5, <4>6
    <3> QED BY <3>2, <3>3
  <2>2. ASSUME NEW i \in Ids, NEW r \in Recipients
        PROVE  IsActive(i)' /\ request'[i].recipient = r <=> activeRecipients'[r] = i
    <3>1. activeRecipients'[r] = IF \E q \in B : q.recipient = r
                                THEN (CHOOSE q \in B : q.recipient = r).id
                                ELSE activeRecipients[r]
      BY DEF DelegationsReserved
    <3>2. \A p, q \in B : p.recipient = q.recipient => p = q
      BY <1>1 DEF WellFormedBatch
    <3>3. CASE \E q \in B : q.recipient = r
      <4>1. PICK q \in B : q.recipient = r
        BY <3>3
      <4>2. activeRecipients'[r] = q.id /\ activeRecipients[r] = None
        BY <3>1, <3>2, <4>1, <1>5
      <4>3. ~(IsActive(i) /\ request[i].recipient = r)
        BY <4>2, ConstantsAssumption DEF ExclusiveActivity, ConstantsAssumption
      <4>4. i \in ids => (WithId(B, i).recipient = r <=> q.id = i)
        BY <1>2, <3>2, <4>1
      <4>5. i \notin ids => q.id # i
        BY <1>2
      <4> QED BY <4>2, <4>3, <4>4, <4>5, <1>6, <1>7
    <3>4. CASE ~ \E q \in B : q.recipient = r
      <4>1. activeRecipients'[r] = activeRecipients[r]
        BY <3>1, <3>4
      <4>2. i \in ids => request'[i].recipient # r
        BY <3>4, <1>2, <1>6
      <4>3. i \in ids => activeRecipients[r] # i
        BY <1>7 DEF ExclusiveActivity
      <4> QED BY <4>1, <4>2, <4>3, <1>6, <1>7 DEF ExclusiveActivity
    <3> QED BY <3>3, <3>4
  <2> QED BY <2>1, <2>2 DEF ExclusiveActivity
<1>14. RunOwnershipExact'
  <2>1. \A i \in Ids : /\ i \in runClaims' <=> phase'[i] = "reserved"
                       /\ i \in runOwners' <=> phase'[i] \in Owning \cup {"finalized"}
    BY <1>1, <1>5, <1>6, <1>9 DEF RunOwnershipExact, Owning
  <2>2. ASSUME NEW i \in Ids, i \in Reserved'
        PROVE  request'[i].kind = "lead" <=> leadAdmission' = i
    <3>1. \A p, q \in Leads(B) : p = q
      BY <1>1 DEF WellFormedBatch
    <3>2. i \in ids => leadAdmission # i
      BY <1>7, ConstantsAssumption DEF Recorded, ConstantsAssumption
    <3>3. i \notin ids => (request[i].kind = "lead" <=> leadAdmission = i)
      BY <2>2, <1>7 DEF RunOwnershipExact
    <3>4. CASE Leads(B) = {}
      <4>1. leadAdmission' = leadAdmission /\ (i \in ids => WithId(B, i).kind # "lead")
        BY <3>4, <1>2, <1>9 DEF Leads
      <4> QED BY <4>1, <3>2, <3>3, <1>6
    <3>5. CASE Leads(B) # {}
      <4>1. PICK l \in Leads(B) : leadAdmission' = l.id
        BY <3>5, <1>8, <1>9
      <4>2. /\ l \in B /\ l.kind = "lead" /\ l.id \in ids /\ WithId(B, l.id) = l
            /\ \A q \in B : q.kind = "lead" => q = l
        BY <4>1, <3>1, <1>2 DEF Leads
      <4>3. leadAdmission = None /\ None \notin Ids
        BY <3>5, <1>5, ConstantsAssumption DEF ConstantsAssumption
      <4>4. i \in ids => (WithId(B, i).kind = "lead" <=> i = l.id)
        BY <4>2, <1>2
      <4>5. CASE i \in ids
        BY <4>1, <4>4, <4>5, <1>6
      <4>6. CASE i \notin ids
        BY <4>1, <4>2, <4>3, <4>6, <3>3, <1>6
      <4> QED BY <4>5, <4>6
    <3> QED BY <3>4, <3>5
  <2>3. leadRun' # None =>
          leadRun' = leadAdmission' /\ phase'[leadRun'] \in {"started", "finalized"}
    <3> SUFFICES ASSUME leadRun # None
                 PROVE  leadRun = leadAdmission' /\ phase'[leadRun] \in {"started", "finalized"}
      BY <1>1
    <3>1. /\ leadRun = leadAdmission /\ leadRun \in Ids
          /\ phase[leadRun] \in {"started", "finalized"}
      BY DEF RunOwnershipExact, TypeOK
    <3> QED BY <3>1, <1>5, <1>6, <1>9
  <2> QED BY <2>1, <2>2, <2>3 DEF RunOwnershipExact, Reserved
<1>15. LaneIsolation'
  <2>1. status' = status
    BY <1>1 DEF lifecycle
  <2> QED BY <2>1, <1>1, <1>6, <1>7 DEF LaneIsolation, AdmissionLane
<1> QED BY <1>10, <1>11, <1>12, <1>13, <1>14, <1>15

-----------------------------------------------------------------------------
(* The theorems.                                                               *)

LEMMA NextKeepsIInv == IInv /\ [Next]_vars => IInv'
<1> SUFFICES ASSUME IInv, [Next]_vars PROVE IInv'
  OBVIOUS
<1>1. CASE LifecycleStep \/ Tick
  BY <1>1, LifecycleKeepsIInv
<1>2. CASE \E B \in SUBSET Requests, actor \in {"CONTROL", "ASSURED"} :
             DelegationsReserved(B, actor)
  BY <1>2, ReserveKeepsIInv
<1>3. CASE \E i \in Ids : AdmissionStep(i)
  BY <1>3, CommitKeepsIInv, LaunchKeepsIInv, SettleKeepsIInv, RunEventKeepsIInv
  DEF AdmissionStep
<1>4. CASE Ended \/ UNCHANGED vars
  <2>1. UNCHANGED vars
    BY <1>4 DEF Ended
  <2>2. /\ \A i : IsActive(i)' <=> IsActive(i)
        /\ Reserved' = Reserved
    BY <2>1 DEF vars, admissions, IsActive, Reserved
  <2>3. TypeOK' /\ Recorded' /\ LineageSound' /\ LaneIsolation'
    BY <2>1, <2>2 DEF IInv, TypeOK, Recorded, LineageSound, LaneIsolation, vars, lifecycle,
       admissions, ownership, indexes
  <2>4. ExclusiveActivity' /\ RunOwnershipExact'
    BY <2>1, <2>2 DEF IInv, ExclusiveActivity, RunOwnershipExact, vars, admissions,
       ownership, indexes
  <2> QED BY <2>3, <2>4 DEF IInv
<1> QED BY <1>1, <1>2, <1>3, <1>4 DEF Next

(* The inductive invariant holds in every reachable state of every mission.    *)
THEOREM InvariantTheorem == Spec => []IInv
BY InitIInv, NextKeepsIInv, PTL DEF Spec

(* The reducer's derived state is well typed: fleet_mission_state.py:2237.     *)
THEOREM TypeTheorem == Spec => []TypeOK
<1>1. IInv => TypeOK
  BY DEF IInv
<1> QED BY <1>1, InvariantTheorem, PTL

(* No child admission outlives or precedes its parent, for any set of nested   *)
(* requests: fleet_mission_state.py:2945-2955 and 3145-3150.                   *)
THEOREM LineageTheorem == Spec => []LineageSound
<1>1. IInv => LineageSound
  BY DEF IInv
<1> QED BY <1>1, InvariantTheorem, PTL

(* One active writer and one active admission per fleet instance, for any set  *)
(* of requests: fleet_mission_state.py:2075-2079 and 1873-1884.                *)
THEOREM ExclusionTheorem == Spec => []ExclusiveActivity
<1>1. IInv => ExclusiveActivity
  BY DEF IInv
<1> QED BY <1>1, InvariantTheorem, PTL

(* Runs are claimed and owned exactly as their admissions' phases say:         *)
(* fleet_mission_state.py:2219, 2956-2961 and 3197-3206.                       *)
THEOREM OwnershipTheorem == Spec => []RunOwnershipExact
<1>1. IInv => RunOwnershipExact
  BY DEF IInv
<1> QED BY <1>1, InvariantTheorem, PTL

(* CONTROL authority never survives into the assured lane, and nothing is      *)
(* active outside the two lanes: fleet_mission_state.py:1917-1933, 1970-1979.  *)
THEOREM LaneTheorem == Spec => []LaneIsolation
<1>1. IInv => LaneIsolation
  BY DEF IInv
<1> QED BY <1>1, InvariantTheorem, PTL

(* No ASSURED admission ever sees its approval replaced or renewed under it:   *)
(* fleet_mission_state.py:2311-2362 and 2435-2497.                             *)
THEOREM ApprovalTheorem == Spec => ApprovalPinned
<1>1. IInv /\ [Next]_vars =>
        [(\E i \in Ids : IsActive(i) /\ lane[i] = "ASSURED") => approval' = approval]_vars
  <2> SUFFICES ASSUME IInv, Next, NEW i \in Ids, IsActive(i), lane[i] = "ASSURED"
               PROVE  approval' = approval
    OBVIOUS
  <2>1. status \in AssuredLane
    BY DEF IInv, LaneIsolation
  <2>2. CASE LifecycleStep
    <3>1. status # "awaiting" /\ status # "assurance_approved" /\ ~NoActiveAdmissions
      BY <2>1 DEF AssuredLane, NoActiveAdmissions
    <3> QED BY <2>2, <3>1 DEF LifecycleStep, WorkflowCompiled, PolicyFrozen, FleetBootStarted,
       MissionRunning, AssuranceRequested, AssuranceApproved, ApprovalRenewed,
       AssuranceBootStarted, AssuranceStarted, RiskEscalated, MissionCompleting,
       ArchiveCreated, MissionTerminal
  <2>3. CASE Tick \/ Ended
    BY <2>3 DEF Tick, Ended, vars, lifecycle
  <2>4. CASE \E B \in SUBSET Requests, actor \in {"CONTROL", "ASSURED"} :
               DelegationsReserved(B, actor)
    BY <2>4 DEF DelegationsReserved, lifecycle
  <2>5. CASE \E j \in Ids : AdmissionStep(j)
    BY <2>5 DEF AdmissionStep, DelegationCommitted, LaunchAuthorized, DelegationStarted,
       DelegationFinalized, ReservationAborted, LeadDispatched, RunCancelRequested, lifecycle
  <2> QED BY <2>2, <2>3, <2>4, <2>5 DEF Next
<1> QED BY <1>1, InvariantTheorem, PTL DEF Spec, ApprovalPinned

(* Cancelling a run, or its parent, before its launch is authorized cuts the   *)
(* launch off for good: fleet_mission_state.py:2974-3008.                      *)
THEOREM CancellationTheorem == Spec => CancellationCutsLaunch
<1>1. IInv /\ [Next]_vars =>
        [\A i \in Ids :
           /\ i \in cancelled \/ parent[i] \in cancelled
           /\ phase[i] \notin {"authorized", "started", "finalized"}
           => phase'[i] \notin {"authorized", "started"}]_vars
  <2> SUFFICES ASSUME IInv, Next, NEW i \in Ids,
                      i \in cancelled \/ parent[i] \in cancelled,
                      phase[i] \notin {"authorized", "started", "finalized"}
               PROVE  phase'[i] \notin {"authorized", "started"}
    OBVIOUS
  <2> USE DEF IInv, TypeOK
  <2>1. CASE LifecycleStep \/ Tick \/ Ended
    BY <2>1 DEF LifecycleStep, WorkflowCompiled, PolicyFrozen, FleetBootStarted,
       MissionRunning, AssuranceRequested, AssuranceApproved, ApprovalRenewed,
       AssuranceBootStarted, AssuranceStarted, RiskEscalated, MissionCompleting,
       ArchiveCreated, MissionTerminal, Tick, Ended, vars, admissions
  <2>2. CASE \E B \in SUBSET Requests, actor \in {"CONTROL", "ASSURED"} :
               DelegationsReserved(B, actor)
    BY <2>2 DEF DelegationsReserved
  <2>3. CASE \E j \in Ids : AdmissionStep(j)
    <3>1. PICK j \in Ids : AdmissionStep(j)
      BY <2>3
    <3>2. CASE LaunchAuthorized(j)
      <4>1. j # i
        BY <3>2, ConstantsAssumption DEF ConstantsAssumption, LaunchAuthorized, ParentStarted
      <4> QED BY <3>2, <4>1 DEF LaunchAuthorized
    <3>3. CASE DelegationCommitted(j) \/ DelegationStarted(j) \/ DelegationFinalized(j)
               \/ ReservationAborted(j)
      BY <3>3 DEF DelegationCommitted, DelegationStarted, DelegationFinalized,
         ReservationAborted
    <3>4. CASE LeadDispatched(j) \/ RunCancelRequested(j)
      BY <3>4 DEF LeadDispatched, RunCancelRequested, admissions
    <3> QED BY <3>1, <3>2, <3>3, <3>4 DEF AdmissionStep
  <2> QED BY <2>1, <2>2, <2>3 DEF Next
<1> QED BY <1>1, InvariantTheorem, PTL DEF Spec, CancellationCutsLaunch

(* A settled admission keeps its phase, a launched one cannot be aborted, and  *)
(* no reservation rewrites an earlier one: fleet_mission_state.py:2063-2064,   *)
(* 3014-3023, 3145-3150 and 3168-3206.                                         *)
THEOREM ImmutabilityTheorem == Spec => AdmissionsImmutable
<1>1. IInv /\ [Next]_vars =>
        [\A i \in Reserved :
           /\ request'[i] = request[i] /\ parent'[i] = parent[i] /\ lane'[i] = lane[i]
           /\ phase[i] \in {"finalized", "aborted"} => phase'[i] = phase[i]
           /\ phase[i] \in {"authorized", "started"} => phase'[i] # "aborted"]_vars
  <2> SUFFICES ASSUME IInv, Next, NEW i \in Reserved
               PROVE  /\ request'[i] = request[i] /\ parent'[i] = parent[i]
                      /\ lane'[i] = lane[i]
                      /\ phase[i] \in {"finalized", "aborted"} => phase'[i] = phase[i]
                      /\ phase[i] \in {"authorized", "started"} => phase'[i] # "aborted"
    OBVIOUS
  <2>0. i \in Ids /\ phase[i] # "absent" /\ phase \in [Ids -> Phases]
    BY DEF Reserved, IInv, TypeOK
  <2>1. CASE LifecycleStep \/ Tick \/ Ended
    BY <2>1 DEF LifecycleStep, WorkflowCompiled, PolicyFrozen, FleetBootStarted,
       MissionRunning, AssuranceRequested, AssuranceApproved, ApprovalRenewed,
       AssuranceBootStarted, AssuranceStarted, RiskEscalated, MissionCompleting,
       ArchiveCreated, MissionTerminal, Tick, Ended, vars, admissions
  <2>2. CASE \E B \in SUBSET Requests, actor \in {"CONTROL", "ASSURED"} :
               DelegationsReserved(B, actor)
    <3>1. PICK B \in SUBSET Requests, actor \in {"CONTROL", "ASSURED"} :
            DelegationsReserved(B, actor)
      BY <2>2
    <3>2. \A q \in B : phase[q.id] = "absent"
      BY <3>1 DEF DelegationsReserved
    <3>3. i \notin IdsOf(B)
      BY <2>0, <3>2 DEF IdsOf
    <3> QED BY <2>0, <3>1, <3>3 DEF DelegationsReserved
  <2>3. CASE \E j \in Ids : AdmissionStep(j)
    <3>1. PICK j \in Ids : AdmissionStep(j)
      BY <2>3
    <3>2. CASE DelegationCommitted(j) \/ LaunchAuthorized(j) \/ DelegationStarted(j)
      BY <2>0, <3>2 DEF DelegationCommitted, LaunchAuthorized, DelegationStarted
    <3>3. CASE DelegationFinalized(j) \/ ReservationAborted(j)
      BY <2>0, <3>3 DEF DelegationFinalized, ReservationAborted, Owning
    <3>4. CASE LeadDispatched(j) \/ RunCancelRequested(j)
      BY <3>4 DEF LeadDispatched, RunCancelRequested, admissions
    <3> QED BY <3>1, <3>2, <3>3, <3>4 DEF AdmissionStep
  <2> QED BY <2>1, <2>2, <2>3 DEF Next
<1> QED BY <1>1, InvariantTheorem, PTL DEF Spec, AdmissionsImmutable

-----------------------------------------------------------------------------
(* The count of active delegations, an invariant on top of IInv.               *)

Working == {i \in Ids : IsActive(i) /\ request[i].kind = "specialist"}

CountInv ==
  IsFiniteSet(Working) /\ activeCount = Cardinality(Working) /\ activeCount <= MaxActive

(* Reserving a batch adds as many working ids as it has specialists.           *)
LEMMA ReserveKeepsCount ==
  ASSUME IInv, CountInv, NEW B \in SUBSET Requests, NEW actor \in {"CONTROL", "ASSURED"},
         DelegationsReserved(B, actor)
  PROVE  CountInv'
<1> DEFINE added == {q.id : q \in Specialists(B)}
           name == [q \in Specialists(B) |-> q.id]
<1>1. WellFormedBatch(B)
  BY DEF DelegationsReserved
<1>2. /\ \A q \in B : q.id \in IdsOf(B) /\ WithId(B, q.id) = q /\ q.id \in Ids
      /\ \A i \in IdsOf(B) : WithId(B, i) \in B /\ WithId(B, i).id = i
  BY <1>1, BatchIds, BatchTypes DEF IInv
<1>3. \A i \in IdsOf(B) : phase[i] = "absent"
  BY DEF DelegationsReserved, IdsOf
<1>4. \A i \in Ids : /\ request'[i] = IF i \in IdsOf(B) THEN WithId(B, i) ELSE request[i]
                     /\ phase'[i] = IF i \in IdsOf(B) THEN "reserved" ELSE phase[i]
  BY DEF DelegationsReserved
<1>5. \A i \in Ids : i \in added <=> i \in IdsOf(B) /\ WithId(B, i).kind = "specialist"
  BY <1>2 DEF Specialists
<1>6. added \subseteq Ids
  BY <1>2 DEF Specialists
<1>7. Working' = Working \cup added /\ Working \cap added = {}
  BY <1>3, <1>4, <1>5, <1>6 DEF Working, IsActive, Active
<1>8. IsFiniteSet(Specialists(B))
  BY FS_Subset, ConstantsAssumption DEF ConstantsAssumption, Specialists
<1>9. IsFiniteSet(added) /\ Cardinality(added) = Cardinality(Specialists(B))
  <2>1. name \in Surjection(Specialists(B), added)
    BY DEF Surjection
  <2>2. name \in Injection(Specialists(B), added)
    BY <1>2 DEF Injection, IsInjective, Specialists
  <2> QED BY <1>8, <2>1, <2>2, FS_Surjection
<1>10. IsFiniteSet(Working') /\ Cardinality(Working') = Cardinality(Working) + Cardinality(added)
  <2>1. IsFiniteSet(Working)
    BY DEF CountInv
  <2>2. Cardinality(Working \cap added) = 0
    BY <1>7, FS_EmptySet
  <2>3. Cardinality(Working) \in Nat /\ Cardinality(added) \in Nat
    BY <1>9, <2>1, FS_CardinalityType
  <2>4. /\ IsFiniteSet(Working \cup added)
        /\ Cardinality(Working \cup added)
             = Cardinality(Working) + Cardinality(added) - Cardinality(Working \cap added)
    BY <1>9, <2>1, FS_Union
  <2> QED BY <1>7, <2>2, <2>3, <2>4
<1>11. /\ activeCount' = activeCount + Cardinality(Specialists(B))
       /\ activeCount + Cardinality(Specialists(B)) <= MaxActive
  BY DEF DelegationsReserved
<1> QED BY <1>9, <1>10, <1>11 DEF CountInv

(* Settling an admission takes it, and it alone, from the working ones.        *)
LEMMA SettleKeepsCount ==
  ASSUME IInv, CountInv, NEW i \in Ids, DelegationFinalized(i) \/ ReservationAborted(i)
  PROVE  CountInv'
<1>1. /\ IsActive(i) /\ Release(i) /\ request' = request
      /\ \E p \in {"finalized", "aborted"} : phase' = [phase EXCEPT ![i] = p]
  BY DEF DelegationFinalized, ReservationAborted, IsActive, Active, Owning
<1>2. phase \in [Ids -> Phases]
  BY DEF IInv, TypeOK
<1>3. Working' = Working \ {i}
  BY <1>1, <1>2 DEF Working, IsActive, Active
<1>4. IsFiniteSet(Working) /\ Cardinality(Working) \in Nat
  BY FS_CardinalityType DEF CountInv
<1>5. /\ IsFiniteSet(Working \ {i})
      /\ Cardinality(Working \ {i})
           = IF i \in Working THEN Cardinality(Working) - 1 ELSE Cardinality(Working)
  BY <1>4, FS_RemoveElement
<1>6. activeCount' = IF i \in Working THEN activeCount - 1 ELSE activeCount
  BY <1>1 DEF Release, Working
<1>7. MaxActive \in Nat
  BY ConstantsAssumption DEF ConstantsAssumption
<1> QED BY <1>3, <1>4, <1>5, <1>6, <1>7 DEF CountInv

(* Every other event leaves the working admissions and their count alone.      *)
LEMMA OthersKeepCount ==
  ASSUME IInv, CountInv,
         \/ LifecycleStep \/ Tick \/ UNCHANGED vars
         \/ \E i \in Ids : \/ DelegationCommitted(i) \/ LaunchAuthorized(i)
                           \/ DelegationStarted(i) \/ LeadDispatched(i)
                           \/ RunCancelRequested(i)
  PROVE  CountInv'
<1>1. phase \in [Ids -> Phases]
  BY DEF IInv, TypeOK
<1>2. activeCount' = activeCount /\ request' = request
      /\ \A j \in Ids : IsActive(j)' <=> IsActive(j)
  <2>1. CASE LifecycleStep \/ Tick \/ UNCHANGED vars
    BY <2>1 DEF LifecycleStep, WorkflowCompiled, PolicyFrozen, FleetBootStarted,
       MissionRunning, AssuranceRequested, AssuranceApproved, ApprovalRenewed,
       AssuranceBootStarted, AssuranceStarted, RiskEscalated, MissionCompleting,
       ArchiveCreated, MissionTerminal, Tick, vars, admissions, indexes, IsActive
  <2>2. ASSUME NEW i \in Ids,
               DelegationCommitted(i) \/ LaunchAuthorized(i) \/ DelegationStarted(i)
        PROVE  activeCount' = activeCount /\ request' = request
               /\ \A j \in Ids : IsActive(j)' <=> IsActive(j)
    BY <1>1, <2>2 DEF DelegationCommitted, LaunchAuthorized, DelegationStarted, indexes,
       IsActive, Active
  <2>3. ASSUME NEW i \in Ids, LeadDispatched(i) \/ RunCancelRequested(i)
        PROVE  activeCount' = activeCount /\ request' = request
               /\ \A j \in Ids : IsActive(j)' <=> IsActive(j)
    BY <2>3 DEF LeadDispatched, RunCancelRequested, admissions, indexes, IsActive
  <2> QED BY <2>1, <2>2, <2>3
<1>3. Working' = Working
  BY <1>2 DEF Working
<1> QED BY <1>2, <1>3 DEF CountInv

(* The count of active delegations is exact and within the frozen maximum, for *)
(* any batch and any release path: fleet_mission_state.py:1873-1884 and 2093.  *)
THEOREM CountTheorem == Spec => []ActiveCountExact
<1>1. Init => CountInv
  <2> SUFFICES ASSUME Init PROVE CountInv
    OBVIOUS
  <2>1. Working = {}
    BY DEF Init, Working, IsActive, Active
  <2> QED BY <2>1, FS_EmptySet, ConstantsAssumption DEF ConstantsAssumption, Init, CountInv
<1>2. IInv /\ CountInv /\ [Next]_vars => CountInv'
  <2> SUFFICES ASSUME IInv, CountInv, [Next]_vars PROVE CountInv'
    OBVIOUS
  <2>1. CASE LifecycleStep \/ Tick \/ Ended \/ UNCHANGED vars
    BY <2>1, OthersKeepCount DEF Ended
  <2>2. CASE \E B \in SUBSET Requests, actor \in {"CONTROL", "ASSURED"} :
               DelegationsReserved(B, actor)
    BY <2>2, ReserveKeepsCount
  <2>3. CASE \E i \in Ids : AdmissionStep(i)
    BY <2>3, OthersKeepCount, SettleKeepsCount DEF AdmissionStep
  <2> QED BY <2>1, <2>2, <2>3 DEF Next
<1>3. CountInv => ActiveCountExact
  BY DEF CountInv, Working, ActiveCountExact
<1> QED BY <1>1, <1>2, <1>3, InvariantTheorem, PTL DEF Spec

-----------------------------------------------------------------------------
(* The delegation credits.                                                     *)

(* The specialists ever admitted, those the mission paid for, those p paid for. *)
Admitted == {i \in Reserved : request[i].kind = "specialist"}
RootIds == {i \in Admitted : parent[i] = None \/ request[parent[i]].kind = "lead"}
Kids(p) == {i \in Admitted : parent[i] = p}
Of(X) == {request[i] : i \in X}

(* An admission's request is one that was submitted, under its own id; its     *)
(* parent was reserved with it or before it.                                   *)
Submitted ==
  /\ \A i \in Reserved : request[i] \in Requests /\ request[i].id = i
  /\ \A i \in Reserved : parent[i] # None => parent[i] \in Reserved

Accounts ==
  /\ creditsSpent = Cost(Of(RootIds))
  /\ \A i \in Admitted : childSpent[i] = Cost(Of(Kids(i))) /\ childSpent[i] <= request[i].budget

(* Requests of different admissions are different, and so are their sets.      *)
LEMMA OfType ==
  ASSUME Submitted, NEW X \in SUBSET Reserved PROVE Of(X) \in SUBSET Requests
BY DEF Of, Submitted

(* A batch is debited to the mission and to the parents it names.              *)
LEMMA ReserveKeepsCredits ==
  ASSUME IInv, Submitted, Accounts, NEW B \in SUBSET Requests,
         NEW actor \in {"CONTROL", "ASSURED"}, DelegationsReserved(B, actor)
  PROVE  Submitted' /\ Accounts'
<1> DEFINE ids == IdsOf(B)
           kids(p) == ChildrenIn(B, p, actor)
           above(q) == ResolvedParent(B, q, actor)
<1>1. WellFormedBatch(B)
  BY DEF DelegationsReserved
<1>2. /\ \A q \in B : q.id \in ids /\ WithId(B, q.id) = q
      /\ \A i \in ids : WithId(B, i) \in B /\ WithId(B, i).id = i
  BY <1>1, BatchIds
<1>3. \A q \in B : /\ q.id \in Ids /\ q.kind \in {"lead", "specialist"} /\ q.budget \in Nat
                   /\ above(q) \in Ids \cup {None}
  BY <1>1, BatchTypes DEF IInv
<1>4. ids \subseteq Ids /\ \A i \in ids : phase[i] = "absent"
  BY <1>3 DEF IdsOf, DelegationsReserved
<1>5. \A i \in Ids :
        /\ request'[i] = IF i \in ids THEN WithId(B, i) ELSE request[i]
        /\ parent'[i] = IF i \in ids THEN above(WithId(B, i)) ELSE parent[i]
        /\ phase'[i] = IF i \in ids THEN "reserved" ELSE phase[i]
  BY DEF DelegationsReserved
<1>6. \A i \in Ids : /\ i \in Reserved' <=> i \in Reserved \/ i \in ids
                     /\ i \in ids => i \notin Reserved
  BY <1>4, <1>5 DEF Reserved
<1>7. \A q \in B : above(q) # None => above(q) \in Reserved' /\ above(q) \in Ids
  <2> SUFFICES ASSUME NEW q \in B, above(q) # None PROVE above(q) \in Reserved' /\ above(q) \in Ids
    OBVIOUS
  <2>1. above(q) \in Ids /\ PermittedParent(B, above(q), actor)
    BY <1>3 DEF DelegationsReserved
  <2>2. above(q) \in ids \/ IsActive(above(q))
    BY <2>1 DEF PermittedParent
  <2> HIDE DEF above, ids
  <2>3. IsActive(above(q)) => above(q) \in Reserved
    BY <2>1 DEF IsActive, Active, Reserved
  <2> QED BY <2>1, <2>2, <2>3, <1>6
<1>8. Submitted'
  BY <1>2, <1>5, <1>6, <1>7 DEF Submitted, Reserved
<1>9. \A i \in Ids :
        /\ i \in Admitted' <=> i \in Admitted \/ (i \in ids /\ WithId(B, i).kind = "specialist")
        /\ i \in ids => i \notin Admitted
  BY <1>5, <1>6 DEF Admitted, Reserved
<1>10. \A p \in Ids : Of(Kids(p))' = Of(Kids(p)) \cup kids(p)
  <2> SUFFICES ASSUME NEW p \in Ids PROVE Of(Kids(p))' = Of(Kids(p)) \cup kids(p)
    OBVIOUS
  <2>1. ASSUME NEW x \in Of(Kids(p)) PROVE x \in Of(Kids(p))'
    <3>1. PICK i \in Kids(p) : x = request[i]
      BY DEF Of
    <3>2. i \in Ids /\ i \in Admitted /\ parent[i] = p /\ i \notin ids
      BY <1>9 DEF Kids, Admitted, Reserved
    <3>3. i \in Kids(p)' /\ x = request'[i]
      BY <3>1, <3>2, <1>5, <1>9 DEF Kids
    <3> QED BY <3>3 DEF Of
  <2>2. ASSUME NEW x \in kids(p) PROVE x \in Of(Kids(p))'
    <3>1. x \in B /\ x.kind = "specialist" /\ above(x) = p
      BY DEF ChildrenIn, Specialists
    <3>2. x.id \in Kids(p)' /\ x = request'[x.id]
      BY <3>1, <1>2, <1>3, <1>5, <1>9 DEF Kids
    <3> QED BY <3>2 DEF Of
  <2>3. ASSUME NEW x \in Of(Kids(p))' PROVE x \in Of(Kids(p)) \cup kids(p)
    <3>1. PICK i \in Kids(p)' : x = request'[i]
      BY DEF Of
    <3>2. i \in Ids /\ i \in Admitted' /\ parent'[i] = p
      BY DEF Kids, Admitted, Reserved
    <3>3. CASE i \in ids
      BY <3>1, <3>2, <3>3, <1>2, <1>5, <1>9 DEF ChildrenIn, Specialists
    <3>4. CASE i \notin ids
      BY <3>1, <3>2, <3>4, <1>5, <1>9 DEF Kids, Of
    <3> QED BY <3>3, <3>4
  <2> QED BY <2>1, <2>2, <2>3
<1>11. \A p \in Ids : p \in Reserved' => request'[p].kind = KindOf(B, p)
  BY <1>5 DEF KindOf
<1>12. Of(RootIds)' = Of(RootIds) \cup Roots(B, actor)
  <2>1. ASSUME NEW x \in Of(RootIds) PROVE x \in Of(RootIds)'
    <3>1. PICK i \in RootIds : x = request[i]
      BY DEF Of
    <3>2. i \in Ids /\ i \in Admitted /\ i \in Reserved /\ i \notin ids
      BY <1>9 DEF RootIds, Admitted, Reserved
    <3>3. parent[i] # None => parent[i] \in Ids /\ parent[i] \notin ids
      BY <3>2, <1>6 DEF Submitted, Reserved
    <3>4. i \in RootIds' /\ x = request'[i]
      BY <3>1, <3>2, <3>3, <1>5, <1>9 DEF RootIds
    <3> QED BY <3>4 DEF Of
  <2>2. ASSUME NEW x \in Roots(B, actor) PROVE x \in Of(RootIds)'
    <3>1. x \in B /\ x.kind = "specialist" /\ (above(x) = None \/ KindOf(B, above(x)) = "lead")
      BY DEF Roots, Specialists
    <3>2. x.id \in Ids /\ x.id \in Admitted' /\ x = request'[x.id] /\ parent'[x.id] = above(x)
      BY <3>1, <1>2, <1>3, <1>5, <1>9
    <3>3. x.id \in RootIds'
      BY <3>1, <3>2, <1>7, <1>11 DEF RootIds
    <3> QED BY <3>2, <3>3 DEF Of
  <2>3. ASSUME NEW x \in Of(RootIds)' PROVE x \in Of(RootIds) \cup Roots(B, actor)
    <3>1. PICK i \in RootIds' : x = request'[i]
      BY DEF Of
    <3>2. i \in Ids /\ i \in Admitted' /\ (parent'[i] = None \/ request'[parent'[i]].kind = "lead")
      BY DEF RootIds, Admitted, Reserved
    <3>3. CASE i \in ids
      <4>1. x \in B /\ x.kind = "specialist" /\ parent'[i] = above(x)
        BY <3>1, <3>2, <3>3, <1>2, <1>5, <1>9
      <4> QED BY <3>2, <4>1, <1>7, <1>11 DEF Roots, Specialists
    <3>4. CASE i \notin ids
      <4>1. i \in Admitted /\ i \in Reserved /\ x = request[i] /\ parent'[i] = parent[i]
        BY <3>1, <3>2, <3>4, <1>5, <1>9 DEF Admitted
      <4>2. parent[i] # None => parent[i] \in Ids /\ request'[parent[i]] = request[parent[i]]
        BY <4>1, <1>5, <1>6 DEF Submitted, Reserved
      <4> QED BY <3>2, <4>1, <4>2 DEF Of, RootIds
    <3> QED BY <3>3, <3>4
  <2> QED BY <2>1, <2>2, <2>3
(* What was admitted before and what the batch admits are different requests. *)
<1>13. \A X \in SUBSET Reserved : Of(X) \in SUBSET Requests /\ Of(X) \cap B = {}
  <2> SUFFICES ASSUME NEW X \in SUBSET Reserved PROVE Of(X) \in SUBSET Requests /\ Of(X) \cap B = {}
    OBVIOUS
  <2>1. \A i \in X : request[i] \notin B
    BY <1>2, <1>6 DEF Submitted, Reserved
  <2> QED BY <2>1, OfType DEF Of
<1>14. \A p : Kids(p) \in SUBSET Reserved /\ RootIds \in SUBSET Reserved
  BY DEF Kids, RootIds, Admitted
<1>15. \A p : kids(p) \in SUBSET Requests /\ kids(p) \subseteq B
              /\ Roots(B, actor) \in SUBSET Requests /\ Roots(B, actor) \subseteq B
  BY DEF ChildrenIn, Roots, Specialists
<1>16. \A p : Cost(Of(Kids(p)) \cup kids(p)) = Cost(Of(Kids(p))) + Cost(kids(p))
  BY <1>13, <1>14, <1>15, CostUnion
<1>17. creditsSpent' = Cost(Of(RootIds))'
  <2>1. Cost(Of(RootIds) \cup Roots(B, actor)) = Cost(Of(RootIds)) + Cost(Roots(B, actor))
    BY <1>13, <1>14, <1>15, CostUnion
  <2>2. Cost(Of(RootIds))' = Cost(Of(RootIds)')
    BY DEF Cost, CreditsOf
  <2>3. Cost(Of(RootIds)') = Cost(Of(RootIds) \cup Roots(B, actor))
    BY <1>12, Zenon
  <2> QED BY <2>1, <2>2, <2>3 DEF Accounts, DelegationsReserved
<1>18. ASSUME NEW i \in Admitted'
       PROVE  childSpent'[i] = Cost(Of(Kids(i)))' /\ childSpent'[i] <= request'[i].budget
  <2>1. /\ i \in Ids /\ i \in Reserved'
        /\ request'[i].kind = "specialist" /\ KindOf(B, i) = "specialist"
    BY <1>11 DEF Admitted, Reserved
  <2>2. Cost(Of(Kids(i)))' = Cost(Of(Kids(i))) + Cost(kids(i))
    <3>1. Cost(Of(Kids(i)))' = Cost(Of(Kids(i))')
      BY DEF Cost, CreditsOf
    <3>2. Of(Kids(i))' = Of(Kids(i)) \cup kids(i)
      BY <1>10, <2>1
    <3> QED BY <3>1, <3>2, <1>16, Zenon
  <2>3. /\ Cost(kids(i)) \in Nat /\ (kids(i) = {} => Cost(kids(i)) = 0)
        /\ WithinParentBudgets(B, actor)
    BY BatchCosts, CostEmpty DEF DelegationsReserved
  <2>4. CASE i \in ids
    <3>1. Kids(i) = {}
      BY <2>1, <2>4, <1>6, ConstantsAssumption
      DEF ConstantsAssumption, Kids, Admitted, Submitted, Reserved
    <3>2. Cost(Of(Kids(i))) = 0
      BY <3>1, CostEmpty DEF Of
    <3>3. childSpent'[i] = Cost(kids(i)) /\ request'[i] = WithId(B, i) /\ request'[i].budget \in Nat
      BY <2>1, <2>4, <1>2, <1>3, <1>5 DEF DelegationsReserved
    <3>4. kids(i) # {} => 0 + Cost(kids(i)) <= WithId(B, i).budget
      BY <2>1, <2>3, <2>4 DEF WithinParentBudgets
    <3> QED BY <2>2, <2>3, <3>2, <3>3, <3>4
  <2>5. CASE i \notin ids
    <3>1. /\ i \in Admitted /\ request'[i] = request[i]
          /\ childSpent[i] = Cost(Of(Kids(i))) /\ childSpent[i] <= request[i].budget
      BY <2>1, <2>5, <1>5, <1>9 DEF Accounts
    <3>2. childSpent[i] \in Nat
      BY <2>1 DEF IInv, TypeOK
    <3>3. childSpent'[i] = IF kids(i) # {} THEN childSpent[i] + Cost(kids(i)) ELSE childSpent[i]
      BY <2>1, <2>5 DEF DelegationsReserved
    <3>4. kids(i) # {} => childSpent[i] + Cost(kids(i)) <= request[i].budget
      BY <2>1, <2>3, <2>5 DEF WithinParentBudgets
    <3> QED BY <2>2, <2>3, <3>1, <3>2, <3>3, <3>4
  <2> QED BY <2>4, <2>5
<1> QED BY <1>8, <1>17, <1>18 DEF Accounts

(* No other event admits, pays or changes what was admitted.                   *)
LEMMA OthersKeepCredits ==
  ASSUME IInv, Submitted, Accounts,
         \/ LifecycleStep \/ Tick \/ UNCHANGED vars
         \/ \E i \in Ids : AdmissionStep(i)
  PROVE  Submitted' /\ Accounts'
<1>1. phase \in [Ids -> Phases]
  BY DEF IInv, TypeOK
<1>2. /\ UNCHANGED <<request, parent, childSpent, creditsSpent>>
      /\ \A j \in Ids : phase'[j] = "absent" <=> phase[j] = "absent"
  <2>1. CASE LifecycleStep \/ Tick \/ UNCHANGED vars
    BY <2>1 DEF LifecycleStep, WorkflowCompiled, PolicyFrozen, FleetBootStarted,
       MissionRunning, AssuranceRequested, AssuranceApproved, ApprovalRenewed,
       AssuranceBootStarted, AssuranceStarted, RiskEscalated, MissionCompleting,
       ArchiveCreated, MissionTerminal, Tick, vars, admissions, indexes
  <2>2. ASSUME NEW i \in Ids,
               DelegationCommitted(i) \/ LaunchAuthorized(i) \/ DelegationStarted(i)
        PROVE  /\ UNCHANGED <<request, parent, childSpent, creditsSpent>>
               /\ \A j \in Ids : phase'[j] = "absent" <=> phase[j] = "absent"
    BY <1>1, <2>2 DEF DelegationCommitted, LaunchAuthorized, DelegationStarted, indexes
  <2>3. ASSUME NEW i \in Ids, LeadDispatched(i) \/ RunCancelRequested(i)
        PROVE  /\ UNCHANGED <<request, parent, childSpent, creditsSpent>>
               /\ \A j \in Ids : phase'[j] = "absent" <=> phase[j] = "absent"
    BY <2>3 DEF LeadDispatched, RunCancelRequested, admissions, indexes
  <2>4. ASSUME NEW i \in Ids, DelegationFinalized(i) \/ ReservationAborted(i)
        PROVE  /\ UNCHANGED <<request, parent, childSpent, creditsSpent>>
               /\ \A j \in Ids : phase'[j] = "absent" <=> phase[j] = "absent"
    BY <1>1, <2>4 DEF DelegationFinalized, ReservationAborted, Release, Owning
  <2> QED BY <2>1, <2>2, <2>3, <2>4 DEF AdmissionStep
<1>3. Reserved' = Reserved
  BY <1>2 DEF Reserved
<1>4. Admitted' = Admitted /\ RootIds' = RootIds /\ \A p : Kids(p)' = Kids(p)
  BY <1>2, <1>3 DEF Admitted, RootIds, Kids
<1>5. Submitted'
  BY <1>2, <1>3 DEF Submitted
<1>6. Of(RootIds)' = Of(RootIds) /\ \A p : Of(Kids(p))' = Of(Kids(p))
  BY <1>2, <1>4 DEF Of
<1> QED BY <1>2, <1>4, <1>5, <1>6 DEF Accounts, Cost, CreditsOf

(* A set no larger than another fits into it.                                  *)
LEMMA Fits ==
  ASSUME NEW S, NEW T, IsFiniteSet(S), IsFiniteSet(T), Cardinality(S) <= Cardinality(T)
  PROVE  ExistsInjection(S, T)
<1> DEFINE m == Cardinality(S)
           n == Cardinality(T)
<1>1. m \in Nat /\ n \in Nat /\ ExistsBijection(1..m, S) /\ ExistsBijection(1..n, T)
  BY FS_CardinalityType
<1>2. PICK g \in Bijection(1..m, S) : TRUE
  BY <1>1 DEF ExistsBijection
<1>3. PICK h \in Bijection(1..n, T) : TRUE
  BY <1>1 DEF ExistsBijection
<1> HIDE DEF m, n
<1> DEFINE at(s) == CHOOSE k \in 1..m : g[k] = s
           f == [s \in S |-> h[at(s)]]
<1>4. \A s \in S : at(s) \in 1..m /\ g[at(s)] = s
  BY <1>2 DEF Bijection, Surjection
<1>5. 1..m \subseteq 1..n
  BY <1>1 DEF m, n
<1>6. f \in [S -> T]
  BY <1>3, <1>4, <1>5 DEF Bijection, Injection
<1>7. ASSUME NEW s \in S, NEW t \in S, f[s] = f[t] PROVE s = t
  <2>1. h[at(s)] = h[at(t)] /\ at(s) \in 1..n /\ at(t) \in 1..n
    BY <1>4, <1>5, <1>7
  <2>2. at(s) = at(t)
    BY <1>3, <2>1 DEF Bijection, Injection, IsInjective
  <2> QED BY <1>4, <2>2
<1>8. f \in Injection(S, T)
  BY <1>6, <1>7 DEF Injection, IsInjective
<1> QED BY <1>8 DEF ExistsInjection

(* Delegation never multiplies: what the specialists paid their children fits   *)
(* into the budgets they were given, so there are no more of them than credits.  *)
LEMMA SpecialistsBounded ==
  ASSUME IInv, Submitted, Accounts PROVE Cardinality(Admitted) <= Credits
<1> DEFINE all == Of(Admitted)
           roots == Of(RootIds)
           others == Of(Admitted \ RootIds)
           own == {<<q, 0>> : q \in all}
           lent == CreditsOf(all) \ own
           share(q) == {q} \X (1..q.budget)
<1>1. /\ all \in SUBSET Requests /\ roots \in SUBSET Requests /\ others \in SUBSET Requests
      /\ \A p : Of(Kids(p)) \in SUBSET Requests
  BY OfType DEF Admitted, RootIds, Kids
<1>2. \A i \in Admitted : request[i].id = i /\ request[i] \in RequestType
  BY DEF Submitted, Admitted, IInv, Recorded
<1>3. \A i, j \in Admitted : request[i] = request[j] => i = j
  BY <1>2
<1>4. all = roots \cup others /\ roots \cap others = {}
  BY <1>3 DEF Of, RootIds
<1>5. Cost(all) = Cost(roots) + Cost(others)
  <2>1. Cost(roots \cup others) = Cost(roots) + Cost(others)
    BY <1>1, <1>4, CostUnion
  <2>2. Cost(all) = Cost(roots \cup others)
    BY <1>4, Zenon
  <2> QED BY <2>1, <2>2
<1>6. own \subseteq CreditsOf(all)
  <2>1. \A q \in all : q.budget \in Nat
    BY <1>2 DEF Of, RequestType
  <2> QED BY <2>1 DEF CreditsOf
<1>7. /\ IsFiniteSet(own) /\ IsFiniteSet(lent) /\ Cardinality(own) \in Nat
      /\ Cardinality(lent) \in Nat /\ Cost(all) = Cardinality(own) + Cardinality(lent)
  <2>1. IsFiniteSet(CreditsOf(all))
    BY <1>1, CreditsFinite
  <2>2. IsFiniteSet(own) /\ IsFiniteSet(lent)
    BY <2>1, <1>6, FS_Subset
  <2>3. CreditsOf(all) \cap own = own
    BY <1>6
  <2>4. Cardinality(lent) = Cardinality(CreditsOf(all)) - Cardinality(CreditsOf(all) \cap own)
    <3> HIDE DEF own, all
    <3> QED BY <2>1, FS_Difference
  <2>5. Cardinality(CreditsOf(all) \cap own) = Cardinality(own)
    BY <2>3, Zenon
  <2>6. /\ Cardinality(own) \in Nat /\ Cardinality(lent) \in Nat
        /\ Cardinality(CreditsOf(all)) \in Nat
    BY <2>1, <2>2, FS_CardinalityType
  <2> HIDE DEF own, lent, all
  <2> QED BY <2>2, <2>4, <2>5, <2>6 DEF Cost
<1>8. Cardinality(Admitted) = Cardinality(own)
  <2> DEFINE name == [c \in own |-> c[1].id]
  <2>1. name \in Surjection(own, Admitted)
    <3>1. ASSUME NEW c \in own PROVE c[1].id \in Admitted
      <4>1. PICK i \in Admitted : c = <<request[i], 0>>
        BY DEF Of
      <4> QED BY <4>1, <1>2
    <3>2. ASSUME NEW i \in Admitted PROVE \E c \in own : name[c] = i
      <4>1. <<request[i], 0>> \in own /\ name[<<request[i], 0>>] = i
        BY <1>2 DEF Of
      <4> QED BY <4>1
    <3> HIDE DEF own
    <3> QED BY <3>1, <3>2 DEF Surjection
  <2>2. name \in Injection(own, Admitted)
    <3>1. name \in [own -> Admitted]
      BY <2>1 DEF Surjection
    <3>2. ASSUME NEW c \in own, NEW d \in own, name[c] = name[d] PROVE c = d
      BY <3>2, <1>2 DEF Of
    <3> QED BY <3>1, <3>2 DEF Injection, IsInjective
  <2> HIDE DEF name, own
  <2> QED BY <1>7, <2>1, <2>2, FS_Surjection
<1>9. ASSUME NEW q \in others
      PROVE  /\ q \in Requests /\ q.id \in Admitted /\ q = request[q.id]
             /\ parent[q.id] \in Admitted
             /\ q.id \in Kids(parent[q.id]) /\ q \in Of(Kids(parent[q.id]))
  <2>1. PICK i \in Admitted \ RootIds : q = request[i]
    BY DEF Of
  <2>2. q.id = i /\ parent[i] # None /\ request[parent[i]].kind # "lead" /\ i \in Reserved
    BY <2>1, <1>2 DEF RootIds, Admitted
  <2>3. parent[i] \in Reserved /\ request[parent[i]].kind \in {"lead", "specialist"}
    BY <2>2 DEF Submitted, IInv, Recorded, RequestType
  <2> QED BY <2>1, <2>2, <2>3, <1>1 DEF Admitted, Kids, Of
<1>10. \A p \in Admitted : ExistsInjection(CreditsOf(Of(Kids(p))), share(request[p]))
  <2> SUFFICES ASSUME NEW p \in Admitted
               PROVE  ExistsInjection(CreditsOf(Of(Kids(p))), share(request[p]))
    OBVIOUS
  <2> DEFINE b == request[p].budget
  <2>1. b \in Nat
    BY <1>2 DEF RequestType
  <2>2. Cost(Of(Kids(p))) <= b
    BY DEF Accounts
  <2>3. IsFiniteSet(CreditsOf(Of(Kids(p))))
    BY <1>1, CreditsFinite
  <2>4. IsFiniteSet(share(request[p])) /\ Cardinality(share(request[p])) = b
    <3>1. IsFiniteSet({request[p]}) /\ Cardinality({request[p]}) = 1
      BY FS_Singleton, Zenon
    <3>2. 1 \in Int /\ b \in Int
      BY <2>1
    <3> HIDE DEF b
    <3>3. IsFiniteSet(1..b) /\ Cardinality(1..b) = IF 1 > b THEN 0 ELSE b - 1 + 1
      BY <3>2, FS_Interval, Zenon
    <3>4. Cardinality(1..b) = b
      BY <2>1, <3>3
    <3>5. /\ IsFiniteSet({request[p]} \X (1..b))
          /\ Cardinality({request[p]} \X (1..b)) = Cardinality({request[p]}) * Cardinality(1..b)
      BY <3>1, <3>3, FS_Product, Zenon
    <3>6. Cardinality({request[p]} \X (1..b)) = b
      BY <2>1, <3>1, <3>4, <3>5
    <3> QED BY <3>5, <3>6 DEF b
  <2> HIDE DEF b, share
  <2> QED BY <2>2, <2>3, <2>4, Fits DEF Cost
<1>11. Cost(others) <= Cardinality(lent)
  <2> DEFINE fit(p) == CHOOSE f : f \in Injection(CreditsOf(Of(Kids(p))), share(request[p]))
             g == [c \in CreditsOf(others) |-> fit(parent[c[1].id])[c]]
  <2>1. \A p \in Admitted : fit(p) \in Injection(CreditsOf(Of(Kids(p))), share(request[p]))
    <3> HIDE DEF share
    <3> SUFFICES ASSUME NEW p \in Admitted
                 PROVE  fit(p) \in Injection(CreditsOf(Of(Kids(p))), share(request[p]))
      OBVIOUS
    <3>1. ExistsInjection(CreditsOf(Of(Kids(p))), share(request[p]))
      BY <1>10, Zenon
    <3> HIDE DEF lent, own, all, others
    <3> QED BY ONLY <3>1 DEF ExistsInjection
  <2>2. ASSUME NEW c \in CreditsOf(others)
        PROVE  LET p == parent[c[1].id]
               IN  p \in Admitted /\ c \in CreditsOf(Of(Kids(p))) /\ g[c] \in share(request[p])
                   /\ g[c] = fit(p)[c]
    <3>1. PICK q \in others : c \in {q} \X (0..q.budget)
      BY DEF CreditsOf
    <3>2. parent[q.id] \in Admitted /\ q \in Of(Kids(parent[q.id])) /\ c[1] = q
      BY <3>1, <1>9
    <3>3. c \in CreditsOf(Of(Kids(parent[q.id])))
      BY <3>1, <3>2 DEF CreditsOf
    <3>4. fit(parent[q.id])[c] \in share(request[parent[q.id]])
      <4> HIDE DEF fit, share
      <4> QED BY <2>1, <3>2, <3>3 DEF Injection
    <3>5. g[c] = fit(parent[q.id])[c]
      BY <3>2
    <3> QED BY <3>2, <3>3, <3>4, <3>5, Zenon
  <2>3. \A p \in Admitted : share(request[p]) \subseteq lent
    <3> SUFFICES ASSUME NEW p \in Admitted, NEW x \in share(request[p]) PROVE x \in lent
      OBVIOUS
    <3>1. PICK k \in 1..request[p].budget : x = <<request[p], k>>
      OBVIOUS
    <3>2. request[p] \in all /\ request[p].budget \in Nat
      BY <1>2 DEF Of, RequestType
    <3>3. x \in CreditsOf(all)
      BY <3>1, <3>2 DEF CreditsOf
    <3>4. x \notin own
      BY <3>1
    <3> QED BY <3>3, <3>4
  <2>4. g \in [CreditsOf(others) -> lent]
    <3> HIDE DEF lent, share, fit
    <3> QED BY <2>2, <2>3
  <2>5. ASSUME NEW c \in CreditsOf(others), NEW d \in CreditsOf(others), g[c] = g[d] PROVE c = d
    <3> DEFINE p == parent[c[1].id]
               r == parent[d[1].id]
    <3>1. /\ p \in Admitted /\ c \in CreditsOf(Of(Kids(p)))
          /\ g[c] \in share(request[p]) /\ g[c] = fit(p)[c]
          /\ r \in Admitted /\ d \in CreditsOf(Of(Kids(r)))
          /\ g[d] \in share(request[r]) /\ g[d] = fit(r)[d]
      BY <2>2, Zenon
    <3>2. request[p] = request[r]
      <4> HIDE DEF fit, p, r, g, own, lent, all, others
      <4>1. g[c][1] = request[p] /\ g[d][1] = request[r]
        BY ONLY <3>1
      <4> QED BY <4>1, <2>5
    <3>3. p = r
      BY <3>1, <3>2, <1>3, Zenon
    <3> HIDE DEF fit, p, r, g, share
    <3> QED BY <2>1, <2>5, <3>1, <3>3, Zenon DEF Injection, IsInjective
  <2>6. g \in Injection(CreditsOf(others), lent)
    <3> HIDE DEF g, lent
    <3> QED BY <2>4, <2>5 DEF Injection, IsInjective
  <2> HIDE DEF g, lent, others
  <2> QED BY <1>7, <2>6, FS_Injection DEF Cost
<1>12. /\ Cost(roots) = creditsSpent /\ creditsSpent <= Credits
       /\ Credits \in Nat /\ creditsSpent \in Nat
  BY ConstantsAssumption DEF ConstantsAssumption, Accounts, IInv, TypeOK
<1>13. Cost(others) \in Nat
  BY <1>1, CostType
<1> HIDE DEF all, roots, others, own, lent
<1> QED BY <1>5, <1>7, <1>8, <1>11, <1>12, <1>13

(* The credits are conserved, however delegations nest and in whatever batches  *)
(* they are reserved: fleet_mission_state.py:2115-2184.                         *)
THEOREM CreditsTheorem == Spec => []CreditsConserved
<1> DEFINE CreditInv == Submitted /\ Accounts
<1>1. Init => CreditInv
  <2> SUFFICES ASSUME Init PROVE CreditInv
    OBVIOUS
  <2>1. Reserved = {} /\ Admitted = {} /\ Of(RootIds) = {}
    BY DEF Init, Reserved, Admitted, RootIds, Of
  <2>2. Cost(Of(RootIds)) = 0
    BY <2>1, CostEmpty, Zenon
  <2> QED BY <2>1, <2>2 DEF Init, Submitted, Accounts
<1>2. IInv /\ CreditInv /\ [Next]_vars => CreditInv'
  <2> SUFFICES ASSUME IInv, CreditInv, [Next]_vars PROVE CreditInv'
    OBVIOUS
  <2>1. CASE LifecycleStep \/ Tick \/ Ended \/ UNCHANGED vars
    BY <2>1, OthersKeepCredits DEF Ended
  <2>2. CASE \E B \in SUBSET Requests, actor \in {"CONTROL", "ASSURED"} :
               DelegationsReserved(B, actor)
    BY <2>2, ReserveKeepsCredits
  <2>3. CASE \E i \in Ids : AdmissionStep(i)
    BY <2>3, OthersKeepCredits
  <2> QED BY <2>1, <2>2, <2>3 DEF Next
<1>3. IInv /\ CreditInv => CreditsConserved
  <2> SUFFICES ASSUME IInv, Submitted, Accounts PROVE CreditsConserved
    OBVIOUS
  <2> QED BY SpecialistsBounded DEF Accounts, CreditsConserved, Admitted, RootIds, Kids, Of
<1> HIDE DEF CreditInv
<1> QED BY <1>1, <1>2, <1>3, InvariantTheorem, PTL DEF Spec
=============================================================================
