-------------------------- MODULE MissionAdmission --------------------------
(***************************************************************************)
(* The admission core of the mission ledger: scripts/fleet_mission_state.py *)
(* (derive_state and its helpers) with the request resolution done by       *)
(* scripts/fleet_admission.py.  One step is one event accepted by the       *)
(* reducer and published; an event the reducer rejects leaves the ledger    *)
(* unchanged and is no step.                                                *)
(*                                                                          *)
(* An admission, its run and its delegation carry ids derived one-to-one    *)
(* from (run_kind, request_key), so a single id stands for all three.       *)
(* Digests, payload bindings and the legacy (pre-admission-control) event   *)
(* forms are left out.                                                      *)
(***************************************************************************)
EXTENDS Integers, FiniteSets

CONSTANTS
  Ids,         \* admission/run identities
  Recipients,  \* fleet instances that can be admitted
  Requests,    \* the normalized requests callers may submit
  None,        \* absent id, admission or approval
  Deadline,    \* admission_policy.deadline_at, in clock ticks
  Credits,     \* admission_policy.delegation_credits
  MaxActive,   \* admission_policy.max_active_delegations
  MaxTime,     \* bound: the clock stops here
  MaxRisk      \* bound: highest value of RISK_ORDER in the model

VARIABLES
  status,           \* lifecycle status
  risk,             \* RISK_ORDER[result["risk"]]
  approval,         \* the live assurance approval, or None
  frozen,           \* is the admission policy frozen?
  clock,            \* timestamp of the next event
  request,          \* request[i]: the request admission i was reserved for
  parent,           \* parent[i]: its resolved parent_admission_id
  lane,             \* lane[i]: lane_actor
  phase,            \* phase[i]
  childSpent,       \* child_credits_spent
  runClaims,        \* runs reserved and not yet committed
  runOwners,        \* runs owned by a committed admission
  cancelled,        \* cancelled_runs
  activeRecipients, \* recipient -> its active admission
  activeWriter,     \* the active writing admission
  activeCount,      \* active_delegations
  creditsSpent,     \* delegation_credits_spent
  leadAdmission,    \* lead_admission_id
  leadRun           \* lead_run_id

lifecycle == <<status, risk, approval, frozen, clock>>
admissions == <<request, parent, lane, phase, childSpent>>
ownership == <<runClaims, runOwners, cancelled>>
indexes == <<activeRecipients, activeWriter, activeCount, creditsSpent,
             leadAdmission>>
vars == <<lifecycle, admissions, ownership, indexes, leadRun>>

Terminals == {"succeeded", "failed", "blocked", "abandoned", "indeterminate"}
ControlLane == {"compiled", "booting", "running"}
AssuredLane == {"assured_booting", "assured_running"}
Statuses == {"created", "awaiting", "assurance_approved", "completing",
             "archived"} \cup ControlLane \cup AssuredLane \cup Terminals

Active == {"reserved", "committed", "authorized", "started"}
Owning == {"committed", "authorized", "started"}
Phases == {"absent", "finalized", "aborted"} \cup Active

RequestType == [id : Ids, kind : {"lead", "specialist"},
                recipient : Recipients, writer : BOOLEAN,
                budget : Nat, parent : Ids \cup {None}]

(* Admitting a specialist costs one credit and the budget it may delegate.    *)
(* The sum is a count of credits, so that it can be reasoned about as one.    *)
CreditsOf(S) == UNION {{q} \X (0..q.budget) : q \in S}
Cost(S) == Cardinality(CreditsOf(S))

ASSUME ConstantsAssumption ==
  /\ None \notin Ids \cup {"CONTROL", "ASSURED"} \cup RequestType
  /\ Requests \subseteq RequestType /\ IsFiniteSet(Requests)
  /\ Deadline \in Nat /\ Credits \in Nat /\ MaxActive \in Nat
  /\ MaxTime \in Nat /\ MaxRisk \in Nat

Init ==
  /\ status = "created"
  /\ risk \in 0..MaxRisk
  /\ approval = None
  /\ frozen = FALSE
  /\ clock = 0
  /\ request = [i \in Ids |-> None]
  /\ parent = [i \in Ids |-> None]
  /\ lane = [i \in Ids |-> None]
  /\ phase = [i \in Ids |-> "absent"]
  /\ childSpent = [i \in Ids |-> 0]
  /\ runClaims = {} /\ runOwners = {} /\ cancelled = {}
  /\ activeRecipients = [r \in Recipients |-> None]
  /\ activeWriter = None
  /\ activeCount = 0
  /\ creditsSpent = 0
  /\ leadAdmission = None
  /\ leadRun = None

-----------------------------------------------------------------------------
(* Guards shared by the handlers.                                           *)

Live == status \notin Terminals

IsActive(i) == phase[i] \in Active

NoActiveAdmissions ==
  runClaims = {} /\ activeWriter = None /\ \A i \in Ids : ~IsActive(i)

ApprovalMatches == approval # None /\ approval.risk = risk

LiveApproval == ApprovalMatches /\ clock < approval.expires

AdmissionLane(actor) ==
  \/ actor = "CONTROL" /\ status \in ControlLane
  \/ actor = "ASSURED" /\ status \in AssuredLane /\ LiveApproval

LaunchLane(actor) ==
  \/ actor = "CONTROL" /\ status = "running"
  \/ actor = "ASSURED" /\ status = "assured_running" /\ LiveApproval

BeforeDeadline == frozen /\ clock < Deadline

ParentStartedOnly(i) == parent[i] # None => phase[parent[i]] = "started"  \* mutant
ParentStarted(i) ==
  parent[i] # None => phase[parent[i]] = "started" /\ parent[i] \notin cancelled

NoReservedChild(i) == \A c \in Ids : phase[c] = "reserved" => parent[c] # i  \* mutant
NoActiveChild(i) == \A c \in Ids : IsActive(c) => parent[c] # i

-----------------------------------------------------------------------------
(* Lifecycle events.                                                        *)

WorkflowCompiled ==
  /\ status = "created"
  /\ status' = "compiled"
  /\ UNCHANGED <<risk, approval, frozen, clock, admissions, ownership, indexes, leadRun>>

PolicyFrozen ==  \* needs the compiled_digest that workflow_compiled records
  /\ Live /\ status # "created" /\ ~frozen
  /\ frozen' = TRUE
  /\ UNCHANGED <<status, risk, approval, clock, admissions, ownership, indexes, leadRun>>

FleetBootStarted ==
  /\ status = "compiled"
  /\ status' = "booting"
  /\ UNCHANGED <<risk, approval, frozen, clock, admissions, ownership, indexes, leadRun>>

MissionRunning ==
  /\ status \in {"booting", "running"}
  /\ status' = "running"
  /\ UNCHANGED <<risk, approval, frozen, clock, admissions, ownership, indexes, leadRun>>

AssuranceRequested ==
  /\ status \in {"compiled", "running", "assured_running"}
  /\ NoActiveAdmissions
  /\ status' = "awaiting"
  /\ UNCHANGED <<risk, approval, frozen, clock, admissions, ownership, indexes, leadRun>>

AssuranceApproved(expires) ==
  /\ status = "awaiting"
  /\ clock < expires
  /\ status' = "assurance_approved"
  /\ approval' = [risk |-> risk, expires |-> expires]
  /\ UNCHANGED <<risk, frozen, clock, admissions, ownership, indexes, leadRun>>

RenewedUnderWork(expires) ==  \* mutant: renews while admissions are active
  /\ status \in {"assurance_approved", "assured_running"}
  /\ ApprovalMatches
  /\ approval.expires <= clock /\ clock < expires
  /\ approval' = [risk |-> risk, expires |-> expires]
  /\ UNCHANGED <<status, risk, frozen, clock, admissions, ownership, indexes, leadRun>>
ApprovalRenewed(expires) ==
  /\ \/ status = "assurance_approved"
     \/ status = "assured_running" /\ NoActiveAdmissions
  /\ ApprovalMatches
  /\ approval.expires <= clock /\ clock < expires
  /\ approval' = [risk |-> risk, expires |-> expires]
  /\ UNCHANGED <<status, risk, frozen, clock, admissions, ownership, indexes, leadRun>>

AssuranceBootStarted ==
  /\ status = "assurance_approved" /\ LiveApproval
  /\ status' = "assured_booting"
  /\ UNCHANGED <<risk, approval, frozen, clock, admissions, ownership, indexes, leadRun>>

AssuranceStarted ==
  /\ status = "assured_booting" /\ LiveApproval
  /\ status' = "assured_running"
  /\ UNCHANGED <<risk, approval, frozen, clock, admissions, ownership, indexes, leadRun>>

RiskEscalated(to) ==
  /\ Live /\ risk <= to
  /\ risk' = to
  /\ UNCHANGED <<status, approval, frozen, clock, admissions, ownership, indexes, leadRun>>

MissionCompleting ==
  /\ status \in {"running", "assured_running"}
  /\ NoActiveAdmissions
  /\ status' = "completing"
  /\ UNCHANGED <<risk, approval, frozen, clock, admissions, ownership, indexes, leadRun>>

ArchiveCreated ==
  /\ status = "completing"
  /\ NoActiveAdmissions
  /\ status' = "archived"
  /\ UNCHANGED <<risk, approval, frozen, clock, admissions, ownership, indexes, leadRun>>

MissionTerminal(outcome) ==
  /\ Live
  /\ NoActiveAdmissions
  /\ outcome = "succeeded" => status = "archived"
  /\ status' = outcome
  /\ UNCHANGED <<risk, approval, frozen, clock, admissions, ownership, indexes, leadRun>>

-----------------------------------------------------------------------------
(* Admission events.                                                        *)

IdsOf(B) == {q.id : q \in B}
WithId(B, i) == CHOOSE q \in B : q.id = i
Specialists(B) == {q \in B : q.kind = "specialist"}
Leads(B) == {q \in B : q.kind = "lead"}
Writers(B) == {q \in B : q.writer}

(* A CONTROL specialist that names no parent is bound to the Lead, durable  *)
(* or submitted in the same batch.                                          *)
ResolvedParent(B, q, actor) ==
  IF q.kind = "lead" \/ q.parent # None \/ actor # "CONTROL" THEN q.parent
  ELSE IF leadAdmission # None THEN leadAdmission
  ELSE IF Leads(B) # {} THEN (CHOOSE l \in Leads(B) : TRUE).id
  ELSE None

KindOf(B, i) == IF i \in IdsOf(B) THEN WithId(B, i).kind ELSE request[i].kind

ChildrenIn(B, i, actor) == {q \in Specialists(B) : ResolvedParent(B, q, actor) = i}

ParentlessRoots(B, actor) ==  \* mutant: the Lead's children are free
  {q \in Specialists(B) : ResolvedParent(B, q, actor) = None}

(* Specialists paid for by the mission: no parent, or the Lead.              *)
Roots(B, actor) ==
  {q \in Specialists(B) :
     LET p == ResolvedParent(B, q, actor)
     IN  p = None \/ KindOf(B, p) = "lead"}

PermittedParent(B, p, actor) ==
  p # None /\ p \notin IdsOf(B) =>
    IsActive(p) /\ lane[p] = actor /\ p \notin cancelled

(* Every id whose child in B debits it: its spending stays within its budget. *)
WithinParentBudgets(B, actor) ==
  \A p \in Ids :
    ChildrenIn(B, p, actor) # {} /\ KindOf(B, p) = "specialist" =>
      LET spent == IF p \in IdsOf(B) THEN 0 ELSE childSpent[p]
          budget == IF p \in IdsOf(B) THEN WithId(B, p).budget ELSE request[p].budget
      IN  spent + Cost(ChildrenIn(B, p, actor)) <= budget

WithinCredits(B, actor) == creditsSpent + Cost(Roots(B, actor)) <= Credits

Acyclic(B, actor) ==
  \A S \in SUBSET B \ {{}} :
    \E q \in S : ResolvedParent(B, q, actor) \notin IdsOf(S)

WellFormedBatch(B) ==
  /\ B # {}
  /\ \A p, q \in B : p # q => p.id # q.id /\ p.recipient # q.recipient
  /\ \A p, q \in Writers(B) : p = q
  /\ \A p, q \in Leads(B) : p = q
  /\ \A q \in Leads(B) : q.parent = None /\ q.budget = 0

DelegationsReserved(B, actor) ==
  LET ids == IdsOf(B)
      parentOf(i) == ResolvedParent(B, WithId(B, i), actor)
      debit(i) == IF KindOf(B, i) = "specialist" THEN Cost(ChildrenIn(B, i, actor)) ELSE 0
  IN
  /\ AdmissionLane(actor) /\ BeforeDeadline
  /\ WellFormedBatch(B)
  /\ \A q \in B :
       /\ phase[q.id] = "absent"
       /\ q.id \notin runClaims \cup runOwners
       /\ activeRecipients[q.recipient] = None
       /\ q.writer => activeWriter = None
       /\ PermittedParent(B, ResolvedParent(B, q, actor), actor)
  /\ Leads(B) # {} => leadAdmission = None /\ leadRun = None
  /\ activeCount + Cardinality(Specialists(B)) <= MaxActive
  /\ WithinCredits(B, actor)
  /\ WithinParentBudgets(B, actor)
  /\ Acyclic(B, actor)
  /\ request' = [i \in Ids |-> IF i \in ids THEN WithId(B, i) ELSE request[i]]
  /\ parent' = [i \in Ids |-> IF i \in ids THEN parentOf(i) ELSE parent[i]]
  /\ lane' = [i \in Ids |-> IF i \in ids THEN actor ELSE lane[i]]
  /\ phase' = [i \in Ids |-> IF i \in ids THEN "reserved" ELSE phase[i]]
  /\ childSpent' = [i \in Ids |->
       IF i \in ids THEN debit(i)
       ELSE IF ChildrenIn(B, i, actor) # {} THEN childSpent[i] + debit(i)
       ELSE childSpent[i]]
  /\ runClaims' = runClaims \cup ids
  /\ activeRecipients' = [r \in Recipients |->
       IF \E q \in B : q.recipient = r
       THEN (CHOOSE q \in B : q.recipient = r).id ELSE activeRecipients[r]]
  /\ activeWriter' = IF Writers(B) # {} THEN (CHOOSE q \in Writers(B) : TRUE).id
                                        ELSE activeWriter
  /\ activeCount' = activeCount + Cardinality(Specialists(B))
  /\ creditsSpent' = creditsSpent + Cost(Roots(B, actor))
  /\ leadAdmission' = IF Leads(B) # {} THEN (CHOOSE q \in Leads(B) : TRUE).id
                                       ELSE leadAdmission
  /\ UNCHANGED <<lifecycle, runOwners, cancelled, leadRun>>

DelegationCommitted(i) ==
  /\ AdmissionLane(lane[i]) /\ BeforeDeadline
  /\ phase[i] = "reserved"
  /\ i \in runClaims /\ i \notin runOwners
  /\ ParentStarted(i)
  /\ phase' = [phase EXCEPT ![i] = "committed"]
  /\ runClaims' = runClaims \ {i}
  /\ runOwners' = runOwners \cup {i}
  /\ UNCHANGED <<lifecycle, request, parent, lane, childSpent, cancelled, indexes, leadRun>>

LaunchAuthorized(i) ==
  /\ LaunchLane(lane[i]) /\ BeforeDeadline
  /\ phase[i] = "committed"
  /\ i \notin cancelled
  /\ ParentStarted(i)
  /\ phase' = [phase EXCEPT ![i] = "authorized"]
  /\ UNCHANGED <<lifecycle, request, parent, lane, childSpent, ownership, indexes, leadRun>>

DelegationStarted(i) ==
  /\ Live /\ phase[i] = "authorized"
  /\ phase' = [phase EXCEPT ![i] = "started"]
  /\ UNCHANGED <<lifecycle, request, parent, lane, childSpent, ownership, indexes, leadRun>>

ReleaseKeepingWriter(i) ==  \* mutant: forgets the active writer
  /\ activeCount' = IF request[i].kind = "specialist" THEN activeCount - 1 ELSE activeCount
  /\ activeRecipients' = [r \in Recipients |->
       IF r = request[i].recipient /\ activeRecipients[r] = i THEN None
       ELSE activeRecipients[r]]
  /\ UNCHANGED activeWriter
(* _release_admission: leave every index of active admissions.              *)
Release(i) ==
  /\ activeCount' = IF request[i].kind = "specialist" THEN activeCount - 1 ELSE activeCount
  /\ activeRecipients' = [r \in Recipients |->
       IF r = request[i].recipient /\ activeRecipients[r] = i THEN None
       ELSE activeRecipients[r]]
  /\ activeWriter' = IF activeWriter = i THEN None ELSE activeWriter

DelegationFinalized(i) ==
  /\ Live /\ phase[i] \in Owning
  /\ NoActiveChild(i)
  /\ phase' = [phase EXCEPT ![i] = "finalized"]
  /\ Release(i)
  /\ UNCHANGED <<lifecycle, request, parent, lane, childSpent, ownership, creditsSpent,
                 leadAdmission, leadRun>>

ReservationAborted(i) ==
  /\ Live /\ phase[i] \in {"reserved", "committed"}
  /\ NoActiveChild(i)
  /\ phase' = [phase EXCEPT ![i] = "aborted"]
  /\ \/ phase[i] = "reserved" /\ runClaims' = runClaims \ {i} /\ UNCHANGED runOwners
     \/ phase[i] = "committed" /\ runOwners' = runOwners \ {i} /\ UNCHANGED runClaims
  /\ Release(i)
  /\ UNCHANGED <<lifecycle, request, parent, lane, childSpent, cancelled, creditsSpent,
                 leadAdmission, leadRun>>

LeadDispatched(i) ==
  /\ Live /\ leadRun = None
  /\ i \in runOwners /\ request[i].kind = "lead" /\ phase[i] = "started"
  /\ leadRun' = i
  /\ UNCHANGED <<lifecycle, admissions, ownership, indexes>>

RunCancelRequested(i) ==
  /\ Live /\ i \in runOwners
  /\ cancelled' = cancelled \cup {i}
  /\ UNCHANGED <<lifecycle, admissions, runClaims, runOwners, indexes, leadRun>>

Tick ==
  /\ clock < MaxTime
  /\ clock' = clock + 1
  /\ UNCHANGED <<status, risk, approval, frozen, admissions, ownership, indexes, leadRun>>

(* The ledger of a terminal mission is immutable.                           *)
Ended == ~Live /\ UNCHANGED vars

LifecycleStep ==
  \/ WorkflowCompiled \/ PolicyFrozen \/ FleetBootStarted \/ MissionRunning
  \/ AssuranceRequested \/ AssuranceBootStarted \/ AssuranceStarted
  \/ MissionCompleting \/ ArchiveCreated
  \/ \E e \in 1..MaxTime + 1 : AssuranceApproved(e) \/ ApprovalRenewed(e)
  \/ \E r \in 0..MaxRisk : RiskEscalated(r)
  \/ \E o \in Terminals : MissionTerminal(o)

AdmissionStep(i) ==
  \/ DelegationCommitted(i) \/ LaunchAuthorized(i) \/ DelegationStarted(i)
  \/ DelegationFinalized(i) \/ ReservationAborted(i)
  \/ LeadDispatched(i) \/ RunCancelRequested(i)

Next ==
  \/ LifecycleStep
  \/ \E B \in SUBSET Requests, actor \in {"CONTROL", "ASSURED"} :
       DelegationsReserved(B, actor)
  \/ \E i \in Ids : AdmissionStep(i)
  \/ Tick
  \/ Ended

Spec == Init /\ [][Next]_vars

(* The admissions a controller collects once their run has ended: the Lead,   *)
(* its direct children (_finalize_lead), and a run of the assured runner,     *)
(* which waits for it (_finalize_effect).                                     *)
Collected(i) ==
  /\ phase[i] = "started"
  /\ \/ request[i].kind = "lead"
     \/ parent[i] # None /\ request[parent[i]].kind = "lead"
     \/ parent[i] = None /\ lane[i] = "ASSURED"

(* A child nobody collects, or one with an active child of its own, makes     *)
(* _finalize_lead raise: it may do so before it reaches that child's siblings. *)
Blocked(p) ==
  \E c \in Ids : IsActive(c) /\ parent[c] = p /\ ~(Collected(c) /\ NoActiveChild(c))

Held(i) == Blocked(i) \/ (parent[i] # None /\ Blocked(parent[i]))

Collect == \E i \in Ids : Collected(i) /\ ~Held(i) /\ DelegationFinalized(i)

FairSpec == Spec /\ WF_vars(Collect)

-----------------------------------------------------------------------------
(* Properties.                                                               *)

(* Every variable of the derived state stays within its domain. *)
TypeOK ==
  /\ status \in Statuses
  /\ risk \in 0..MaxRisk
  /\ approval = None \/ approval \in [risk : 0..MaxRisk, expires : 1..MaxTime + 1]
  /\ frozen \in BOOLEAN
  /\ clock \in 0..MaxTime
  /\ request \in [Ids -> RequestType \cup {None}]
  /\ parent \in [Ids -> Ids \cup {None}]
  /\ lane \in [Ids -> {"CONTROL", "ASSURED", None}]
  /\ phase \in [Ids -> Phases]
  /\ childSpent \in [Ids -> Nat]
  /\ runClaims \in SUBSET Ids /\ runOwners \in SUBSET Ids /\ cancelled \in SUBSET Ids
  /\ activeRecipients \in [Recipients -> Ids \cup {None}]
  /\ activeWriter \in Ids \cup {None}
  /\ activeCount \in Int
  /\ creditsSpent \in 0..Credits
  /\ leadAdmission \in Ids \cup {None}
  /\ leadRun \in Ids \cup {None}

Reserved == {i \in Ids : phase[i] # "absent"}

(* A child never outlives its parent and never runs before it: while a child  *)
(* is active its parent is active in the same lane, and a committed or        *)
(* launched child has a started parent, whatever the order in which parent    *)
(* and child are reserved, committed, cancelled, aborted and finalized.       *)
LineageSound ==
  \A i \in Ids : IsActive(i) /\ parent[i] # None =>
    /\ IsActive(parent[i]) /\ lane[parent[i]] = lane[i]
    /\ phase[i] \in Owning => phase[parent[i]] = "started"

(* The mission never has two active writers, nor two active admissions on     *)
(* one fleet instance, and the indexes the reducer consults name exactly the  *)
(* active admissions.                                                         *)
ExclusiveActivity ==
  /\ \A i \in Ids : IsActive(i) /\ request[i].writer <=> activeWriter = i
  /\ \A i \in Ids, r \in Recipients :
       IsActive(i) /\ request[i].recipient = r <=> activeRecipients[r] = i

(* active_delegations counts the active specialists and respects the frozen   *)
(* maximum through every release path.                                        *)
ActiveCountExact ==
  /\ activeCount = Cardinality({i \in Ids : IsActive(i) /\ request[i].kind = "specialist"})
  /\ activeCount <= MaxActive

(* A run is claimed exactly while its admission is reserved, owned from its   *)
(* commit on unless aborted, and the mission has one Lead at most, dispatched *)
(* only after its admission started.                                          *)
RunOwnershipExact ==
  /\ \A i \in Ids : i \in runClaims <=> phase[i] = "reserved"
  /\ \A i \in Ids : i \in runOwners <=> phase[i] \in Owning \cup {"finalized"}
  /\ \A i \in Reserved : request[i].kind = "lead" <=> leadAdmission = i
  /\ leadRun # None => leadRun = leadAdmission /\ phase[leadRun] \in {"started", "finalized"}

(* No admission of one authority lane is active once the mission has left     *)
(* that lane, and none at all while it awaits approval, completes, is         *)
(* archived or has ended.                                                     *)
LaneIsolation ==
  \A i \in Ids : IsActive(i) =>
    \/ lane[i] = "CONTROL" /\ status \in ControlLane
    \/ lane[i] = "ASSURED" /\ status \in AssuredLane

(* Credits are conserved: what the mission spent is what its root             *)
(* specialists cost, what a specialist's children spent stays within its      *)
(* delegated budget, and so no nesting of delegations ever admits more        *)
(* specialists than the frozen credit pool.                                   *)
CreditsConserved ==
  LET specialists == {i \in Reserved : request[i].kind = "specialist"}
      paidBy(p) == Cost({request[i] : i \in {c \in specialists : parent[c] = p}})
      roots == {i \in specialists : parent[i] = None \/ request[parent[i]].kind = "lead"}
  IN
  /\ creditsSpent = Cost({request[i] : i \in roots})
  /\ \A i \in specialists : childSpent[i] = paidBy(i) /\ childSpent[i] <= request[i].budget
  /\ Cardinality(specialists) <= Credits

(* The approval an ASSURED admission was reserved under cannot be replaced    *)
(* or renewed under it: while one is active, the approval stays what it was.  *)
ApprovalPinned ==
  [][(\E i \in Ids : IsActive(i) /\ lane[i] = "ASSURED") => approval' = approval]_vars

(* A cancellation cuts off every later launch: a run cancelled, or whose      *)
(* parent was cancelled, before its launch was authorized is never started.   *)
CancellationCutsLaunch ==
  [][\A i \in Ids :
       /\ i \in cancelled \/ parent[i] \in cancelled
       /\ phase[i] \notin {"authorized", "started", "finalized"}
       => phase'[i] \notin {"authorized", "started"}]_vars

(* What was reserved is never reserved again nor rewritten: a settled          *)
(* admission keeps its phase, and a launched one cannot be aborted.           *)
AdmissionsImmutable ==
  [][\A i \in Reserved :
       /\ request'[i] = request[i] /\ parent'[i] = parent[i] /\ lane'[i] = lane[i]
       /\ phase[i] \in {"finalized", "aborted"} => phase'[i] = phase[i]
       /\ phase[i] \in {"authorized", "started"} => phase'[i] # "aborted"]_vars

=============================================================================
