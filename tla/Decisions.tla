------------------------------ MODULE Decisions ------------------------------
(***************************************************************************)
(* Human decisions of a mission: the Decision Briefs the Lead publishes    *)
(* (fleet_control.py request_decision), their resolution by a human or by  *)
(* default (fleet_decisions.py), what they hold up in the mission ledger   *)
(* (fleet_mission_state.py) and the outbox that wakes the human up         *)
(* (deliver_due_decision_notification).                                    *)
(*                                                                         *)
(* A process delivers a due notification under the send lock of the        *)
(* mission, or reconciles expired decisions before a dispatch or a         *)
(* completion; the notification thread of the service only delivers.  It   *)
(* may be killed between any two steps: the system then frees its lock.    *)
(* Each transaction on the mission ledger is one step, each read another.  *)
(***************************************************************************)
EXTENDS Naturals, FiniteSets

CONSTANTS
    Ids,         \* decisions
    Instances,
    Affected,    \* decision -> the instances it names
    Blocking,    \* decisions with impact=blocking; the others are checkpoints
    Defaults,    \* low-risk reversible decisions with a default option
    Procs,
    Worker,      \* the notification thread of the service, one of Procs
    MaxCrashes,  \* bound: how many processes are killed
    MaxRejects,  \* bound: how often cmux rejects a notification
    None

ASSUME ConstantsAssumption ==
    /\ IsFiniteSet(Ids)
    /\ Affected \in [Ids -> SUBSET Instances]
    /\ Blocking \subseteq Ids /\ Defaults \subseteq Ids
    /\ MaxCrashes \in Nat /\ MaxRejects \in Nat
    /\ Worker \in Procs /\ None \notin Procs \cup Ids

VARIABLES
    status,    \* decision -> none, pending or resolved
    answer,    \* decision -> who resolved it
    delivery,  \* decision -> status of its notification
    due,       \* open decisions whose next attempt is due
    overdue,   \* open decisions whose two hours are over
    active,    \* active_recipients
    mission,   \* running or completing
    lock,      \* holder of .decision-notification.lock
    at,        \* process -> its next step
    claim,     \* process -> the decision whose attempt it claimed
    verdict,   \* process -> what its notifier returned
    batch,     \* process -> decisions it is about to resolve by default
    tries,     \* process -> how often it has read the ledger for that
    raised,    \* processes whose last reconciliation failed on a conflict
    shown,     \* decision -> how often the human was woken up
    crashes, rejects

ledger == <<status, answer, delivery, active, mission>>
time == <<due, overdue>>
sender == <<lock, claim, verdict, shown, rejects>>
reconciler == <<batch, tries, raised>>
vars == <<ledger, time, sender, reconciler, at, crashes>>

Verdicts == {"accepted", "rejected", "indeterminate"}
Retryable == {"pending", "rejected"}
Deliveries == {"none", "pending", "in_flight", "closed"} \cup Verdicts

TypeOK ==
    /\ status \in [Ids -> {"none", "pending", "resolved"}]
    /\ answer \in [Ids -> {"none", "human", "control"}]
    /\ delivery \in [Ids -> Deliveries]
    /\ due \subseteq Ids /\ overdue \subseteq Ids
    /\ active \subseteq Instances
    /\ mission \in {"running", "completing"}
    /\ lock \in Procs \cup {None}
    /\ at \in [Procs -> {"idle", "claim", "notify", "settle", "apply"}]
    /\ claim \in [Procs -> Ids \cup {None}]
    /\ verdict \in [Procs -> Verdicts \cup {None}]
    /\ batch \in [Procs -> SUBSET Ids]
    /\ tries \in [Procs -> Nat]
    /\ raised \subseteq Procs
    /\ shown \in [Ids -> Nat]
    /\ crashes \in Nat /\ rejects \in Nat

Init ==
    /\ status = [d \in Ids |-> "none"]
    /\ answer = [d \in Ids |-> "none"]
    /\ delivery = [d \in Ids |-> "none"]
    /\ due = {} /\ overdue = {}
    /\ active = {}
    /\ mission = "running"
    /\ lock = None
    /\ at = [p \in Procs |-> "idle"]
    /\ claim = [p \in Procs |-> None]
    /\ verdict = [p \in Procs |-> None]
    /\ batch = [p \in Procs |-> {}]
    /\ tries = [p \in Procs |-> 0]
    /\ raised = {}
    /\ shown = [d \in Ids |-> 0]
    /\ crashes = 0 /\ rejects = 0

Pending == {d \in Ids : status[d] = "pending"}

----------------------------------------------------------------------------
(* The mission ledger.                                                     *)

\* The brief and the enqueueing of its notification are one append.  A blocking
\* brief needs the instances it names to be quiet.
Request(d) ==
    /\ status[d] = "none" /\ mission = "running"
    /\ d \in Blocking => Affected[d] \cap active = {}
    /\ status' = [status EXCEPT ![d] = "pending"]
    /\ delivery' = [delivery EXCEPT ![d] = "pending"]
    /\ due' = due \cup {d}
    /\ UNCHANGED <<answer, active, mission, overdue, sender, reconciler, at, crashes>>

\* What the reducer makes of a set of resolutions, all "who"'s.
Resolved(R, who) ==
    /\ status' = [d \in Ids |-> IF d \in R THEN "resolved" ELSE status[d]]
    /\ answer' = [d \in Ids |-> IF d \in R THEN who ELSE answer[d]]
    /\ delivery' = [d \in Ids |->
        IF d \in R /\ delivery[d] \in Retryable THEN "closed" ELSE delivery[d]]
    /\ due' = due \ R /\ overdue' = overdue \ R

\* resolve_human.
ResolveHuman(d) ==
    /\ d \in Pending
    /\ Resolved({d}, "human")
    /\ UNCHANGED <<active, mission, sender, reconciler, at, crashes>>

\* A specialist is admitted: not while a blocking decision names its instance.
HeldInTime(i) == \E d \in (Blocking \cap Pending) \ overdue : i \in Affected[d]  \* mutant: its two hours over, a decision holds nothing up
Held(i) == \E d \in Blocking \cap Pending : i \in Affected[d]
Admit(i) ==
    /\ mission = "running" /\ i \notin active /\ ~Held(i)
    /\ active' = active \cup {i}
    /\ UNCHANGED <<status, answer, delivery, mission, time, sender, reconciler, at, crashes>>

Leave(i) ==
    /\ i \in active
    /\ active' = active \ {i}
    /\ UNCHANGED <<status, answer, delivery, mission, time, sender, reconciler, at, crashes>>

Complete ==
    /\ mission = "running" /\ active = {} /\ Pending = {}
    /\ mission' = "completing"
    /\ UNCHANGED <<status, answer, delivery, active, time, sender, reconciler, at, crashes>>

TwoHoursPass(d) ==
    /\ d \in Pending \ overdue
    /\ overdue' = overdue \cup {d}
    /\ UNCHANGED <<ledger, due, sender, reconciler, at, crashes>>

BackoffPasses(d) ==
    /\ delivery[d] = "rejected" /\ d \in Pending \ due
    /\ due' = due \cup {d}
    /\ UNCHANGED <<ledger, overdue, sender, reconciler, at, crashes>>

----------------------------------------------------------------------------
(* Delivery, under the send lock.                                          *)

\* What _claim_due_decision_notification may claim.
ClaimableInFlight == {d \in Pending : delivery[d] \in {"pending", "rejected", "in_flight"}}  \* mutant: ambiguous attempts are repeated
Claimable == {d \in Pending \cap due : delivery[d] \in Retryable}

\* The lock is tried, not awaited; without a due notification the call returns.
Begin(p) ==
    /\ at[p] = "idle" /\ lock = None /\ Claimable # {}
    /\ lock' = p
    /\ at' = [at EXCEPT ![p] = "claim"]
    /\ UNCHANGED <<ledger, time, claim, verdict, shown, rejects, reconciler, crashes>>

Idle(p) ==
    /\ at' = [at EXCEPT ![p] = "idle"]
    /\ lock' = IF lock = p THEN None ELSE lock
    /\ claim' = [claim EXCEPT ![p] = None]
    /\ verdict' = [verdict EXCEPT ![p] = None]

\* An attempt is claimed, durably, before cmux is touched: the call that published a
\* decision claims that one, the worker the first by name, which may be any.
Claim(p) ==
    /\ at[p] = "claim"
    /\ \/ Claimable = {} /\ Idle(p) /\ UNCHANGED <<delivery, due>>
       \/ \E d \in Claimable :
            /\ delivery' = [delivery EXCEPT ![d] = "in_flight"]
            /\ due' = due \ {d}
            /\ claim' = [claim EXCEPT ![p] = d]
            /\ at' = [at EXCEPT ![p] = "notify"]
            /\ UNCHANGED <<lock, verdict>>
    /\ UNCHANGED <<status, answer, active, mission, overdue, shown, rejects, reconciler, crashes>>

\* cmux notify: exit zero is acceptance, another exit a rejection, a timeout or an
\* error of the notifier is neither.
Notify(p) ==
    /\ at[p] = "notify"
    /\ \E v \in Verdicts, woken \in BOOLEAN :
        /\ v = "accepted" => woken
        /\ v = "rejected" => ~woken /\ rejects < MaxRejects
        /\ verdict' = [verdict EXCEPT ![p] = v]
        /\ shown' = IF woken THEN [shown EXCEPT ![claim[p]] = @ + 1] ELSE shown
        /\ rejects' = IF v = "rejected" THEN rejects + 1 ELSE rejects
    /\ at' = [at EXCEPT ![p] = "settle"]
    /\ UNCHANGED <<ledger, time, lock, claim, reconciler, crashes>>

RetriedOnce(d, v) == IF v = "rejected" THEN "closed" ELSE v  \* mutant: a rejection ends the outbox entry
\* The outcome of an attempt: a rejected one may be repeated while the decision is open.
Outcome(d, v) == IF v = "rejected" /\ status[d] # "pending" THEN "closed" ELSE v

\* The receipt is appended, or the append fails and the attempt stays in flight.
Settle(p) ==
    /\ at[p] = "settle"
    /\ \E written \in BOOLEAN :
        delivery' = IF written
                    THEN [delivery EXCEPT ![claim[p]] = Outcome(claim[p], verdict[p])]
                    ELSE delivery
    /\ Idle(p)
    /\ UNCHANGED <<status, answer, active, mission, time, shown, rejects, reconciler, crashes>>

----------------------------------------------------------------------------
(* reconcile_expired.                                                      *)

EligibleEarly == Pending \cap Defaults  \* mutant: without the deadline
\* Whose default applies: read from a snapshot.
Eligible == Pending \cap Defaults \cap overdue

Load(p) ==
    /\ p # Worker /\ at[p] = "idle" /\ Eligible # {}
    /\ batch' = [batch EXCEPT ![p] = Eligible]
    /\ tries' = [tries EXCEPT ![p] = 1]
    /\ raised' = raised \ {p}
    /\ at' = [at EXCEPT ![p] = "apply"]
    /\ UNCHANGED <<ledger, time, sender, crashes>>

\* The reducer takes a batch whole or not at all: each decision is pending and over
\* its deadline, or the same default was applied before and is returned.
Acceptable(R) == \A d \in R : d \in Pending \cap overdue \/ answer[d] = "control"

Returns(p) ==
    /\ at' = [at EXCEPT ![p] = "idle"]
    /\ batch' = [batch EXCEPT ![p] = {}]
    /\ tries' = [tries EXCEPT ![p] = 0]

Apply(p) ==
    /\ at[p] = "apply" /\ Acceptable(batch[p])
    /\ Resolved({d \in batch[p] : answer[d] # "control"}, "control")
    /\ Returns(p)
    /\ UNCHANGED <<active, mission, sender, raised, crashes>>

Rereads == 2
\* A human was faster: the ledger is read again once, then the call fails.
Conflict(p) ==
    /\ at[p] = "apply" /\ ~Acceptable(batch[p])
    /\ LET left == batch[p] \cap Pending IN
       IF tries[p] < Rereads /\ left # {}
       THEN /\ batch' = [batch EXCEPT ![p] = left]
            /\ tries' = [tries EXCEPT ![p] = @ + 1]
            /\ UNCHANGED <<at, raised>>
       ELSE /\ Returns(p)
            /\ raised' = IF tries[p] < Rereads THEN raised ELSE raised \cup {p}
    /\ UNCHANGED <<ledger, time, sender, crashes>>

----------------------------------------------------------------------------
Crash(p) ==
    /\ at[p] # "idle" /\ crashes < MaxCrashes
    /\ crashes' = crashes + 1
    /\ Idle(p)
    /\ batch' = [batch EXCEPT ![p] = {}]
    /\ tries' = [tries EXCEPT ![p] = 0]
    /\ UNCHANGED <<ledger, time, shown, rejects, raised>>

Proceed(p) == Claim(p) \/ Notify(p) \/ Settle(p) \/ Apply(p) \/ Conflict(p)

Next ==
    \/ \E d \in Ids : Request(d) \/ ResolveHuman(d) \/ TwoHoursPass(d) \/ BackoffPasses(d)
    \/ \E i \in Instances : Admit(i) \/ Leave(i)
    \/ Complete
    \/ \E p \in Procs : Begin(p) \/ Load(p) \/ Proceed(p) \/ Crash(p)

Spec == Init /\ [][Next]_vars

\* Processes go on, the service's worker keeps looking for due notifications, calls
\* that reconcile keep coming, and a backoff ends.
FairSpec ==
    /\ Spec
    /\ \A p \in Procs : WF_vars(Proceed(p))
    /\ WF_vars(Begin(Worker))
    /\ WF_vars(\E p \in Procs : Load(p))
    /\ \A d \in Ids : WF_vars(BackoffPasses(d))

----------------------------------------------------------------------------
(* Properties.                                                             *)

\* The human is woken up at most once for a decision, whoever delivers and is killed,
\* and whatever receipt is lost (README.md, "preventing duplicate wake-ups").
WokenOnce == \A d \in Ids : shown[d] <= 1

\* While a blocking decision is open no instance it names is at work, and a mission
\* completes without open decisions, although requests, admissions, resolutions and
\* completion are each checked against a state the others may just have changed.
DecisionsBind ==
    /\ \A d \in Blocking \cap Pending : Affected[d] \cap active = {}
    /\ mission = "completing" => Pending = {}

\* The first answer stays: no automatic default replaces a human's, or the reverse,
\* although reconcile_expired works from a snapshot.
FirstAnswerStays ==
    [][\A d \in Ids : answer[d] # "none" => answer'[d] = answer[d]]_vars

\* A reconciliation, and the dispatch or completion it is part of, fails only when
\* humans answered two of its decisions under it.
RaisedAfterTwo == raised # {} => Cardinality({d \in Ids : answer[d] = "human"}) >= 2

\* A default that is due comes to be applied unless somebody answers first: no other
\* decision, conflict or killed process is in its way for good.
DefaultsApply == \A d \in Defaults : d \in overdue \cap Pending ~> status[d] = "resolved"

\* The notification of a decision comes to be accepted or given up as ambiguous, or the
\* decision is answered: a rejection is not the end of it.
WakeUpsSettle ==
    \A d \in Ids : d \in Pending ~>
        status[d] = "resolved" \/ delivery[d] \in {"accepted", "indeterminate", "in_flight"}
=============================================================================
