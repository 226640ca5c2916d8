------------------------------ MODULE Dispatch ------------------------------
(***************************************************************************)
(* dispatch and wait of Fleet Control (scripts/fleet_control.py) over the  *)
(* two ledgers they keep in step: the mission ledger with the admission,   *)
(* token, intent, registration and result of a request, and the lifecycle  *)
(* ledger of the feature with what became of its run.                      *)
(*                                                                         *)
(* A request is known by its idempotency key; its delegation, admission,   *)
(* token and run ids are derived from the key, so one name stands for all. *)
(* Any caller (a connection of the control service, a command line) may    *)
(* dispatch or await any request at any time, also one that another caller *)
(* is busy with, and may be killed or time out between any two steps; what *)
(* it was doing is then done again, or not, by whoever calls next.         *)
(*                                                                         *)
(* Each transaction on the mission ledger is one step (MissionTransaction  *)
(* shows why it may be) and so is each command of fleet-dispatch.sh or     *)
(* fleet-send.sh that reads or changes a lease, the ledger or the pane.    *)
(***************************************************************************)
EXTENDS Naturals

CONSTANTS
    Ids,          \* requests
    Instances,
    RecipientOf,  \* the instance a request is for
    Interactive,  \* instances whose manifest says runner=interactive; the others are local
    Writers,      \* requests to write, all for the one instance that may
    Callers,
    MaxStops,     \* bound: how many calls may be cut short
    None          \* no request

ASSUME ConstantsAssumption ==
    /\ RecipientOf \in [Ids -> Instances]
    /\ Interactive \subseteq Instances
    /\ Writers \subseteq Ids
    /\ \A a, b \in Writers : RecipientOf[a] = RecipientOf[b]
    /\ MaxStops \in Nat
    /\ None \notin Ids

VARIABLES
    phase,       \* admission phase
    token,       \* none, issued or bound
    intents,     \* requests with a delegation_dispatch_intent
    registered,  \* current["delegations"]
    results,     \* current["results"]
    late,        \* the admission deadline has passed
    lead,        \* the Lead: running, over (its run is terminal) or finalized (its admission is)
    log,         \* request -> status of the latest event of its run
    lease,       \* instance -> owner of its lease
    sent,        \* request -> how often its task was submitted in the pane
    at,          \* caller -> its next step
    job,         \* caller -> the request it is at
    saw,         \* caller -> phase in the state it read before commit
    stops        \* calls cut short so far

mission == <<phase, token, intents, registered, results, late, lead>>
fleet == <<log, lease, sent>>
calls == <<at, job, saw, stops>>
vars == <<mission, fleet, calls>>

Phases == {"absent", "reserved", "committed", "authorized", "started", "finalized"}
Active == {"reserved", "committed", "authorized", "started"}
Owning == {"committed", "authorized", "started"}
Granted == {"authorized", "started", "finalized"}
Terminal == {"succeeded", "abandoned", "indeterminate"}
Statuses == {"none", "preparing", "dispatched", "authorized"} \cup Terminal
DispatchSteps == {"reserve", "issue", "bind", "intent", "commit", "look", "authorize"}
WrapperSteps == {"check", "prepare", "acquire", "record", "submit", "confirm",
                 "undo", "release", "spoil", "doubt"}
WaitSteps == {"result", "finalize"}
Steps == {"idle", "mark", "register"} \cup DispatchSteps \cup WrapperSteps \cup WaitSteps

TypeOK ==
    /\ phase \in [Ids -> Phases]
    /\ token \in [Ids -> {"none", "issued", "bound"}]
    /\ intents \subseteq Ids /\ registered \subseteq Ids /\ results \subseteq Ids
    /\ late \in BOOLEAN
    /\ lead \in {"running", "over", "finalized"}
    /\ log \in [Ids -> Statuses]
    /\ lease \in [Instances -> Ids \cup {None}]
    /\ sent \in [Ids -> Nat]
    /\ at \in [Callers -> Steps]
    /\ job \in [Callers -> Ids \cup {None}]
    /\ saw \in [Callers -> Phases]
    /\ stops \in Nat

Init ==
    /\ phase = [a \in Ids |-> "absent"]
    /\ token = [a \in Ids |-> "none"]
    /\ intents = {} /\ registered = {} /\ results = {}
    /\ late = FALSE
    /\ lead = "running"
    /\ log = [a \in Ids |-> "none"]
    /\ lease = [i \in Instances |-> None]
    /\ sent = [a \in Ids |-> 0]
    /\ at = [c \in Callers |-> "idle"]
    /\ job = [c \in Callers |-> None]
    /\ saw = [c \in Callers |-> "absent"]
    /\ stops = 0

LeaseOf(a) == lease[RecipientOf[a]]
IsInteractive(a) == RecipientOf[a] \in Interactive

----------------------------------------------------------------------------
(* A call: where it stands.  Returning and raising both end it.            *)

\* Calls are forgotten when they end.
Returned(c) ==
    /\ at' = [at EXCEPT ![c] = "idle"]
    /\ job' = [job EXCEPT ![c] = None]
    /\ saw' = [saw EXCEPT ![c] = "absent"]
    /\ UNCHANGED stops
Goes(c, step) == at' = [at EXCEPT ![c] = step] /\ UNCHANGED <<job, saw, stops>>

\* The caller of a request at a step of its call.
At(c, step) == at[c] = step /\ job[c] \in Ids

\* Goes on when the code does, raises when it does not; nothing else changes.
Checks(c, ok, step) == IF ok THEN Goes(c, step) ELSE Returned(c)

----------------------------------------------------------------------------
(* dispatch: admission, token, intent, commit, authorization.              *)

\* A writer's delegation without a result keeps every writer out.
WriterBusy(a) == a \in Writers /\ \E b \in Writers \cap registered : b \notin results

\* A registered delegation is returned as it is.
Call(c, a) ==
    /\ at[c] = "idle"
    /\ lead # "finalized"
    /\ ~WriterBusy(a) /\ a \notin registered
    /\ at' = [at EXCEPT ![c] = "reserve"]
    /\ job' = [job EXCEPT ![c] = a]
    /\ UNCHANGED <<mission, fleet, saw, stops>>

RecipientFree(a) ==
    \A b \in Ids \ {a} : RecipientOf[b] = RecipientOf[a] => phase[b] \notin Active

\* An admission reserved before is returned as it is, whatever its phase.
Reserve(c) ==
    /\ At(c, "reserve")
    /\ LET a == job[c]
           new == phase[a] = "absent"
           ok == ~late /\ lead # "finalized" /\ RecipientFree(a)
       IN  /\ phase' = IF new /\ ok THEN [phase EXCEPT ![a] = "reserved"] ELSE phase
           /\ Checks(c, new => ok, "issue")
    /\ UNCHANGED <<token, intents, registered, results, late, lead, fleet>>

\* _validate_v3_authority at the effect stage.
EffectCapable(a) == phase[a] \in Active /\ lead # "finalized"

IssueToken(c) ==
    /\ At(c, "issue")
    /\ LET a == job[c] IN
       /\ token' = IF EffectCapable(a) /\ token[a] = "none"
                   THEN [token EXCEPT ![a] = "issued"] ELSE token
       /\ Checks(c, EffectCapable(a), "bind")
    /\ UNCHANGED <<phase, intents, registered, results, late, lead, fleet>>

BindToken(c) ==
    /\ At(c, "bind")
    /\ LET a == job[c] IN
       /\ token' = IF EffectCapable(a) THEN [token EXCEPT ![a] = "bound"] ELSE token
       /\ Checks(c, EffectCapable(a), "intent")
    /\ UNCHANGED <<phase, intents, registered, results, late, lead, fleet>>

\* The intent is appended and the state read that the rest of the call goes by.
RecordIntent(c) ==
    /\ At(c, "intent")
    /\ intents' = intents \cup {job[c]}
    /\ saw' = [saw EXCEPT ![c] = phase[job[c]]]
    /\ at' = [at EXCEPT ![c] = "commit"]
    /\ UNCHANGED <<phase, token, registered, results, late, lead, fleet, job, stops>>

\* A commit recorded before is returned as it is.
Commit(c) ==
    /\ At(c, "commit")
    /\ LET a == job[c]
           new == saw[c] = "reserved" /\ phase[a] = "reserved"
           ok == ~late /\ lead # "finalized"
       IN  /\ phase' = IF new /\ ok THEN [phase EXCEPT ![a] = "committed"] ELSE phase
           /\ Checks(c, saw[c] \in Active /\ (new => ok), "look")
    /\ UNCHANGED <<token, intents, registered, results, late, lead, fleet>>

LookStartedOnly(c) ==  \* mutant: a run authorized but not marked started is not taken up
    /\ At(c, "look")
    /\ IF log[job[c]] = "none"
       THEN Checks(c, saw[c] # "started", "authorize")
       ELSE Checks(c, saw[c] = "started", "mark")
    /\ UNCHANGED <<mission, fleet>>
\* _reconcile_run: what is in the ledger is not launched again.
LookForRun(c) ==
    /\ At(c, "look")
    /\ IF log[job[c]] = "none"
       THEN Checks(c, saw[c] # "started", "authorize")
       ELSE Checks(c, saw[c] \in {"authorized", "started"}, "mark")
    /\ UNCHANGED <<mission, fleet>>

FirstStep(a) == IF IsInteractive(a) THEN "check" ELSE "acquire"

\* The last durable step before the wrapper.  Recorded before, it is returned as it is.
Authorize(c) ==
    /\ At(c, "authorize")
    /\ LET a == job[c]
           ok == phase[a] = "committed" /\ ~late /\ lead # "finalized"
       IN  /\ phase' = IF ok THEN [phase EXCEPT ![a] = "authorized"] ELSE phase
           /\ Checks(c, ok \/ phase[a] \in Granted, FirstStep(a))
    /\ UNCHANGED <<token, intents, registered, results, late, lead, fleet>>

----------------------------------------------------------------------------
(* The wrapper: fleet-dispatch.sh, or fleet-send.sh and prepare_run.       *)

RecordedOver(a, status) ==  \* mutant: a later event replaces a terminal one
    [log EXCEPT ![a] = status]
\* append_event: nothing follows the first terminal event of a run.
Recorded(a, status) == [log EXCEPT ![a] = IF @ \in Terminal THEN @ ELSE status]
Open(a) == log[a] \notin Terminal

\* release: of a lease the run owns.
Freed(a) == [lease EXCEPT ![RecipientOf[a]] = IF @ = a THEN None ELSE @]

\* fleet-send.sh: refuses a run the ledger knows; read without a lock.
PrepareCheck(c) ==
    /\ At(c, "check")
    /\ Checks(c, log[job[c]] = "none", "prepare")
    /\ UNCHANGED <<mission, fleet>>

Prepare(c) ==
    /\ At(c, "prepare")
    /\ log' = Recorded(job[c], "preparing")
    /\ Checks(c, Open(job[c]), "acquire")
    /\ UNCHANGED <<mission, lease, sent>>

\* acquire, acquire_frontier.  The reconciliation frees the lease of a run that is
\* over unless it was retained; one taken by this very run is refused as well.
Leasable(a) ==
    \/ LeaseOf(a) = None
    \/ LeaseOf(a) # None /\ log[LeaseOf(a)] \in {"succeeded", "abandoned"}
AcquireOwn(c) ==  \* mutant: a lease already owned by the run is as good as a new one
    /\ At(c, "acquire")
    /\ LET a == job[c] IN
       IF Leasable(a) \/ LeaseOf(a) = a
       THEN lease' = [lease EXCEPT ![RecipientOf[a]] = a] /\ Goes(c, "record")
       ELSE /\ UNCHANGED lease
            /\ IF IsInteractive(a) THEN Goes(c, "spoil") ELSE Returned(c)
    /\ UNCHANGED <<mission, log, sent>>
Acquire(c) ==
    /\ At(c, "acquire")
    /\ LET a == job[c] IN
       IF Leasable(a)
       THEN lease' = [lease EXCEPT ![RecipientOf[a]] = a] /\ Goes(c, "record")
       ELSE /\ UNCHANGED lease
            /\ IF IsInteractive(a) THEN Goes(c, "spoil") ELSE Returned(c)
    /\ UNCHANGED <<mission, log, sent>>

\* The dispatched event; refused when the run is over, and the lease goes back.
RecordDispatched(c) ==
    /\ At(c, "record")
    /\ log' = Recorded(job[c], "dispatched")
    /\ IF Open(job[c]) THEN Goes(c, "submit") ELSE Goes(c, "release")
    /\ UNCHANGED <<mission, lease, sent>>

\* The interactive wrapper gives up before anything is sent: no acknowledgement from
\* cmux, no prompt file, or an exit between the event and the first send.
NotAttempted(c) ==
    /\ at[c] \in {"record", "submit"} /\ job[c] \in Ids /\ IsInteractive(job[c])
    /\ Goes(c, "undo")
    /\ UNCHANGED <<mission, fleet>>

\* Text and Enter.  A failure is reported although the task was submitted, or is not;
\* for an interactive run success may be reported although it was not.
Submit(c) ==
    /\ At(c, "submit")
    /\ \E delivered, reported \in BOOLEAN :
        /\ sent' = IF delivered THEN [sent EXCEPT ![job[c]] = @ + 1] ELSE sent
        /\ IF IsInteractive(job[c])
           THEN Goes(c, IF reported THEN "confirm" ELSE "doubt")
           ELSE (reported => delivered) /\ Goes(c, IF reported THEN "mark" ELSE "undo")
    /\ UNCHANGED <<mission, log, lease>>

\* authorize_prompt_submission: the provider's own submit event, when one is seen in time.
Confirm(c) ==
    /\ At(c, "confirm")
    /\ \/ /\ sent[job[c]] > 0
          /\ log' = Recorded(job[c], "authorized")
          /\ Goes(c, IF Open(job[c]) THEN "mark" ELSE "doubt")
       \/ UNCHANGED log /\ Goes(c, "doubt")
    /\ UNCHANGED <<mission, lease, sent>>

\* The exit paths.  Local: abandoned, then release.  Interactive: abandoned and
\* release while nothing was sent, indeterminate with the lease retained after that.
Undo(c) ==
    /\ At(c, "undo")
    /\ log' = Recorded(job[c], "abandoned")
    /\ Goes(c, "release")
    /\ UNCHANGED <<mission, lease, sent>>
Spoil(c) ==
    /\ At(c, "spoil")
    /\ log' = Recorded(job[c], "abandoned")
    /\ Returned(c)
    /\ UNCHANGED <<mission, lease, sent>>
ReleaseLease(c) ==
    /\ At(c, "release")
    /\ lease' = Freed(job[c])
    /\ Returned(c)
    /\ UNCHANGED <<mission, log, sent>>
Doubt(c) ==
    /\ At(c, "doubt")
    /\ log' = Recorded(job[c], "indeterminate")
    /\ Returned(c)
    /\ UNCHANGED <<mission, lease, sent>>

----------------------------------------------------------------------------
(* dispatch, after the effect; wait.                                       *)

MarkStarted(c) ==
    /\ At(c, "mark")
    /\ LET a == job[c] IN
       /\ phase' = IF phase[a] = "authorized" THEN [phase EXCEPT ![a] = "started"] ELSE phase
       /\ Checks(c, phase[a] \in {"authorized", "started"}, "register")
    /\ UNCHANGED <<token, intents, registered, results, late, lead, fleet>>

Register(c) ==
    /\ At(c, "register")
    /\ registered' = IF phase[job[c]] = "started" THEN registered \cup {job[c]} ELSE registered
    /\ Returned(c)
    /\ UNCHANGED <<phase, token, intents, results, late, lead, fleet>>

WaitUnrecorded(c, a) ==  \* mutant: the admission is finalized whatever the verdict
    /\ at[c] = "idle"
    /\ a \in registered /\ log[a] \in Terminal
    /\ phase[a] # "finalized"
    /\ at' = [at EXCEPT ![c] = "finalize"]
    /\ job' = [job EXCEPT ![c] = a]
    /\ UNCHANGED <<mission, fleet, saw, stops>>
\* wait returns with the verdict of the run in the ledger.
Wait(c, a) ==
    /\ at[c] = "idle"
    /\ a \in registered /\ log[a] \in Terminal
    /\ phase[a] # "finalized"
    /\ at' = [at EXCEPT ![c] = IF log[a] = "succeeded" THEN "result" ELSE "finalize"]
    /\ job' = [job EXCEPT ![c] = a]
    /\ UNCHANGED <<mission, fleet, saw, stops>>

RecordResult(c) ==
    /\ At(c, "result")
    /\ LET a == job[c]
           ok == phase[a] # "finalized"
       IN  /\ results' = IF ok THEN results \cup {a} ELSE results
           /\ Checks(c, ok \/ a \in results, "finalize")
    /\ UNCHANGED <<phase, token, intents, registered, late, lead, fleet>>

Finalize(c) ==
    /\ At(c, "finalize")
    /\ phase' = IF phase[job[c]] \in Owning
                THEN [phase EXCEPT ![job[c]] = "finalized"] ELSE phase
    /\ Returned(c)
    /\ UNCHANGED <<token, intents, registered, results, late, lead, fleet>>

----------------------------------------------------------------------------
(* The runs.                                                               *)

\* run-local-task.sh records how the work ended and returns the lease.
LocalEnds(a) ==
    /\ ~IsInteractive(a) /\ sent[a] > 0 /\ log[a] = "dispatched"
    /\ \E status \in {"succeeded", "abandoned"} : log' = Recorded(a, status)
    /\ lease' = Freed(a)
    /\ UNCHANGED <<mission, sent, calls>>

\* An observer ends an interactive run on the provider's evidence; without evidence
\* it is indeterminate and keeps its lease.
InteractiveEnds(a) ==
    /\ IsInteractive(a)
    /\ \/ /\ log[a] = "authorized"
          /\ \E status \in {"succeeded", "abandoned"} : log' = Recorded(a, status)
          /\ lease' = Freed(a)
       \/ /\ log[a] \in {"dispatched", "authorized"}
          /\ log' = Recorded(a, "indeterminate")
          /\ UNCHANGED lease
    /\ UNCHANGED <<mission, sent, calls>>

\* fleet-abandon.sh, by an operator or by cancel of Fleet Control.
Abandon(a) ==
    /\ IsInteractive(a) /\ log[a] # "none"
    /\ Open(a) \/ log[a] = "indeterminate"
    /\ log' = Recorded(a, "abandoned")
    /\ lease' = Freed(a)
    /\ UNCHANGED <<mission, sent, calls>>

----------------------------------------------------------------------------
(* The Lead retires.                                                       *)

LeadEnds ==
    /\ lead = "running"
    /\ lead' = "over"
    /\ UNCHANGED <<phase, token, intents, registered, results, late, fleet, calls>>

FinalizeChildUnseen(a) ==  \* mutant: without evidence of its run
    /\ lead = "over"
    /\ phase[a] \in Owning
    /\ phase' = [phase EXCEPT ![a] = "finalized"]
    /\ UNCHANGED <<token, intents, registered, results, late, lead, fleet, calls>>
\* _finalize_lead: every active child first, on the evidence of its run.
FinalizeChild(a) ==
    /\ lead = "over"
    /\ phase[a] \in Owning /\ log[a] \in Terminal
    /\ phase' = [phase EXCEPT ![a] = "finalized"]
    /\ UNCHANGED <<token, intents, registered, results, late, lead, fleet, calls>>

FinalizeLead ==
    /\ lead = "over"
    /\ \A a \in Ids : phase[a] \notin Active
    /\ lead' = "finalized"
    /\ UNCHANGED <<phase, token, intents, registered, results, late, fleet, calls>>

DeadlinePasses ==
    /\ ~late
    /\ late' = TRUE
    /\ UNCHANGED <<phase, token, intents, registered, results, lead, fleet, calls>>

\* A caller is killed, times out (its wrapper is killed with it) or fails in a check
\* that changes nothing.
Stop(c) ==
    /\ at[c] # "idle" /\ stops < MaxStops
    /\ at' = [at EXCEPT ![c] = "idle"]
    /\ job' = [job EXCEPT ![c] = None]
    /\ saw' = [saw EXCEPT ![c] = "absent"]
    /\ stops' = stops + 1
    /\ UNCHANGED <<mission, fleet>>

Admit(c) ==
    \/ Reserve(c) \/ IssueToken(c) \/ BindToken(c) \/ RecordIntent(c) \/ Commit(c)
    \/ LookForRun(c) \/ Authorize(c)
Wrapper(c) ==
    \/ PrepareCheck(c) \/ Prepare(c) \/ Acquire(c) \/ RecordDispatched(c) \/ NotAttempted(c)
    \/ Submit(c) \/ Confirm(c) \/ Undo(c) \/ Spoil(c) \/ ReleaseLease(c) \/ Doubt(c)
Follow(c) == MarkStarted(c) \/ Register(c) \/ RecordResult(c) \/ Finalize(c)
CallerStep(c) == Admit(c) \/ Wrapper(c) \/ Follow(c)

Next ==
    \/ \E c \in Callers : CallerStep(c) \/ Stop(c)
    \/ \E c \in Callers, a \in Ids : Call(c, a) \/ Wait(c, a)
    \/ \E a \in Ids : LocalEnds(a) \/ InteractiveEnds(a) \/ Abandon(a) \/ FinalizeChild(a)
    \/ LeadEnds \/ FinalizeLead \/ DeadlinePasses

Spec == Init /\ [][Next]_vars

\* A call goes on unless it is cut short, and requests are repeated.
FairSpec ==
    /\ Spec
    /\ \A c \in Callers : WF_vars(CallerStep(c))
    /\ \A a \in Ids : SF_vars(\E c \in Callers : Call(c, a))

----------------------------------------------------------------------------
(* Properties.                                                             *)

\* However often a request is repeated, by whom, and wherever a call for it is cut
\* short: its task is submitted at most once (authorize_launch and the wrapper it
\* is followed by may both run twice).
OneEffect == \A a \in Ids : sent[a] <= 1

\* The two ledgers agree although no transaction spans them: nothing is submitted
\* without a bound token and an intent, an admission is marked started only for a
\* run in the lifecycle ledger, finalized only on a run that is over, and a result
\* is one of a registered run that succeeded (_dispatch, wait, _finalize_lead).
LedgersAgree ==
    \A a \in Ids :
        /\ log[a] # "none" => phase[a] \in Granted /\ token[a] = "bound" /\ a \in intents
        /\ sent[a] > 0 => log[a] # "none"
        /\ phase[a] = "started" => log[a] # "none"
        /\ phase[a] = "finalized" => log[a] \in Terminal
        /\ a \in registered => phase[a] \in {"started", "finalized"}
        /\ a \in results => a \in registered /\ log[a] = "succeeded"

\* What wait finalizes of a run that succeeded has its result: only the retirement
\* of the Lead closes an admission without it (wait 1371-1427).
ResultsKept ==
    \A a \in Ids :
        phase[a] = "finalized" /\ log[a] = "succeeded" /\ lead = "running" => a \in results

\* Dispatch implements the launch-once specification.
Stage(a) ==
    CASE phase[a] \in {"authorized", "started"} -> "granted"
      [] phase[a] = "finalized" -> "closed"
      [] OTHER -> "asked"
Launched == INSTANCE LaunchOnce WITH
    Requests <- Ids,
    Stragglers <- {a \in Ids : IsInteractive(a)},
    stage <- [a \in Ids |-> Stage(a)],
    launches <- sent
ImplementsLaunchOnce == Launched!Spec

\* A run that is in the lifecycle ledger while its admission is open comes to be
\* registered, whatever its first caller was cut short at, as long as the request
\* is repeated: no run is left that wait cannot name.  A writer's may be kept out
\* for good by another writer's delegation without a result.
EffectsRegistered ==
    \A a \in Ids :
        log[a] # "none" /\ phase[a] \in {"authorized", "started"}
            ~> a \in registered \/ phase[a] = "finalized" \/ WriterBusy(a)
=============================================================================
