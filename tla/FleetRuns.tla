----------------------------- MODULE FleetRuns ------------------------------
(***************************************************************************)
(* The processes that use the lease store: fleet-dispatch.sh and the       *)
(* run-local-task.sh it starts in the instance's pane, fleet-send.sh and   *)
(* the observers of an interactive run (fleet_frontier.py), fleet-down.sh, *)
(* and people who close panes or run a reconciliation.  Each step is one   *)
(* command a script runs: commands of different scripts interleave, and a  *)
(* script can be stopped or killed between two of them or within one.      *)
(***************************************************************************)
EXTENDS Leases

VARIABLES
    driver,    \* run -> where its fleet-dispatch.sh or fleet-send.sh is
    runner,    \* run -> where its run-local-task.sh, or its session, is
    observer,  \* run -> whether an observer is about to release its lease
    claims,    \* run -> the leases its scripts were given
    closer,    \* teardown -> where its fleet-down.sh is
    boot,      \* feature -> the teardown holding the lifecycle (boot) lock
    archived,  \* features whose ledger a teardown moved to the archive
    active     \* feature -> what stands of its manifest and phase state

scripts == <<driver, runner, observer, claims>>
teardown == <<closer, boot, archived, active>>
vars == <<store, tree, scripts, teardown>>

DriverPC == {"start", "acquire", "record", "send", "enter", "undo", "mark", "free", "exit"}
RunnerPC == {"none", "validate", "activate", "start", "work", "abandon", "release", "exit"}
CloserPC == {"idle", "begin", "shut", "archive", "ledger", "commit", "end"}
Pairs == {"whole", "torn", "gone"}  \* torn: the manifest without its phase state

Init ==
    /\ StoreInit
    /\ driver = [r \in Runs |-> "start"]
    /\ runner = [r \in Runs |-> "none"]
    /\ observer = [r \in Runs |-> FALSE]
    /\ claims = [r \in Runs |-> {}]
    /\ closer = [c \in Closers |-> "idle"]
    /\ boot = [f \in Features |-> Nobody]
    /\ archived = {}
    /\ active = [f \in Features |-> "whole"]

TypeOK ==
    /\ StoreTypeOK
    /\ driver \in [Runs -> DriverPC]
    /\ runner \in [Runs -> RunnerPC]
    /\ observer \in [Runs -> BOOLEAN]
    /\ claims \in [Runs -> SUBSET LeaseNames]
    /\ closer \in [Closers -> CloserPC]
    /\ boot \in [Features -> Closers \cup {Nobody}]
    /\ archived \subseteq Features
    /\ active \in [Features -> Pairs]

Local(r) == r \in Runs \ Remote
Drive(r, from, to) ==
    /\ driver[r] = from
    /\ driver' = [driver EXCEPT ![r] = to]
Run(r, from, to) ==
    /\ runner[r] = from
    /\ runner' = [runner EXCEPT ![r] = to]

----------------------------------------------------------------------------
(* fleet-dispatch.sh for a local run; prepare and fleet-send.sh for an     *)
(* interactive one, which records its identity before it takes a lease.    *)

\* Both first check that the workspace and surface of the manifest exist.
Prepare(r) ==
    /\ Drive(r, "start", "acquire") /\ ~Absent(r)
    /\ IF r \in Remote THEN Recorded(r, "preparing") ELSE UNCHANGED event
    /\ UNCHANGED <<holder, litter, closing, tree, runner, observer, claims, teardown>>

\* Where a script goes when acquisition fails: prepare records its failure.
Refused(r) == IF r \in Remote THEN "undo" ELSE "exit"

Acquire(r) ==
    /\ Drive(r, "acquire", "record")
    /\ \E probed \in BOOLEAN :
        LET R == Reclaimable(Runs, probed) IN
        /\ Sweepable(R)
        /\ event' = Abandoned(R)
        /\ \E N \in Requests(r, Swept(R)) :
            /\ Admissible(r, Swept(R), N)
            /\ Granted(r, Swept(R), N)
            /\ claims' = [claims EXCEPT ![r] = N]
    /\ UNCHANGED <<litter, closing, tree, runner, observer, teardown>>

AcquireRefused(r) ==
    /\ Drive(r, "acquire", Refused(r))
    /\ \E probed \in BOOLEAN :
        LET R == Reclaimable(Runs, probed) IN
        /\ \A N \in Requests(r, Swept(R)) : ~Admissible(r, Swept(R), N)
        /\ ReconcileAll(Runs, probed)
    /\ UNCHANGED <<litter, closing, tree, runner, observer, claims, teardown>>

\* A signal while the leases are made.
AcquireCut(r) ==
    /\ Drive(r, "acquire", "exit")
    /\ \E probed \in BOOLEAN :
        LET R == Reclaimable(Runs, probed) IN
        /\ Sweepable(R)
        /\ event' = Abandoned(R)
        /\ \E N \in Requests(r, Swept(R)) :
            Admissible(r, Swept(R), N) /\ GrantedPart(r, Swept(R), N)
    /\ UNCHANGED <<litter, closing, tree, runner, observer, claims, teardown>>

\* An error before, or while the leases are made: those are removed again.
AcquireFails(r) ==
    /\ Drive(r, "acquire", Refused(r))
    /\ \/ \E probed \in BOOLEAN : ReconcileAll(Runs, probed)
       \/ ReconcilePart(Runs)
       \/ UNCHANGED <<holder, event>>
    /\ UNCHANGED <<litter, closing, tree, runner, observer, claims, teardown>>

\* Append "dispatched"; rejected when somebody already ended the run.
Record(r) ==
    /\ \/ Drive(r, "record", "send") /\ event[r] \notin Terminal /\ Recorded(r, "dispatched")
       \/ Drive(r, "record", IF r \in Remote THEN "undo" ELSE "free")
            /\ (Recorded(r, "dispatched") \/ UNCHANGED event)
    /\ UNCHANGED <<holder, litter, closing, tree, runner, observer, claims, teardown>>

\* abandon_run: end the run and then release, or release what was retained.
Abandoning(r) ==
    /\ Recorded(r, "abandoned")
    /\ observer' = [observer EXCEPT ![r] = @ \/ ~Settled(r)]

\* cmux send types the command line.  From the attempt on, a failure of
\* fleet-send.sh leaves the transfer indeterminate.
Send(r) ==
    /\ \/ Drive(r, "send", "enter") /\ UNCHANGED <<event, observer>>
       \/ Local(r) /\ Drive(r, "send", "undo") /\ UNCHANGED <<event, observer>>
       \/ r \in Remote /\ Drive(r, "send", "mark") /\ UNCHANGED <<event, observer>>
       \/ r \in Remote /\ Drive(r, "send", "exit") /\ Abandoning(r)
    /\ UNCHANGED <<holder, litter, closing, tree, runner, claims, teardown>>

\* cmux send-key: whether Enter arrived and whether the call said so.
Enter(r) ==
    /\ \/ Drive(r, "enter", "exit")
       \/ Drive(r, "enter", IF r \in Remote THEN "mark" ELSE "undo")
    /\ \/ ~Absent(r) /\ Run(r, "none", IF r \in Remote THEN "work" ELSE "validate")
       \/ UNCHANGED runner
    /\ UNCHANGED <<store, tree, observer, claims, teardown>>

\* cleanup: record the run as abandoned, keep the leases if that fails.
Undo(r) ==
    /\ \/ Drive(r, "undo", "free") /\ event[r] # "indeterminate" /\ Recorded(r, "abandoned")
       \/ Drive(r, "undo", "exit") /\ UNCHANGED event
    /\ UNCHANGED <<holder, litter, closing, tree, runner, observer, claims, teardown>>

MarkIndeterminate(r) ==
    /\ Drive(r, "mark", "exit")
    /\ Recorded(r, "indeterminate") \/ UNCHANGED event
    /\ UNCHANGED <<holder, litter, closing, tree, runner, observer, claims, teardown>>

FreeLeases(r) ==
    /\ Drive(r, "free", "exit")
    /\ Release(r, claims[r]) \/ ReleasePart(r, claims[r])
    /\ UNCHANGED <<litter, closing, event, tree, runner, observer, claims, teardown>>

\* The script is killed, or stopped where its trap does nothing.
DriverDies(r) ==
    /\ driver[r] # "exit"
    /\ driver' = [driver EXCEPT ![r] = "exit"]
    /\ UNCHANGED <<store, tree, runner, observer, claims, teardown>>

----------------------------------------------------------------------------
(* run-local-task.sh.                                                      *)

Validate(r) ==
    /\ Run(r, "validate", IF Owns(r, claims[r]) THEN "activate" ELSE "abandon")
    /\ UNCHANGED <<store, tree, driver, observer, claims, teardown>>

\* activate rewrites each lease; cut short it leaves a temporary in one.
Activate(r) ==
    /\ Run(r, "activate", IF Owns(r, claims[r]) THEN "start" ELSE "abandon")
    /\ UNCHANGED <<store, tree, driver, observer, claims, teardown>>

ActivateCut(r) ==
    /\ Run(r, "activate", "abandon") \/ Run(r, "activate", "exit")
    /\ Owns(r, claims[r])
    /\ \E n \in claims[r] : litter' = litter \cup {n}
    /\ UNCHANGED <<holder, closing, event, tree, driver, observer, claims, teardown>>

Start(r) ==
    /\ \/ Run(r, "start", "work") /\ event[r] \notin Terminal /\ Recorded(r, "running")
       \/ Run(r, "start", "abandon") /\ (Recorded(r, "running") \/ UNCHANGED event)
    /\ UNCHANGED <<holder, litter, closing, tree, driver, observer, claims, teardown>>

Finish(r) ==
    /\ Local(r)
    /\ Run(r, "work", "release")
    /\ Recorded(r, "done") \/ Recorded(r, "abandoned")
    /\ UNCHANGED <<holder, litter, closing, tree, driver, observer, claims, teardown>>

\* The EXIT trap, with no terminal event written yet.
Abandon(r) ==
    /\ \/ Run(r, "abandon", "release") /\ Recorded(r, "abandoned")
       \/ Run(r, "abandon", "exit") /\ UNCHANGED event
    /\ UNCHANGED <<holder, litter, closing, tree, driver, observer, claims, teardown>>

ReleaseLeases(r) ==
    /\ Run(r, "release", "exit")
    /\ Release(r, claims[r]) \/ ReleasePart(r, claims[r])
    /\ UNCHANGED <<litter, closing, event, tree, driver, observer, claims, teardown>>

\* A signal, the pane's hangup or a failing command runs the trap.
Interrupted(r) ==
    /\ Local(r)
    /\ \E pc \in {"validate", "activate", "start", "work"} : Run(r, pc, "abandon")
    /\ UNCHANGED <<store, tree, driver, observer, claims, teardown>>

RunnerDies(r) ==
    /\ runner[r] \notin {"none", "exit"}
    /\ runner' = [runner EXCEPT ![r] = "exit"]
    /\ UNCHANGED <<store, tree, driver, observer, claims, teardown>>

----------------------------------------------------------------------------
(* The observers of an interactive run: terminalize, mark_indeterminate    *)
(* and abandon_run, each recording before it releases.                     *)

Observe(r) ==
    /\ r \in Remote
    /\ \/ event[r] = "dispatched" /\ runner[r] = "work" /\ Recorded(r, "done")
            /\ observer' = [observer EXCEPT ![r] = TRUE]
       \/ event[r] \in {"preparing", "dispatched"} /\ Recorded(r, "indeterminate")
            /\ UNCHANGED observer
    /\ UNCHANGED <<holder, litter, closing, tree, driver, runner, claims, teardown>>

AbandonRun(r) ==
    /\ r \in Remote /\ event[r] # "none"
    /\ Abandoning(r)
    /\ UNCHANGED <<holder, litter, closing, tree, driver, runner, claims, teardown>>

\* _release_frontier_lease looks for its instance's lease and checks the owner.
ReleaseObserved(r) ==
    /\ observer[r]
    /\ observer' = [observer EXCEPT ![r] = FALSE]
    /\ \/ Release(r, {InstanceName(r)})
       \/ ReleasePart(r, {InstanceName(r)})
       \/ UNCHANGED holder
    /\ UNCHANGED <<litter, closing, event, tree, driver, runner, claims, teardown>>

----------------------------------------------------------------------------
(* fleet-down.sh: under the feature's lifecycle lock, a closing marker     *)
(* stands from begin-close to end-close.                                   *)

\* A retried teardown has a new close_id: not one a marker still carries.  A manifest
\* without its phase state makes probe-active refuse it at once.
Boot(c) ==
    /\ closer[c] = "idle" /\ boot[Closes[c]] = Nobody /\ active[Closes[c]] # "torn"
    /\ closing[Closes[c]] # c
    /\ closer' = [closer EXCEPT ![c] = "begin"]
    /\ boot' = [boot EXCEPT ![Closes[c]] = c]
    /\ UNCHANGED <<archived, active, store, tree, scripts>>

Step(c, from, to) ==
    /\ closer[c] = from
    /\ closer' = [closer EXCEPT ![c] = to]
    /\ UNCHANGED boot
Quit(c, from) ==
    /\ closer[c] = from
    /\ closer' = [closer EXCEPT ![c] = "idle"]
    /\ boot' = [boot EXCEPT ![Closes[c]] = Nobody]

BeginClose(c) ==
    /\ Step(c, "begin", "shut")
    /\ \E probed \in BOOLEAN :
        /\ ReconcileAll(InFeature(Closes[c]), probed)
        /\ Closable(Closes[c], holder')
    /\ closing' = [closing EXCEPT ![Closes[c]] = c]
    /\ UNCHANGED <<archived, active, litter, tree, scripts>>

\* Refused, or unable to read the tree, the leases or the marker.
BeginRefused(c) ==
    /\ Quit(c, "begin")
    /\ \/ \E probed \in BOOLEAN : ReconcileAll(InFeature(Closes[c]), probed)
       \/ ReconcilePart(InFeature(Closes[c]))
       \/ UNCHANGED <<holder, event>>
    /\ UNCHANGED <<archived, active, litter, closing, tree, scripts>>

\* Cut short around the marker: archived only, half written, or whole.
BeginCut(c) ==
    /\ Quit(c, "begin")
    /\ \E probed \in BOOLEAN :
        /\ ReconcileAll(InFeature(Closes[c]), probed)
        /\ Closable(Closes[c], holder')
    /\ \E m \in {Nobody, Malformed, c} : closing' = [closing EXCEPT ![Closes[c]] = m]
    /\ UNCHANGED <<archived, active, litter, tree, scripts>>

\* close-workspace; or the workspace is gone already, and the teardown recovers.
Shut(c) ==
    /\ \/ Step(c, "shut", "archive") /\ active[Closes[c]] = "whole"
            /\ workspaces' = workspaces \ {Closes[c]}
       \/ Step(c, "shut", "end") /\ UNCHANGED workspaces
    /\ UNCHANGED <<archived, active, store, panes, scripts>>

\* Absence confirmed, publish and archive: first the phase state goes to the archive ...
MoveState(c) ==
    /\ Step(c, "archive", "ledger") /\ Closes[c] \notin workspaces
    /\ active' = [active EXCEPT ![Closes[c]] = "torn"]
    /\ UNCHANGED <<archived, store, tree, scripts>>

\* ... then the lifecycle ledger, and what is appended later starts a new one ...
Archive(c) ==
    /\ Step(c, "ledger", "commit")
    /\ archived' = archived \cup {Closes[c]}
    /\ event' = [r \in Runs |-> IF r \in InFeature(Closes[c]) THEN "none" ELSE event[r]]
    /\ UNCHANGED <<active, holder, litter, closing, tree, scripts>>

\* ... and last the manifest, which commits the archive.
MoveManifest(c) ==
    /\ Step(c, "commit", "end")
    /\ active' = [active EXCEPT ![Closes[c]] = "gone"]
    /\ UNCHANGED <<archived, store, tree, scripts>>

\* Every failure on the way ends in the trap, which ends the close.
ArchiveFails(c) ==
    /\ \E pc \in {"archive", "ledger", "commit"} : Step(c, pc, "end")
    /\ UNCHANGED <<archived, active, store, tree, scripts>>

EndClose(c) ==
    /\ Quit(c, "end")
    /\ closing' = [closing EXCEPT ![Closes[c]] = IF @ = c THEN Nobody ELSE @]
    /\ UNCHANGED <<archived, active, holder, litter, event, tree, scripts>>

CloserDies(c) ==
    /\ \E pc \in CloserPC \ {"idle"} : Quit(c, pc)
    /\ UNCHANGED <<archived, active, store, tree, scripts>>

----------------------------------------------------------------------------
(* The rest of the world.                                                  *)

Reconcile ==
    /\ (\E probed \in BOOLEAN : ReconcileAll(Runs, probed)) \/ ReconcilePart(Runs)
    /\ UNCHANGED <<litter, closing, tree, scripts, teardown>>

CloseSurface(s) ==
    /\ panes' = panes \ {s}
    /\ UNCHANGED <<store, workspaces, scripts, teardown>>

CloseWorkspace(f) ==
    /\ workspaces' = workspaces \ {f}
    /\ UNCHANGED <<store, panes, scripts, teardown>>

DriverStep(r) ==
    \/ Prepare(r) \/ Acquire(r) \/ AcquireRefused(r) \/ AcquireCut(r) \/ AcquireFails(r)
    \/ Record(r) \/ Send(r) \/ Enter(r) \/ Undo(r) \/ MarkIndeterminate(r) \/ FreeLeases(r)
    \/ DriverDies(r)
RunnerStep(r) ==
    \/ Validate(r) \/ Activate(r) \/ ActivateCut(r) \/ Start(r) \/ Finish(r) \/ Abandon(r)
    \/ ReleaseLeases(r) \/ Interrupted(r) \/ RunnerDies(r)
ObserverStep(r) == Observe(r) \/ AbandonRun(r) \/ ReleaseObserved(r)
CloserStep(c) ==
    \/ Boot(c) \/ BeginClose(c) \/ BeginRefused(c) \/ BeginCut(c) \/ Shut(c)
    \/ MoveState(c) \/ Archive(c) \/ MoveManifest(c) \/ ArchiveFails(c)
    \/ EndClose(c) \/ CloserDies(c)

Next ==
    \/ \E r \in Runs : DriverStep(r) \/ RunnerStep(r) \/ ObserverStep(r)
    \/ \E c \in Closers : CloserStep(c)
    \/ Reconcile
    \/ \E s \in Surfaces : CloseSurface(s)
    \/ \E f \in Features : CloseWorkspace(f)

Spec == Init /\ [][Next]_vars

\* Somebody keeps dispatching, tearing down or reconciling, and once in a while
\* with cmux answering; a teardown is retried, is not refused for passing reasons
\* for ever, and is not killed at the same step every time.
Reclaim ==
    /\ ReconcileAll(Runs, TRUE)
    /\ UNCHANGED <<litter, closing, tree, scripts, teardown>>
FairSpec ==
    /\ Spec
    /\ WF_vars(Reclaim)
    /\ \A c \in Closers :
        /\ SF_vars(Boot(c)) /\ SF_vars(BeginClose(c)) /\ SF_vars(Shut(c))
        /\ SF_vars(MoveState(c) \/ Archive(c) \/ MoveManifest(c)) /\ SF_vars(EndClose(c))

----------------------------------------------------------------------------
(* Properties.                                                             *)

\* r's feature is not torn down, and its ledger says that r is at work.
Standing(r) == FeatureOf[r] \notin archived
InProgress(r) ==
    Standing(r) /\ (event[r] = "running" \/ (r \in Remote /\ event[r] = "dispatched"))

\* A run the ledger shows at work owns every lease it was given, whoever is
\* stopped, killed, reconciled or closed meanwhile: what bounds the workers per
\* instance, role, slot and heavy lock.
InProgressHolds ==
    \A r \in Runs : InProgress(r) => claims[r] # {} /\ Owns(r, claims[r])

\* The limits as the ledger sees them: of the runs it shows at work no two have one
\* instance or are both heavy, and no more are local, or of one role, than allowed.
Compatible(W) ==
    /\ \A q, r \in W : q # r => InstanceOf[q] # InstanceOf[r] /\ ~({q, r} \subseteq Heavy)
    /\ Cardinality(W \ Remote) <= MaxLocal
    /\ \A p \in Roles : Cardinality({r \in W \ Remote : RoleOf[r] = p}) <= RoleLimit
AtWork == {r \in Runs : InProgress(r)}
WithinLimits == Compatible(AtWork)

\* Teardown works on a quiet feature: while a live fleet-down.sh is between
\* begin-close and end-close its marker stands and no run of the feature owns a
\* lease.
Working(c) == closer[c] \in {"shut", "archive", "ledger", "commit", "end"}
TeardownQuiet ==
    \A c \in Closers : Working(c) =>
        /\ closing[Closes[c]] = c
        /\ \A n \in LeaseNames : holder[n] \notin InFeature(Closes[c])

\* A lease leaves its run only on evidence: the ledger ended the run - with an
\* outcome, or indeterminate and then the pane is gone or somebody abandons it
\* explicitly - or its own dispatcher gives up before it typed anything, or its
\* feature was torn down.
Evidence(r) ==
    \/ FeatureOf[r] \in archived
    \/ event'[r] \in {"done", "abandoned"}
    \/ event'[r] = "indeterminate" /\ (Absent(r) \/ observer[r])
    \/ driver[r] = "free" /\ runner[r] = "none"
ReclaimedOnEvidence ==
    [][\A n \in LeaseNames, r \in Runs : holder[n] = r /\ holder'[n] # r => Evidence(r)]_vars

\* Dispatch, runs and teardowns keep the promise of FleetWork: a run begins once, within
\* the limits and never under a teardown, which is alone and begins with the runs of
\* its feature ended.
Progress ==
    [r \in Runs |-> IF InProgress(r) THEN "working"
                    ELSE IF Standing(r) /\ event[r] \notin Terminal THEN "waiting" ELSE "over"]
TornDown == {Closes[c] : c \in {c \in Closers : Working(c)}}
Fleet == INSTANCE FleetWork WITH
    Together <- {W \in SUBSET Runs : Compatible(W)}, stage <- Progress, closed <- TornDown
WorkAdmitted == Fleet!Spec

\* What a call killed half-way can leave, and only people can remove.
Leftovers ==
    \/ litter # {} \/ \E n \in LeaseNames : holder[n] = Broken
    \/ \E f \in Features : closing[f] = Malformed

\* A run that ended, or whose pane is gone, gives its leases back, whoever was
\* killed holding them.
LeasesReturn ==
    \A r \in Runs : Holds(r) # {} /\ (Settled(r) \/ Absent(r)) ~> Holds(r) = {} \/ Leftovers

\* A teardown killed within its archive left the manifest without its phase state: no
\* later one gets past its first look (see Teardown, where CrashResumes shows it).
HalfArchived(f) == active[f] = "torn" /\ boot[f] = Nobody

\* The marker of a killed teardown does not stay once the workspace is gone, unless it
\* was killed half-way through its archive.
StaleCloseClears ==
    \A f \in Features :
        closing[f] \in Closers /\ f \notin workspaces ~>
            closing[f] = Nobody \/ HalfArchived(f) \/ Leftovers

\* README: "dispatch acquires instance/heavy/slot leases so local concurrency
\* limits hold at runtime": no more local workers at work than there are slots.
LimitsHold ==
    Cardinality({r \in Runs \ Remote : runner[r] = "work" /\ ~Absent(r)}) <= MaxLocal

----------------------------------------------------------------------------
(* The inductive invariant behind the safety properties.                   *)

\* A run that is not over and got as far as its leases owns them.
Underway(r) ==
    /\ Standing(r) /\ event[r] \notin Terminal
    /\ driver[r] \in {"record", "send", "enter"} \/ runner[r] # "none" \/ InProgress(r)
UnderwayHolds == \A r \in Runs : Underway(r) => claims[r] # {} /\ Owns(r, claims[r])

\* A script starts nothing before it is through itself, and what a run is at.
ScriptsOrdered ==
    \A r \in Runs :
        /\ runner[r] # "none" => driver[r] \in {"undo", "mark", "free", "exit"}
        /\ driver[r] = "mark" => r \in Remote
        /\ r \in Remote => runner[r] \in {"none", "work", "exit"}

\* Who is about to release knows that the run is over, or that it never began.
ReleaseJustified ==
    \A r \in Runs : Standing(r) =>
        /\ runner[r] = "release" => event[r] \in Terminal
        /\ observer[r] => event[r] \in Terminal
        /\ driver[r] = "free" => event[r] \in Terminal \/ (r \notin Remote /\ runner[r] = "none")
        /\ event[r] = "running" => runner[r] # "none"

\* Only interactive runs end indeterminate, and their scripts then keep the lease.
RetentionKnown ==
    \A r \in Runs : Standing(r) /\ event[r] = "indeterminate" => r \in Remote /\ driver[r] # "free"

\* What a local run was given counts against each of its limits.
ClaimsCounted ==
    \A r \in Runs : claims[r] # {} =>
        /\ InstanceName(r) \in claims[r]
        /\ r \in Heavy => HeavyName \in claims[r]
        /\ r \notin Remote => /\ \E k \in 1 .. MaxLocal : SlotName(k) \in claims[r]
                             /\ \E j \in 1 .. RoleLimit : RoleName(RoleOf[r], j) \in claims[r]

\* Before its script is through with its checks nothing of a run is recorded.
NotBegun == \A r \in Runs : driver[r] = "start" => event[r] \in {"none"} \cup Terminal

BootHeld == \A c \in Closers : closer[c] # "idle" => boot[Closes[c]] = c

IInv ==
    /\ TypeOK
    /\ UnderwayHolds /\ ScriptsOrdered /\ ReleaseJustified /\ RetentionKnown
    /\ ClaimsCounted /\ BootHeld /\ TeardownQuiet
=============================================================================
