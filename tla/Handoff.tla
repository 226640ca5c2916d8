------------------------------- MODULE Handoff -------------------------------
(***************************************************************************)
(* scripts/fleet_assurance_handoff.py under fleet-down.sh --handoff-assurance *)
(* and the mission driver: an approved mission leaves its main fleet and     *)
(* goes on in an assured one.                                                *)
(*                                                                           *)
(* A driver runs fleet-down, which asks a child of its own to hold the       *)
(* mission's mutation barrier, closes the main fleet, and lets the child     *)
(* move the fleet's files into the mission.  Driver, script and child die    *)
(* independently; a child that was told to commit goes on without its        *)
(* parent.  What they leave - an intent, a receipt, files in two places,     *)
(* two fields of the manifest - is what the next attempt has.                *)
(*                                                                           *)
(* Mission events are one step here and wait for the barrier, as             *)
(* MissionTransaction shows; which events the mission accepts is in          *)
(* MissionAdmission, how clones are retired is in Teardown, the closing      *)
(* marker in FleetRuns.                                                      *)
(***************************************************************************)
EXTENDS Naturals, FiniteSets

CONSTANTS
  Drivers,      \* mission drivers, each with its fleet-down and its child
  Evidence,     \* the runtime files present beside the manifest
  Manifest,     \* the manifest
  None,         \* nobody, no record
  MaxCuts,      \* bound: processes killed or timed out
  MaxApprovals, \* bound: approvals, the last of which does not expire
  MaxEvents     \* bound: other events of the mission while it is approved

ASSUME HandoffAssumption ==
  /\ Manifest \notin Evidence /\ None \notin Drivers
  /\ MaxCuts \in Nat /\ MaxApprovals \in Nat \ {0} /\ MaxEvents \in Nat
  /\ None \notin [status : {"prepared", "committing"}, head : [approval : Nat, events : Nat]]
  /\ None \notin [approval : Nat, events : Nat]

VARIABLES
  at,       \* where a driver's fleet-down is
  child,    \* where its handoff child is
  boot,     \* who has the fleet's lifecycle lock
  barrier,  \* whose child holds the mutation barrier
  intent,   \* assurance-handoff/intent.json: its status and the mission's head
  receipt,  \* assurance-handoff/receipt.json: the head it binds
  place,    \* a file of the main fleet: "live" or "kept" in main-runtime/
  closing,  \* workspace.handoff_state: "live", "closing" or "quiesced"
  quiesced, \* workspace.quiesced
  live,     \* the main workspace exists
  service,  \* the main Fleet Control service runs
  assured,  \* the assured service and fleet have been started
  status,   \* the mission: "approved", "booting" or "ended"
  approval, \* number of the approval in force
  expired,  \* it has expired
  events,   \* events since the first approval that are no renewals
  cuts

procs == <<at, child, boot, barrier>>
record == <<intent, receipt, place>>
fleet == <<closing, quiesced, live, service, assured>>
mission == <<status, approval, expired, events>>
vars == <<procs, record, fleet, mission, cuts>>

Files == Evidence \cup {Manifest}
Heads == [approval : 1..MaxApprovals, events : 0..MaxEvents]
Down == {"close", "stop", "mark", "shut", "retire", "quiesce", "quiet", "send"}
Positions == {"idle", "lock", "relock", "probe", "await", "recover", "wait", "ready"} \cup Down
Committing == {"commit", "intend", "move"}
Holding == {"prepare", "ready"} \cup Committing
ChildPositions == {"none", "enter", "reenter", "done", "failed"} \cup Holding

Init ==
  /\ at = [d \in Drivers |-> "idle"] /\ child = [d \in Drivers |-> "none"]
  /\ boot = None /\ barrier = None
  /\ intent = None /\ receipt = None /\ place = [f \in Files |-> "live"]
  /\ closing = "live" /\ quiesced = FALSE /\ live = TRUE /\ service = TRUE /\ assured = FALSE
  /\ status = "approved" /\ approval = 1 /\ expired = FALSE /\ events = 0
  /\ cuts = 0

-----------------------------------------------------------------------------
(* Helpers.                                                                  *)

Head == [approval |-> approval, events |-> events]

\* _validate_mission_state: exactly approved, and not expired.
Eligible == status = "approved" /\ ~expired

\* "was followed by a non-renewal Mission mutation"
Lineage(h) == h.events = events

AllLive == \A f \in Files : place[f] = "live"
AllKept == \A f \in Files : place[f] = "kept"
Prepared == intent # None /\ intent.status = "prepared"
Replayable == intent # None /\ intent.status = "committing" /\ Lineage(intent.head)

\* A receipt, its intent and the files still say the same.
Complete ==
  /\ Replayable /\ receipt = intent.head
  /\ AllKept

Without(lock, d) == IF lock = d THEN None ELSE lock

Goto(d, p) == at' = [at EXCEPT ![d] = p] /\ UNCHANGED <<child, boot, barrier>>

\* The script exits: its child is told to abort, or is reaped.
Exit(d) ==
  /\ at' = [at EXCEPT ![d] = "idle"] /\ child' = [child EXCEPT ![d] = "none"]
  /\ boot' = Without(boot, d) /\ barrier' = Without(barrier, d)

GotoIf(ok, d, p) == IF ok THEN Goto(d, p) ELSE Exit(d)

Spawn(d, c, p) ==
  /\ at' = [at EXCEPT ![d] = p] /\ child' = [child EXCEPT ![d] = c]
  /\ UNCHANGED <<boot, barrier>>

ChildGoto(d, c) == child' = [child EXCEPT ![d] = c] /\ UNCHANGED <<at, boot, barrier>>

\* The child is over; its barrier goes with it.
ChildEnds(d, outcome) ==
  /\ child' = [child EXCEPT ![d] = outcome] /\ barrier' = Without(barrier, d)
  /\ UNCHANGED <<at, boot>>

-----------------------------------------------------------------------------
(* The script and its driver.                                                *)

\* Mutant: an intent can be resumed only where the manifest still is.
PreflightFresh(d) ==
  /\ at[d] = "idle" /\ child[d] = "none" /\ Eligible /\ AllLive
  /\ receipt = None /\ (intent # None => Lineage(intent.head))
  /\ Goto(d, IF Replayable THEN "relock" ELSE "lock")
  /\ UNCHANGED <<record, fleet, mission, cuts>>

\* The driver finds the mission approved and runs the script, which probes before any effect.
Preflight(d) ==
  /\ at[d] = "idle" /\ child[d] = "none" /\ Eligible
  /\ \/ /\ Replayable /\ (receipt = None \/ Complete)
        /\ Goto(d, "relock")
     \/ /\ receipt = None /\ (intent = None \/ (Prepared /\ Lineage(intent.head))) /\ AllLive
        /\ Goto(d, "lock")
  /\ UNCHANGED <<record, fleet, mission, cuts>>

TakeBoot(d) ==
  /\ at[d] \in {"lock", "relock"}
  /\ IF boot = None
       THEN /\ boot' = d
            /\ at' = [at EXCEPT ![d] = IF at[d] = "lock" THEN "probe" ELSE "recover"]
            /\ UNCHANGED <<child, barrier>>
       ELSE Exit(d)
  /\ UNCHANGED <<record, fleet, mission, cuts>>

\* An active manifest and its state, whichever fleet's; then the hold child starts.
Probe(d) ==
  /\ at[d] = "probe"
  /\ IF AllLive \/ assured THEN Spawn(d, "enter", "await") ELSE Exit(d)
  /\ UNCHANGED <<record, fleet, mission, cuts>>

Recover(d) ==
  /\ at[d] = "recover" /\ Spawn(d, "reenter", "wait")
  /\ UNCHANGED <<record, fleet, mission, cuts>>

Await(d) ==
  /\ at[d] = "await" /\ child[d] \in {"ready", "failed"}
  /\ GotoIf(child[d] = "ready", d, "close")
  /\ UNCHANGED <<record, fleet, mission, cuts>>

\* A workspace that is gone is accepted only if an earlier run was closing it:
\* --handoff-assurance and --recover-absent exclude each other.
Close(d) ==
  /\ at[d] = "close"
  /\ GotoIf(/\ status = "approved"
            /\ IF live THEN ~quiesced /\ closing # "quiesced" ELSE closing # "live",
            d, "stop")
  /\ UNCHANGED <<record, fleet, mission, cuts>>

StopService(d) ==
  /\ at[d] = "stop" /\ service' = FALSE /\ Goto(d, "mark")
  /\ UNCHANGED <<record, closing, quiesced, live, assured, mission, cuts>>

MarkClosing(d) ==
  /\ at[d] = "mark" /\ closing' = "closing" /\ Goto(d, "shut")
  /\ UNCHANGED <<record, quiesced, live, service, assured, mission, cuts>>

\* Mutant: close-workspace is taken at its word.
ShutUnverified(d) ==
  /\ at[d] = "shut" /\ live' \in {live, FALSE} /\ Goto(d, "retire")
  /\ UNCHANGED <<record, closing, quiesced, service, assured, mission, cuts>>

\* The workspace is closed, and seen to be gone.
Shut(d) ==
  /\ at[d] = "shut"
  /\ \/ live' = FALSE /\ Goto(d, "retire")
     \/ live /\ UNCHANGED live /\ Exit(d)
  /\ UNCHANGED <<record, closing, quiesced, service, assured, mission, cuts>>

\* Every clone, as in Teardown; a clone with pending changes stops the script.
Retire(d) ==
  /\ at[d] = "retire" /\ (Goto(d, "quiesce") \/ Exit(d))
  /\ UNCHANGED <<record, fleet, mission, cuts>>

RecordQuiesced(d) ==
  /\ \/ at[d] = "quiesce" /\ quiesced' = TRUE /\ UNCHANGED closing /\ Goto(d, "quiet")
     \/ at[d] = "quiet" /\ closing' = "quiesced" /\ UNCHANGED quiesced /\ Goto(d, "send")
  /\ UNCHANGED <<record, live, service, assured, mission, cuts>>

\* COMMIT reaches a child that still waits for it.
Send(d) ==
  /\ at[d] = "send"
  /\ IF child[d] = "ready" THEN Spawn(d, "commit", "wait") ELSE Exit(d)
  /\ UNCHANGED <<record, fleet, mission, cuts>>

\* The driver has its result, the script has released the fleet.
Return(d) ==
  /\ at[d] = "wait" /\ child[d] \in {"done", "failed"}
  /\ at' = [at EXCEPT ![d] = IF child[d] = "done" THEN "ready" ELSE "idle"]
  /\ child' = [child EXCEPT ![d] = "none"] /\ boot' = Without(boot, d) /\ UNCHANGED barrier
  /\ UNCHANGED <<record, fleet, mission, cuts>>

\* assurance_boot_started; an append under somebody's barrier is refused.
Boot(d) ==
  /\ at[d] = "ready" /\ Goto(d, "idle")
  /\ status' = IF barrier = None /\ Eligible /\ AllKept THEN "booting" ELSE status
  /\ UNCHANGED <<record, fleet, approval, expired, events, cuts>>

\* Some driver finds the mission booting and starts the assured fleet, or gives it up.
StartAssured ==
  /\ status = "booting" /\ boot = None
  /\ IF expired THEN barrier = None /\ status' = "ended" /\ UNCHANGED assured
                ELSE assured' = TRUE /\ UNCHANGED status
  /\ UNCHANGED <<procs, record, closing, quiesced, live, service, approval, expired, events, cuts>>

-----------------------------------------------------------------------------
(* The child.                                                                *)

Enter(d) ==
  /\ child[d] \in {"enter", "reenter"}
  /\ IF barrier = None
       THEN /\ barrier' = d
            /\ child' = [child EXCEPT ![d] = IF child[d] = "enter" THEN "prepare" ELSE "commit"]
            /\ UNCHANGED <<at, boot>>
       ELSE ChildEnds(d, "failed")
  /\ UNCHANGED <<record, fleet, mission, cuts>>

\* The main fleet is whole, and no commit has begun; the intent takes the present head.
Prepare(d) ==
  /\ child[d] = "prepare"
  /\ IF Eligible /\ AllLive /\ (intent = None \/ (Prepared /\ Lineage(intent.head)))
       THEN intent' = [status |-> "prepared", head |-> Head] /\ ChildGoto(d, "ready")
       ELSE UNCHANGED intent /\ ChildEnds(d, "failed")
  /\ UNCHANGED <<receipt, place, fleet, mission, cuts>>

\* Its parent is gone: end of file instead of a command.
EndOfFile(d) ==
  /\ child[d] \in {"ready", "done", "failed"} /\ at[d] = "idle" /\ ChildEnds(d, "none")
  /\ UNCHANGED <<record, fleet, mission, cuts>>

\* A receipt is checked and returned; an intent is bound to the approval now in force.
Resume(d) ==
  /\ child[d] = "commit"
  /\ IF Eligible /\ (IF receipt = None THEN intent # None /\ Lineage(intent.head) ELSE Complete)
       THEN IF receipt # None
              THEN UNCHANGED intent /\ ChildEnds(d, "done")
              ELSE /\ intent' = [intent EXCEPT !.head = Head]
                   /\ ChildGoto(d, IF Prepared THEN "intend" ELSE "move")
       ELSE UNCHANGED intent /\ ChildEnds(d, "failed")
  /\ UNCHANGED <<receipt, place, fleet, mission, cuts>>

\* The inventory is taken only of a fleet that is durably at rest.
Intend(d) ==
  /\ child[d] = "intend"
  /\ IF AllLive /\ quiesced /\ closing = "quiesced"
       THEN intent' = [intent EXCEPT !.status = "committing"] /\ ChildGoto(d, "move")
       ELSE UNCHANGED intent /\ ChildEnds(d, "failed")
  /\ UNCHANGED <<receipt, place, fleet, mission, cuts>>

\* A file that is not there yet; the manifest goes last.
Move(d, f) ==
  /\ child[d] = "move" /\ place[f] = "live"
  /\ f = Manifest => \A e \in Evidence : place[e] = "kept"
  /\ place' = [place EXCEPT ![f] = "kept"]
  /\ UNCHANGED <<procs, intent, receipt, fleet, mission, cuts>>

\* Mutant: the expiry is not looked at again.
SealUnchecked(d) ==
  /\ child[d] = "move" /\ AllKept
  /\ receipt' = intent.head /\ ChildEnds(d, "done")
  /\ UNCHANGED <<intent, place, fleet, mission, cuts>>

\* No receipt under an approval that expired during the moves.  It takes the head that was
\* read when the barrier was entered, to which Resume has bound the intent.
Seal(d) ==
  /\ child[d] = "move" /\ AllKept
  /\ IF Eligible THEN receipt' = intent.head /\ ChildEnds(d, "done")
                 ELSE UNCHANGED receipt /\ ChildEnds(d, "failed")
  /\ UNCHANGED <<intent, place, fleet, mission, cuts>>

-----------------------------------------------------------------------------
(* Everybody else.                                                           *)

Cut == cuts < MaxCuts /\ cuts' = cuts + 1 /\ UNCHANGED <<record, fleet, mission>>

\* Killed, timed out, or killed by a supervisor that timed out.
ParentDies(d) ==
  /\ at[d] # "idle" /\ Cut
  /\ at' = [at EXCEPT ![d] = "idle"] /\ boot' = Without(boot, d) /\ UNCHANGED <<child, barrier>>

ChildDies(d) == child[d] \notin {"none", "done", "failed"} /\ Cut /\ ChildEnds(d, "failed")

Expire ==
  /\ ~expired /\ approval < MaxApprovals /\ expired' = TRUE
  /\ UNCHANGED <<procs, record, fleet, status, approval, events, cuts>>

Renew ==
  /\ status = "approved" /\ expired /\ barrier = None
  /\ approval' = approval + 1 /\ expired' = FALSE
  /\ UNCHANGED <<procs, record, fleet, status, events, cuts>>

\* A decision is answered, its notification settled, an ended run cancelled.
OtherEvent ==
  /\ status = "approved" /\ events < MaxEvents /\ barrier = None /\ events' = events + 1
  /\ UNCHANGED <<procs, record, fleet, status, approval, expired, cuts>>

EndMission ==
  /\ status # "ended" /\ barrier = None /\ status' = "ended"
  /\ UNCHANGED <<procs, record, fleet, approval, expired, events, cuts>>

CloseWorkspace ==
  /\ live /\ live' = FALSE
  /\ UNCHANGED <<procs, record, closing, quiesced, service, assured, mission, cuts>>

-----------------------------------------------------------------------------
Script(d) ==
  \/ TakeBoot(d) \/ Probe(d) \/ Recover(d) \/ Await(d) \/ Close(d) \/ StopService(d)
  \/ MarkClosing(d) \/ Shut(d) \/ Retire(d) \/ RecordQuiesced(d) \/ Send(d) \/ Return(d) \/ Boot(d)

Child(d) ==
  \/ Enter(d) \/ Prepare(d) \/ EndOfFile(d) \/ Resume(d) \/ Intend(d)
  \/ \E f \in Files : Move(d, f)
  \/ Seal(d)

Others ==
  \/ \E d \in Drivers : ParentDies(d) \/ ChildDies(d)
  \/ Expire \/ Renew \/ OtherEvent \/ EndMission \/ CloseWorkspace

Next == StartAssured \/ Others \/ \E d \in Drivers : Preflight(d) \/ Script(d) \/ Child(d)

Spec == Init /\ [][Next]_vars

\* Somebody resumes the mission and renews what expired; processes run on; the clones can
\* be retired, the workspace closes and the lifecycle lock is free in the end.
FairSpec ==
  /\ Spec /\ WF_vars(Renew)
  /\ \A d \in Drivers :
       /\ WF_vars(Script(d)) /\ WF_vars(Child(d)) /\ SF_vars(Preflight(d))
       /\ SF_vars(Shut(d) /\ at'[d] = "retire") /\ SF_vars(Retire(d) /\ at'[d] = "quiesce")
       /\ SF_vars(Boot(d) /\ status' # status)

-----------------------------------------------------------------------------
(* Properties.                                                               *)

\* Every variable stays within its domain.
TypeOK ==
  /\ at \in [Drivers -> Positions] /\ child \in [Drivers -> ChildPositions]
  /\ boot \in Drivers \cup {None} /\ barrier \in Drivers \cup {None}
  /\ intent \in [status : {"prepared", "committing"}, head : Heads] \cup {None}
  /\ receipt \in Heads \cup {None}
  /\ place \in [Files -> {"live", "kept"}]
  /\ closing \in {"live", "closing", "quiesced"} /\ quiesced \in BOOLEAN
  /\ live \in BOOLEAN /\ service \in BOOLEAN /\ assured \in BOOLEAN
  /\ status \in {"approved", "booting", "ended"}
  /\ approval \in 1..MaxApprovals /\ expired \in BOOLEAN /\ events \in 0..MaxEvents
  /\ cuts \in 0..MaxCuts

\* README: the handoff "stops only the main Fleet Control generation, preserves the exact
\* main manifest, state, ledgers, and receipts", and the assured generation is separate:
\* where it has been started, no main workspace and no main service are left and every
\* file of the main fleet is kept, whoever was killed on the way.
NeverTogether == assured => ~live /\ ~service /\ receipt # None /\ AllKept

\* The manifest is what says that a fleet is active.  It goes when nothing else is left
\* of the fleet, and a file goes only under an inventory of a fleet at rest.
ManifestLast ==
  /\ place[Manifest] = "kept" => AllKept
  /\ ~AllLive => intent # None /\ intent.status = "committing" /\ ~live /\ ~service

\* A receipt binds the mission as it is when it is written: nothing was appended since
\* the intent took its head, also if another process than the one that moved the files
\* writes it under a later approval.
ReceiptBound == [][receipt' # receipt => Eligible /\ receipt' = Head]_vars

\* Every repetition after the receipt finds what the first one wrote and changes nothing.
ReceiptFinal == [][receipt # None => UNCHANGED <<receipt, intent, place>>]_vars

\* Somebody closed the main workspace before any run of the script had marked it.
ClosedByHand == ~live /\ closing = "live"

Over == status # "approved" \/ ClosedByHand

\* An approved mission comes to boot its assured fleet, whoever is killed, however often
\* the approval has to be renewed, unless the mission is ended or was appended to.
HandoffCompletes == status = "approved" ~> Over \/ events # 0
=============================================================================
