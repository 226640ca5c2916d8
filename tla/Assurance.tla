------------------------------ MODULE Assurance ------------------------------
(***************************************************************************)
(* A feature's way from BUILD to VERIFY: the Maker/Checker dialogue        *)
(* (fleet_dialogue_controller.py, FDP-2), the sequential assurance         *)
(* (fleet_assurance_controller.py, FDP-3), the message ledger both         *)
(* authorize (fleet_dialogue.py) and the phase machine whose gates consult *)
(* them (fleet_state.py).                                                  *)
(*                                                                         *)
(* Each controller is an append-only ledger of events; its latest event    *)
(* says what is awaited.  Any process may call any operation at any time:  *)
(* a call holds the fleet coordinator lock and is one step, except for     *)
(* FDP-3's start, which takes the mission lock while it holds the          *)
(* coordinator, and for a phase advance, which holds the phase lock (and   *)
(* leaving BUILD the mission lock), takes the coordinator for its gate     *)
(* only, and writes the phase after it released it.  A deadline passes by  *)
(* itself and is written down by the next call that looks at it;           *)
(* publication does not look.  Calls refused for reasons outside of this   *)
(* state (a busy instance, a closing fleet, drift of the Maker's branch)   *)
(* change nothing and are no steps.                                        *)
(***************************************************************************)
EXTENDS Naturals, Sequences, FiniteSets

CONSTANTS
    MaxRounds,         \* MAX_REVISION_ROUNDS
    MaxConversations,  \* bound: conversations of FDP-2
    MaxDuplicates,     \* bound: publications of what another key had published already
    MaxApprovals       \* bound: approvals of the mission

ASSUME ConstantsAssumption ==
    /\ MaxRounds \in Nat /\ MaxConversations \in Nat \ {0}
    /\ MaxDuplicates \in Nat /\ MaxApprovals \in Nat \ {0}

VARIABLES
    ledger,    \* controller -> its events
    messages,  \* FDP-1: messages [ctl, at, copy] that answer event at of ctl
    ran,       \* controllers whose awaited run has ended
    late,      \* controllers whose deadline has passed
    phase,     \* active_phase
    opened,    \* the approval recorded when CHALLENGE was entered
    evidence,  \* the FDP-3 event recorded when VERIFY was entered
    advance,   \* the holder of the phase lock: its next step and its evidence
    starting,  \* an FDP-3 start holds the coordinator and awaits the mission lock
    approval,  \* the mission's approvals are numbered; this is the latest
    expired    \* it has expired

control == <<ledger, messages, ran, late>>
phases == <<phase, opened, evidence, advance>>
mission == <<approval, expired>>
vars == <<control, phases, starting, mission>>

Controllers == {"fdp2", "fdp3"}
Phases == {"CONTROL", "BUILD", "CHALLENGE", "VERIFY"}
NextPhase == [CONTROL |-> "BUILD", BUILD |-> "CHALLENGE", CHALLENGE |-> "VERIFY"]

\* The phase of the instance whose run a status awaits, and the status after it.
RunPhase ==
    [awaiting_proposal_run |-> "BUILD", awaiting_checker_run |-> "BUILD",
     awaiting_revision_run |-> "BUILD", awaiting_challenge_run |-> "CHALLENGE",
     awaiting_verification_run |-> "VERIFY"]
AfterRun ==
    [awaiting_proposal_run |-> "awaiting_proposal_message",
     awaiting_checker_run |-> "awaiting_checker_message",
     awaiting_revision_run |-> "awaiting_rebuttal_message",
     awaiting_challenge_run |-> "awaiting_challenge_message",
     awaiting_verification_run |-> "awaiting_verification_message"]
\* The message statuses that lead to one status only.
AfterMessage ==
    [awaiting_proposal_message |-> "awaiting_checker_run",
     awaiting_rebuttal_message |-> "awaiting_revision_message",
     awaiting_revision_message |-> "awaiting_checker_run",
     awaiting_challenge_message |-> "awaiting_phase_advance"]

AwaitRun == DOMAIN RunPhase
AwaitMessage ==
    DOMAIN AfterMessage \cup {"awaiting_checker_message", "awaiting_verification_message"}
ActiveStates == AwaitRun \cup AwaitMessage \cup {"awaiting_phase_advance"}
\* "closed" stands for the terminal states other than accepted and verified.
Statuses == ActiveStates \cup {"accepted", "verified", "closed"}

\* conv: conversation; copy: the copy of the message it bound, 0 for none.
Event == [conv : Nat, status : Statuses, round : Nat, copy : Nat]

TypeOK ==
    /\ ledger \in [Controllers -> Seq(Event)]
    /\ IsFiniteSet(messages)
    /\ messages \subseteq [ctl : Controllers, at : Nat, copy : Nat \ {0}]
    /\ ran \subseteq Controllers /\ late \subseteq Controllers
    /\ phase \in Phases
    /\ opened \in Nat /\ evidence \in Nat
    /\ advance \in [pc : {"idle", "gate", "write"}, evidence : Nat]
    /\ starting \in BOOLEAN
    /\ approval \in Nat /\ expired \in BOOLEAN

Init ==
    /\ ledger = [c \in Controllers |-> <<>>]
    /\ messages = {} /\ ran = {} /\ late = {}
    /\ phase = "CONTROL" /\ opened = 0 /\ evidence = 0
    /\ advance = [pc |-> "idle", evidence |-> 0]
    /\ starting = FALSE
    /\ approval = 1 /\ expired = FALSE

Latest(c) == ledger[c][Len(ledger[c])]
Started(c) == ledger[c] # <<>>
Active(c) == Started(c) /\ Latest(c).status \in ActiveStates
Accepted == Started("fdp2") /\ Latest("fdp2").status = "accepted"
Awaits(c, statuses) == Started(c) /\ Latest(c).status \in statuses

Bound(c) ==
    {[ctl |-> c, at |-> i - 1, copy |-> ledger[c][i].copy] :
        i \in {j \in DOMAIN ledger[c] : ledger[c][j].copy # 0}}
\* Every message of the controller's instances is bound by one of its events.
BindingsComplete(c) == {m \in messages : m.ctl = c} = Bound(c)

MissionLocked == advance.pc # "idle" /\ phase = "BUILD"

----------------------------------------------------------------------------
(* The controllers.                                                        *)

\* _append_event_locked: what was awaited and the deadline's flag go with the event.
Append1(c, event) ==
    /\ ledger' = [ledger EXCEPT ![c] = Append(@, event)]
    /\ ran' = ran \ {c}

After(c, status, round, copy) ==
    [conv |-> Latest(c).conv, status |-> status, round |-> round, copy |-> copy]

Follow(c, status, round, copy) == Append1(c, After(c, status, round, copy))

Same(c, status, copy) == Follow(c, status, Latest(c).round, copy)

\* A call that appends on behalf of its caller: the deadline has not passed.
Call(c) == ~starting /\ Active(c) /\ c \notin late

DeadlinePasses(c) ==
    /\ Active(c) /\ c \notin late
    /\ late' = late \cup {c}
    /\ UNCHANGED <<ledger, messages, ran, phases, starting, mission>>

\* Mutant: the deadline is for runs only.
ExpireRuns(c) ==
    /\ ~starting /\ Awaits(c, AwaitRun) /\ c \in late
    /\ Same(c, "closed", 0)
    /\ late' = late \ {c}
    /\ UNCHANGED <<messages, phases, starting, mission>>

\* step, abandon, show or verify past the deadline write deadline_expired.
Expire(c) ==
    /\ ~starting /\ Active(c) /\ c \in late
    /\ Same(c, "closed", 0)
    /\ late' = late \ {c}
    /\ UNCHANGED <<messages, phases, starting, mission>>

\* FDP-2's start reads the phase without a lock; past the deadline it first
\* closes the conversation it finds.
StartDialogue ==
    LET found == ledger["fdp2"]
        settled == IF Active("fdp2") /\ "fdp2" \in late
                     THEN Append(found, After("fdp2", "closed", Latest("fdp2").round, 0))
                     ELSE found
        conv == IF Started("fdp2") THEN Latest("fdp2").conv + 1 ELSE 1
    IN  /\ ~starting
        /\ Active("fdp2") => "fdp2" \in late
        /\ phase = "BUILD"
        /\ conv <= MaxConversations
        /\ ledger' = [ledger EXCEPT !["fdp2"] =
                Append(settled, [conv |-> conv, status |-> "awaiting_proposal_run",
                                 round |-> 0, copy |-> 0])]
        /\ ran' = ran \ {"fdp2"} /\ late' = late \ {"fdp2"}
        /\ UNCHANGED <<messages, phases, starting, mission>>

\* fleet-send.sh and fleet-dispatch.sh check the phase before the run starts.
Dispatch(c) ==
    /\ Awaits(c, AwaitRun) /\ c \notin ran
    /\ phase = RunPhase[Latest(c).status]
    /\ ran' = ran \cup {c}
    /\ UNCHANGED <<ledger, messages, late, phases, starting, mission>>

\* A run that failed, timed out or broke its contract ends the conversation.
StepRun(c) ==
    /\ Call(c) /\ Awaits(c, AwaitRun) /\ c \in ran
    /\ \/ Same(c, AfterRun[Latest(c).status], 0)
       \/ Same(c, "closed", 0)
    /\ UNCHANGED <<messages, late, phases, starting, mission>>

\* A message of these whose contract does not hold ends the conversation unbound.
Judged == {"awaiting_checker_message", "awaiting_challenge_message",
           "awaiting_verification_message"}

\* _ingest_message_locked binds a message that answers the latest event.
Bind(c, copy) ==
    LET event == Latest(c)
    IN  \/ /\ event.status \in DOMAIN AfterMessage
           /\ Same(c, AfterMessage[event.status], copy)
        \/ /\ event.status = "awaiting_checker_message"
           /\ \/ Same(c, "accepted", copy)
              \/ Same(c, "closed", copy)  \* REJECT, or rounds exhausted
              \/ /\ event.round < MaxRounds
                 /\ Follow(c, "awaiting_revision_run", event.round + 1, copy)
        \/ /\ event.status = "awaiting_verification_message"
           /\ \/ Same(c, "verified", copy)
              \/ Same(c, "closed", copy)
        \/ /\ event.status \in Judged
           /\ Same(c, "closed", 0)

StepMessage(c) ==
    /\ Call(c) /\ Awaits(c, AwaitMessage)
    /\ \E m \in messages :
         /\ m.ctl = c /\ m.at = Len(ledger[c])
         /\ Bind(c, m.copy)
    /\ UNCHANGED <<messages, late, phases, starting, mission>>

\* FDP-3 acknowledges VERIFY only if it was entered on this very event.
VerifyEntered == phase = "VERIFY" /\ evidence = Len(ledger["fdp3"])

StepPhase ==
    /\ Call("fdp3") /\ Awaits("fdp3", {"awaiting_phase_advance"})
    /\ VerifyEntered
    /\ Same("fdp3", "awaiting_verification_run", 0)
    /\ UNCHANGED <<messages, late, phases, starting, mission>>

Abandon(c) ==
    /\ Call(c)
    /\ Same(c, "closed", 0)
    /\ UNCHANGED <<messages, late, phases, starting, mission>>

----------------------------------------------------------------------------
(* Publication.                                                            *)

\* Mutant: publication asks no controller.
AuthorizedByNone(c, at) == ledger[c][at].status \in AwaitMessage

\* _authorize_publication_locked: one active controller, awaiting this message.
Authorized(c, at) ==
    /\ Active(c) /\ \A other \in Controllers \ {c} : ~Active(other)
    /\ at = Len(ledger[c]) /\ Latest(c).status \in AwaitMessage

Duplicates == {m \in messages : m.copy > 1}

\* A retry under the same key returns the message it finds; another key adds one.
Publish(c, at) ==
    LET copies == {m \in messages : m.ctl = c /\ m.at = at}
    IN  /\ ~starting
        /\ ledger[c][at].status \in AwaitMessage
        /\ Authorized(c, at)
        /\ copies # {} => Cardinality(Duplicates) < MaxDuplicates
        /\ messages' = messages \cup {[ctl |-> c, at |-> at, copy |-> Cardinality(copies) + 1]}
        /\ UNCHANGED <<ledger, ran, late, phases, starting, mission>>

\* Without any controller ledger nothing authorizes: an operator publishes a run
\* of the Maker on his own.
PublishFreely ==
    /\ ~starting /\ phase = "BUILD"
    /\ \A c \in Controllers : ~Started(c)
    /\ messages = {}
    /\ messages' = {[ctl |-> "fdp2", at |-> 0, copy |-> 1]}
    /\ UNCHANGED <<ledger, ran, late, phases, starting, mission>>

----------------------------------------------------------------------------
(* The start of FDP-3.                                                     *)

\* Mutant: the BUILD gate has checked the dialogue already.
StartTrustingGate == ~Started("fdp3") /\ phase = "CHALLENGE"

\* Mutant: the phase is checked with the approval only, under the mission lock.
StartCheckedLate == ~Started("fdp3") /\ Accepted /\ BindingsComplete("fdp2")

\* Under the coordinator: CHALLENGE is open and the dialogue accepted and bound.
StartPermitted ==
    /\ ~Started("fdp3")
    /\ phase = "CHALLENGE"
    /\ Accepted /\ BindingsComplete("fdp2")

PrepareAssurance ==
    /\ ~starting /\ StartPermitted
    /\ starting' = TRUE
    /\ UNCHANGED <<control, phases, mission>>

\* Under the mission lock too: the approval that opened CHALLENGE is in force.
CommitAssurance ==
    /\ starting /\ ~MissionLocked
    /\ phase = "CHALLENGE" /\ opened = approval /\ ~expired
    /\ Append1("fdp3", [conv |-> 1, status |-> "awaiting_challenge_run",
                        round |-> 0, copy |-> 0])
    /\ starting' = FALSE
    /\ UNCHANGED <<messages, late, phases, mission>>

\* The approval is another one or expired, or the process is killed.
RefuseAssurance ==
    /\ starting /\ ~MissionLocked
    /\ starting' = FALSE
    /\ UNCHANGED <<control, phases, mission>>

----------------------------------------------------------------------------
(* The phase machine and the mission's approval.                           *)

\* The caller names its evidence; the approval is validated under the mission lock.
BeginAdvance(ev) ==
    /\ advance.pc = "idle" /\ phase \in DOMAIN NextPhase
    /\ phase = "BUILD" => ~expired
    /\ advance' = [pc |-> "gate", evidence |-> ev]
    /\ UNCHANGED <<control, phase, opened, evidence, starting, mission>>

\* Mutant: the exact control head is evidence enough.
ChallengeGateOnHead ==
    /\ Active("fdp3") /\ "fdp3" \notin late
    /\ advance.evidence = Len(ledger["fdp3"])
    /\ BindingsComplete("fdp3")

\* accepted_build_gate and challenge_phase_gate.
BuildGate == Accepted /\ BindingsComplete("fdp2")
ChallengeGate ==
    /\ Awaits("fdp3", {"awaiting_phase_advance"}) /\ "fdp3" \notin late
    /\ advance.evidence = Len(ledger["fdp3"])
    /\ BindingsComplete("fdp3")

PassGate ==
    /\ advance.pc = "gate"
    /\ phase = "BUILD" => ~starting /\ BuildGate
    /\ phase = "CHALLENGE" => ~starting /\ ChallengeGate
    /\ advance' = [advance EXCEPT !.pc = "write"]
    /\ UNCHANGED <<control, phase, opened, evidence, starting, mission>>

\* The CHALLENGE gate writes a deadline down before it refuses.
GateExpires ==
    /\ advance.pc = "gate" /\ phase = "CHALLENGE" /\ ~starting
    /\ Active("fdp3") /\ "fdp3" \in late
    /\ Same("fdp3", "closed", 0)
    /\ late' = late \ {"fdp3"}
    /\ advance' = [pc |-> "idle", evidence |-> 0]
    /\ UNCHANGED <<messages, phase, opened, evidence, starting, mission>>

\* The gate refuses, or the process is killed before its write.
GiveUp ==
    /\ advance.pc # "idle"
    /\ advance' = [pc |-> "idle", evidence |-> 0]
    /\ UNCHANGED <<control, phase, opened, evidence, starting, mission>>

WritePhase ==
    /\ advance.pc = "write"
    /\ phase' = NextPhase[phase]
    /\ opened' = IF phase = "BUILD" THEN approval ELSE opened
    /\ evidence' = IF phase = "CHALLENGE" THEN advance.evidence ELSE evidence
    /\ advance' = [pc |-> "idle", evidence |-> 0]
    /\ UNCHANGED <<control, starting, mission>>

ApprovalExpires ==
    /\ ~expired
    /\ expired' = TRUE
    /\ UNCHANGED <<control, phases, starting, approval>>

\* A renewal is an append to the mission ledger, under its lock.
RenewApproval ==
    /\ expired /\ ~MissionLocked /\ approval < MaxApprovals
    /\ approval' = approval + 1
    /\ expired' = FALSE
    /\ UNCHANGED <<control, phases, starting>>

----------------------------------------------------------------------------
ControllerStep ==
    \/ StartDialogue \/ StepPhase \/ PublishFreely
    \/ \E c \in Controllers :
         \/ DeadlinePasses(c) \/ Expire(c)
         \/ Dispatch(c) \/ StepRun(c) \/ StepMessage(c) \/ Abandon(c)
         \/ \E at \in DOMAIN ledger[c] : Publish(c, at)

StartStep == PrepareAssurance \/ CommitAssurance \/ RefuseAssurance

AdvanceStep ==
    \/ \E ev \in 0 .. Len(ledger["fdp3"]) : BeginAdvance(ev)
    \/ PassGate \/ GateExpires \/ GiveUp \/ WritePhase

Next ==
    \/ ControllerStep \/ StartStep \/ AdvanceStep
    \/ ApprovalExpires \/ RenewApproval

Spec == Init /\ [][Next]_vars

\* Time passes, and somebody looks again: whatever goes on with the feature, the
\* runner's next step, a resumed drive's show, the operator's show or the
\* teardown's verify, writes the deadline down first.
FairSpec ==
    /\ Spec
    /\ \A c \in Controllers : WF_vars(DeadlinePasses(c)) /\ WF_vars(Expire(c))

----------------------------------------------------------------------------
(* Properties.                                                             *)

\* Once FDP-3 exists, the dialogue it assures stays accepted, nothing was said in
\* it that no event binds, and it never speaks again: start, the phase check of
\* FDP-2's start, and publication's authorization close every way around it, the
\* window between the BUILD gate and the phase write included.
SealedBase == Started("fdp3") => Accepted /\ BindingsComplete("fdp2")

\* VERIFY is entered on the event that bound the challenge, and FDP-3 goes past
\* that event only in VERIFY: gate, phase write and acknowledgement agree,
\* whatever happens between them.
VerifyAfterChallenge ==
    LET verifying == {"awaiting_verification_run", "awaiting_verification_message", "verified"}
    IN  /\ phase = "VERIFY" =>
             /\ evidence \in DOMAIN ledger["fdp3"]
             /\ ledger["fdp3"][evidence].status = "awaiting_phase_advance"
             /\ ledger["fdp3"][evidence].copy # 0
        /\ \A i \in DOMAIN ledger["fdp3"] :
             ledger["fdp3"][i].status \in verifying => phase = "VERIFY" /\ evidence < i

\* A phase advance takes the mission lock before the coordinator, FDP-3's start
\* after it: the two never wait for each other.
LocksNeverCross == ~(starting /\ MissionLocked /\ advance.pc = "gate")

\* A conversation or an assurance that waits for a run, a message or a phase that
\* never comes does not hold its authority for ever.
AuthorityReleased == \A c \in Controllers : Active(c) ~> ~Active(c)
=============================================================================
