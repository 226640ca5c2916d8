-------------------------- MODULE Assurance_proofs --------------------------
(***************************************************************************)
(* Proofs about Assurance, for any number of revision rounds,              *)
(* conversations, duplicate publications and approvals.                    *)
(***************************************************************************)
EXTENDS Assurance, FiniteSetTheorems, TLAPS

USE DEF vars, control, phases, mission, Controllers, Phases

Verifying == {"awaiting_verification_run", "awaiting_verification_message", "verified"}

\* An event that binds the challenge and awaits VERIFY.
ChallengeBound(e) ==
    /\ e \in DOMAIN ledger["fdp3"]
    /\ ledger["fdp3"][e].status = "awaiting_phase_advance"
    /\ ledger["fdp3"][e].copy # 0

\* While FDP-3's start holds the coordinator, what it found stays true.
StartHeld == starting =>
    phase = "CHALLENGE" /\ ~Started("fdp3") /\ Accepted /\ BindingsComplete("fdp2")

\* FDP-3 exists from CHALLENGE on.
Opened == Started("fdp3") => phase \in {"CHALLENGE", "VERIFY"}

\* A gate's result stays true until the phase is written: events are never removed.
AdvanceHeld ==
    /\ advance.pc # "idle" => phase # "VERIFY"
    /\ advance.pc = "write" /\ phase = "CHALLENGE" => ChallengeBound(advance.evidence)

\* Only a bound challenge makes FDP-3 await the phase.
ChallengesBind == \A i \in DOMAIN ledger["fdp3"] :
    ledger["fdp3"][i].status = "awaiting_phase_advance" => ledger["fdp3"][i].copy # 0

IInv ==
    /\ TypeOK /\ StartHeld /\ Opened /\ AdvanceHeld /\ ChallengesBind
    /\ SealedBase /\ VerifyAfterChallenge

----------------------------------------------------------------------------
(* What a step appends.                                                    *)

\* The events a step may append to FDP-3's ledger.
Follows(e) ==
    /\ e \in Event
    /\ Started("fdp3") \/ starting
    /\ e.status = "awaiting_phase_advance" => e.copy # 0
    /\ e.status \in Verifying =>
         /\ Started("fdp3")
         /\ Latest("fdp3").status \in Verifying \/ VerifyEntered

Grows ==
    \/ ledger' = ledger
    \/ \E e \in Event : ledger' = [ledger EXCEPT !["fdp2"] = Append(@, e)]
    \/ \E d, e \in Event : ledger' = [ledger EXCEPT !["fdp2"] = Append(Append(@, d), e)]
    \/ \E e \in Event : Follows(e) /\ ledger' = [ledger EXCEPT !["fdp3"] = Append(@, e)]

\* The latest event of a started controller is an event.
LEMMA LatestEvent ==
  ASSUME TypeOK, NEW c \in Controllers, Started(c)
  PROVE  /\ Latest(c) \in Event
         /\ Len(ledger[c]) \in Nat \ {0}
         /\ Len(ledger[c]) \in DOMAIN ledger[c]
<1>1. ledger[c] \in Seq(Event) /\ ledger[c] # <<>>
  BY DEF TypeOK, Started
<1>2. Len(ledger[c]) \in Nat \ {0} /\ DOMAIN ledger[c] = 1 .. Len(ledger[c])
  BY <1>1
<1> QED BY <1>1, <1>2 DEF Latest

USE DEF AwaitRun, AwaitMessage, ActiveStates, Statuses, RunPhase, AfterRun, AfterMessage

\* An event that follows the latest one keeps FDP-3's order.
LEMMA FollowGrows ==
  ASSUME TypeOK, NEW c \in Controllers, Started(c),
         NEW status \in Statuses, NEW round \in Nat, NEW copy \in Nat,
         Follow(c, status, round, copy),
         c = "fdp3" =>
           /\ status = "awaiting_phase_advance" => copy # 0
           /\ status \in Verifying => Latest("fdp3").status \in Verifying \/ VerifyEntered
  PROVE  Grows
<1> DEFINE e == After(c, status, round, copy)
<1>1. e \in Event
  BY LatestEvent DEF Event, After
<1>2. ledger' = [ledger EXCEPT ![c] = Append(@, e)]
  BY DEF Follow, Append1
<1>3. c = "fdp3" => Follows(e)
  BY <1>1 DEF Follows, After
<1> HIDE DEF e
<1> QED BY <1>1, <1>2, <1>3 DEF Grows

LEMMA StepGrows == ASSUME TypeOK, [Next]_vars PROVE Grows
<1> SUFFICES ASSUME ledger' # ledger PROVE Grows
  BY DEF Grows
<1>1. ASSUME StartDialogue PROVE Grows
  <2> DEFINE d == After("fdp2", "closed", Latest("fdp2").round, 0)
             conv == IF Started("fdp2") THEN Latest("fdp2").conv + 1 ELSE 1
             e == [conv |-> conv, status |-> "awaiting_proposal_run", round |-> 0, copy |-> 0]
  <2>1. Started("fdp2") => d \in Event
    BY LatestEvent DEF Event, After
  <2>2. conv \in Nat
    BY LatestEvent DEF Event
  <2>3. e \in Event
    BY <2>2 DEF Event
  <2>4. \/ ledger' = [ledger EXCEPT !["fdp2"] = Append(@, e)]
        \/ Started("fdp2") /\ ledger' = [ledger EXCEPT !["fdp2"] = Append(Append(@, d), e)]
    BY <1>1 DEF StartDialogue, Active, TypeOK
  <2> HIDE DEF d, e
  <2> QED BY <2>1, <2>3, <2>4 DEF Grows
<1>2. ASSUME StepPhase PROVE Grows
  BY <1>2, FollowGrows, LatestEvent DEF StepPhase, Same, Awaits, Event
<1>3. ASSUME NEW c \in Controllers, Expire(c) \/ Abandon(c) PROVE Grows
  BY <1>3, FollowGrows, LatestEvent DEF Expire, Abandon, Call, Same, Active, Event, Verifying
<1>4. ASSUME NEW c \in Controllers, StepRun(c) PROVE Grows
  BY <1>4, FollowGrows, LatestEvent DEF StepRun, Same, Awaits, Event, Verifying
<1>5. ASSUME NEW c \in Controllers, StepMessage(c) PROVE Grows
  <2>1. PICK m \in messages : Bind(c, m.copy)
    BY <1>5 DEF StepMessage
  <2>2. m.copy \in Nat \ {0}
    BY DEF TypeOK
  <2>3. Started(c) /\ Latest(c).status \in AwaitMessage /\ Latest(c) \in Event
    BY <1>5, LatestEvent DEF StepMessage, Awaits
  <2>4. CASE Latest(c).status \in DOMAIN AfterMessage
    BY <2>1, <2>2, <2>3, <2>4, FollowGrows DEF Bind, Same, Event, Verifying
  <2>5. CASE Latest(c).status = "awaiting_checker_message"
    BY <2>1, <2>2, <2>3, <2>5, FollowGrows DEF Bind, Same, Event, Verifying
  <2>6. CASE Latest(c).status = "awaiting_verification_message"
    BY <2>1, <2>2, <2>3, <2>6, FollowGrows DEF Bind, Same, Event, Verifying
  <2> QED BY <2>3, <2>4, <2>5, <2>6
<1>6. ASSUME CommitAssurance PROVE Grows
  <2> DEFINE e == [conv |-> 1, status |-> "awaiting_challenge_run", round |-> 0, copy |-> 0]
  <2>1. e \in Event
    BY DEF Event
  <2>2. ledger' = [ledger EXCEPT !["fdp3"] = Append(@, e)] /\ starting
    BY <1>6 DEF CommitAssurance, Append1
  <2>3. Follows(e)
    BY <2>1, <2>2 DEF Follows, Verifying
  <2> HIDE DEF e
  <2> QED BY <2>1, <2>2, <2>3 DEF Grows
<1>7. ASSUME GateExpires PROVE Grows
  BY <1>7, FollowGrows, LatestEvent DEF GateExpires, Same, Active, Event, Verifying
<1> QED
  BY <1>1, <1>2, <1>3, <1>4, <1>5, <1>6, <1>7
  DEF Next, ControllerStep, StartStep, AdvanceStep, DeadlinePasses, Dispatch, Publish,
      PublishFreely, PrepareAssurance, RefuseAssurance, BeginAdvance, PassGate, GiveUp,
      WritePhase, ApprovalExpires, RenewApproval

----------------------------------------------------------------------------
(* Type correctness.                                                       *)

LEMMA MessagesStep ==
  ASSUME TypeOK, [Next]_vars
  PROVE  /\ IsFiniteSet(messages')
         /\ messages' \subseteq [ctl : Controllers, at : Nat, copy : Nat \ {0}]
<1>1. ASSUME NEW c \in Controllers, NEW at \in DOMAIN ledger[c], Publish(c, at)
      PROVE  IsFiniteSet(messages') /\ messages' \subseteq [ctl : Controllers, at : Nat, copy : Nat \ {0}]
  <2> DEFINE copies == {m \in messages : m.ctl = c /\ m.at = at}
             m == [ctl |-> c, at |-> at, copy |-> Cardinality(copies) + 1]
  <2>1. IsFiniteSet(messages) /\ messages \subseteq [ctl : Controllers, at : Nat, copy : Nat \ {0}]
    BY DEF TypeOK
  <2>2. IsFiniteSet(copies)
    BY <2>1, FS_Subset
  <2>3. Cardinality(copies) \in Nat
    BY <2>2, FS_CardinalityType
  <2>4. at \in Nat
    BY DEF TypeOK
  <2>5. messages' = messages \cup {m}
    BY <1>1 DEF Publish
  <2>6. m \in [ctl : Controllers, at : Nat, copy : Nat \ {0}]
    BY <2>3, <2>4
  <2> HIDE DEF m
  <2> QED BY <2>1, <2>5, <2>6, FS_AddElement
<1>2. ASSUME PublishFreely
      PROVE  IsFiniteSet(messages') /\ messages' \subseteq [ctl : Controllers, at : Nat, copy : Nat \ {0}]
  <2>1. messages' = {[ctl |-> "fdp2", at |-> 0, copy |-> 1]}
    BY <1>2 DEF PublishFreely
  <2>2. \A x : IsFiniteSet({x})
    BY FS_Singleton
  <2>3. IsFiniteSet(messages')
    BY <2>1, <2>2
  <2>4. messages' \subseteq [ctl : Controllers, at : Nat, copy : Nat \ {0}]
    BY <2>1
  <2> QED BY <2>3, <2>4
<1>3. CASE messages' = messages
  BY <1>3 DEF TypeOK
<1> QED
  BY <1>1, <1>2, <1>3
  DEF Next, ControllerStep, StartStep, AdvanceStep, DeadlinePasses, Expire, StartDialogue,
      Dispatch, StepRun, StepMessage, StepPhase, Abandon, PrepareAssurance, CommitAssurance,
      RefuseAssurance, BeginAdvance, PassGate, GateExpires, GiveUp, WritePhase,
      ApprovalExpires, RenewApproval

LEMMA LedgerStep == ASSUME TypeOK, [Next]_vars PROVE ledger' \in [Controllers -> Seq(Event)]
<1>1. ledger \in [Controllers -> Seq(Event)]
  BY DEF TypeOK
<1>2. CASE \E e \in Event : ledger' = [ledger EXCEPT !["fdp2"] = Append(@, e)]
  BY <1>1, <1>2
<1>3. CASE \E d, e \in Event : ledger' = [ledger EXCEPT !["fdp2"] = Append(Append(@, d), e)]
  BY <1>1, <1>3
<1>4. CASE \E e \in Event : Follows(e) /\ ledger' = [ledger EXCEPT !["fdp3"] = Append(@, e)]
  BY <1>1, <1>4
<1> QED BY <1>1, <1>2, <1>3, <1>4, StepGrows DEF Grows

\* The variables but ledger and messages.
Rest ==
    /\ ran \subseteq Controllers /\ late \subseteq Controllers
    /\ phase \in Phases
    /\ opened \in Nat /\ evidence \in Nat
    /\ advance \in [pc : {"idle", "gate", "write"}, evidence : Nat]
    /\ starting \in BOOLEAN
    /\ approval \in Nat /\ expired \in BOOLEAN

LEMMA RestStep == ASSUME TypeOK, AdvanceHeld, [Next]_vars PROVE Rest'
<1> USE DEF TypeOK, Rest
<1>1. ASSUME NEW c \in Controllers,
             DeadlinePasses(c) \/ Expire(c) \/ Dispatch(c) \/ StepRun(c) \/ Abandon(c)
      PROVE  Rest'
  BY <1>1 DEF DeadlinePasses, Expire, Dispatch, StepRun, Abandon, Same, Follow, Append1
<1>2. ASSUME NEW c \in Controllers, StepMessage(c) PROVE Rest'
  BY <1>2 DEF StepMessage, Bind, Same, Follow, Append1
<1>3. ASSUME NEW c \in Controllers, NEW at \in DOMAIN ledger[c], Publish(c, at) PROVE Rest'
  BY <1>3 DEF Publish
<1>4. ASSUME StartDialogue \/ StepPhase \/ PublishFreely PROVE Rest'
  BY <1>4 DEF StartDialogue, StepPhase, PublishFreely, Same, Follow, Append1
<1>5. ASSUME StartStep PROVE Rest'
  BY <1>5 DEF StartStep, PrepareAssurance, CommitAssurance, RefuseAssurance, Append1
<1>6. ASSUME NEW ev \in 0 .. Len(ledger["fdp3"]), BeginAdvance(ev) PROVE Rest'
  BY <1>6 DEF BeginAdvance
<1>7. ASSUME PassGate \/ GateExpires \/ GiveUp PROVE Rest'
  BY <1>7 DEF PassGate, GateExpires, GiveUp, Same, Follow, Append1
<1>8. ASSUME WritePhase PROVE Rest'
  BY <1>8 DEF WritePhase, NextPhase, AdvanceHeld
<1>9. ASSUME ApprovalExpires PROVE Rest'
  BY <1>9 DEF ApprovalExpires
<1>10. ASSUME RenewApproval PROVE Rest'
  <2>1. approval' \in Nat /\ expired' = FALSE
    BY <1>10 DEF RenewApproval
  <2> QED BY <1>10, <2>1 DEF RenewApproval
<1>11. CASE UNCHANGED vars
  BY <1>11
<1> QED
  BY <1>1, <1>2, <1>3, <1>4, <1>5, <1>6, <1>7, <1>8, <1>9, <1>10, <1>11
  DEF Next, ControllerStep, AdvanceStep

LEMMA TypeStep == ASSUME TypeOK, AdvanceHeld, [Next]_vars PROVE TypeOK'
  BY MessagesStep, LedgerStep, RestStep DEF TypeOK, Rest

----------------------------------------------------------------------------
(* The dialogue under FDP-3.                                               *)

\* Past BUILD, an accepted dialogue with complete bindings stays as it is.
LEMMA SealedStep ==
  ASSUME TypeOK, phase # "BUILD", Accepted, BindingsComplete("fdp2"), [Next]_vars
  PROVE  Accepted' /\ BindingsComplete("fdp2")'
<1> DEFINE Said(ms) == {m \in ms : m.ctl = "fdp2"}
<1>1. ~Active("fdp2")
  BY DEF Accepted, Active
<1>2. ASSUME ledger'["fdp2"] = ledger["fdp2"], Said(messages') = Said(messages)
      PROVE  Accepted' /\ BindingsComplete("fdp2")'
  BY <1>2 DEF Accepted, Started, Latest, BindingsComplete, Bound
<1>3. ASSUME NEW c \in Controllers, NEW at \in DOMAIN ledger[c], Publish(c, at)
      PROVE  ledger'["fdp2"] = ledger["fdp2"] /\ Said(messages') = Said(messages)
  <2>1. c = "fdp3"
    BY <1>1, <1>3 DEF Publish, Authorized
  <2> QED BY <1>3, <2>1 DEF Publish
<1>4. ASSUME NEW c \in Controllers,
             DeadlinePasses(c) \/ Expire(c) \/ Dispatch(c) \/ StepRun(c) \/ Abandon(c)
      PROVE  ledger'["fdp2"] = ledger["fdp2"] /\ messages' = messages
  BY <1>1, <1>4
  DEF TypeOK, DeadlinePasses, Expire, Dispatch, StepRun, Abandon, Call, Same, Follow, Append1
<1>5. ASSUME NEW c \in Controllers, StepMessage(c)
      PROVE  ledger'["fdp2"] = ledger["fdp2"] /\ messages' = messages
  BY <1>1, <1>5 DEF TypeOK, StepMessage, Call, Bind, Same, Follow, Append1
<1>6. ASSUME StepPhase
      PROVE  ledger'["fdp2"] = ledger["fdp2"] /\ messages' = messages
  BY <1>6 DEF TypeOK, StepPhase, Same, Follow, Append1
<1>7. ASSUME StartStep
      PROVE  ledger'["fdp2"] = ledger["fdp2"] /\ messages' = messages
  BY <1>7 DEF TypeOK, StartStep, PrepareAssurance, CommitAssurance, RefuseAssurance, Append1
<1>8. ASSUME AdvanceStep \/ ApprovalExpires \/ RenewApproval \/ UNCHANGED vars
      PROVE  ledger'["fdp2"] = ledger["fdp2"] /\ messages' = messages
  BY <1>8
  DEF TypeOK, AdvanceStep, BeginAdvance, PassGate, GateExpires, GiveUp, WritePhase,
      ApprovalExpires, RenewApproval, Same, Follow, Append1
<1>9. ~StartDialogue /\ ~PublishFreely
  BY DEF StartDialogue, PublishFreely
<1> QED
  BY <1>2, <1>3, <1>4, <1>5, <1>6, <1>7, <1>8, <1>9 DEF Next, ControllerStep

----------------------------------------------------------------------------
(* FDP-3's ledger and the phases.                                          *)

\* FDP-3's ledger keeps its events, and an event it gains follows its latest.
LEMMA Fdp3Grows ==
  ASSUME TypeOK, [Next]_vars
  PROVE  \/ ledger'["fdp3"] = ledger["fdp3"]
         \/ \E e \in Event : Follows(e) /\ ledger'["fdp3"] = Append(ledger["fdp3"], e)
  BY StepGrows DEF Grows, TypeOK

\* How the phase moves: only under the phase lock, and only onwards.
LEMMA PhaseMoves ==
  ASSUME [Next]_vars
  PROVE  \/ phase' = phase /\ evidence' = evidence
         \/ WritePhase
  BY DEF Next, ControllerStep, StartStep, AdvanceStep, DeadlinePasses, Expire, StartDialogue,
      Dispatch, StepRun, StepMessage, StepPhase, Abandon, Publish, PublishFreely,
      PrepareAssurance, CommitAssurance, RefuseAssurance, BeginAdvance, PassGate,
      GateExpires, GiveUp, ApprovalExpires, RenewApproval

LEMMA ChallengesStep ==
  ASSUME TypeOK, ChallengesBind, [Next]_vars
  PROVE  /\ ChallengesBind'
         /\ \A i \in DOMAIN ledger["fdp3"] :
              i \in DOMAIN ledger'["fdp3"] /\ ledger'["fdp3"][i] = ledger["fdp3"][i]
<1>1. ledger["fdp3"] \in Seq(Event)
  BY DEF TypeOK
<1>2. CASE ledger'["fdp3"] = ledger["fdp3"]
  BY <1>2 DEF ChallengesBind
<1>3. ASSUME NEW e \in Event, Follows(e), ledger'["fdp3"] = Append(ledger["fdp3"], e)
      PROVE  /\ ChallengesBind'
             /\ \A i \in DOMAIN ledger["fdp3"] :
                  i \in DOMAIN ledger'["fdp3"] /\ ledger'["fdp3"][i] = ledger["fdp3"][i]
  <2>1. e.status = "awaiting_phase_advance" => e.copy # 0
    BY <1>3 DEF Follows
  <2> QED BY <1>1, <1>3, <2>1 DEF ChallengesBind
<1> QED BY <1>2, <1>3, Fdp3Grows

LEMMA AdvanceStepHeld ==
  ASSUME TypeOK, AdvanceHeld, ChallengesBind, [Next]_vars
  PROVE  AdvanceHeld'
<1>1. ASSUME advance' = advance, phase' = phase PROVE AdvanceHeld'
  BY <1>1, ChallengesStep DEF AdvanceHeld, ChallengeBound
<1>2. ASSUME advance'.pc = "idle" PROVE AdvanceHeld'
  BY <1>2 DEF AdvanceHeld
<1>3. ASSUME NEW ev \in 0 .. Len(ledger["fdp3"]), BeginAdvance(ev) PROVE AdvanceHeld'
  BY <1>3 DEF BeginAdvance, AdvanceHeld, NextPhase
<1>4. ASSUME PassGate PROVE AdvanceHeld'
  <2>1. phase' = phase /\ ledger' = ledger /\ advance'.evidence = advance.evidence
    BY <1>4 DEF PassGate, TypeOK
  <2>2. phase # "VERIFY"
    BY <1>4 DEF PassGate, AdvanceHeld
  <2>3. phase = "CHALLENGE" => ChallengeBound(advance.evidence)
    BY <1>4, LatestEvent
    DEF PassGate, ChallengeGate, Awaits, Latest, ChallengesBind, ChallengeBound
  <2> QED BY <2>1, <2>2, <2>3 DEF AdvanceHeld, ChallengeBound
<1>5. ASSUME GateExpires \/ GiveUp \/ WritePhase PROVE AdvanceHeld'
  <2>1. advance'.pc = "idle"
    BY <1>5 DEF GateExpires, GiveUp, WritePhase
  <2> QED BY <2>1, <1>2
<1> QED
  BY <1>1, <1>3, <1>4, <1>5
  DEF Next, ControllerStep, StartStep, AdvanceStep, DeadlinePasses, Expire, StartDialogue,
      Dispatch, StepRun, StepMessage, StepPhase, Abandon, Publish, PublishFreely,
      PrepareAssurance, CommitAssurance, RefuseAssurance, ApprovalExpires, RenewApproval

LEMMA StartHeldStep ==
  ASSUME TypeOK, StartHeld, AdvanceHeld, [Next]_vars
  PROVE  StartHeld'
<1> SUFFICES ASSUME starting'
             PROVE  phase' = "CHALLENGE" /\ ~Started("fdp3")' /\ Accepted' /\ BindingsComplete("fdp2")'
  BY DEF StartHeld
<1>1. CASE PrepareAssurance
  BY <1>1 DEF PrepareAssurance, StartPermitted, Started, Accepted, BindingsComplete, Bound, Latest
<1>2. CASE ~PrepareAssurance
  <2>1. starting
    BY <1>2
    DEF Next, ControllerStep, StartStep, AdvanceStep, DeadlinePasses, Expire, StartDialogue,
        Dispatch, StepRun, StepMessage, StepPhase, Abandon, Publish, PublishFreely,
        CommitAssurance, RefuseAssurance, BeginAdvance, PassGate, GateExpires, GiveUp,
        WritePhase, ApprovalExpires, RenewApproval
  <2>2. phase = "CHALLENGE" /\ ~Started("fdp3") /\ Accepted /\ BindingsComplete("fdp2")
    BY <2>1 DEF StartHeld
  <2>3. Accepted' /\ BindingsComplete("fdp2")'
    BY <2>2, SealedStep
  <2>4. ~WritePhase
    <3>1. ledger["fdp3"] = <<>>
      BY <2>2 DEF Started
    <3>2. ~ChallengeBound(advance.evidence)
      BY <3>1 DEF ChallengeBound
    <3> QED BY <2>2, <3>2 DEF WritePhase, AdvanceHeld
  <2>5. phase' = "CHALLENGE"
    BY <2>2, <2>4, PhaseMoves
  <2>6. ledger' = ledger
    BY <2>1, <2>2
    DEF Next, ControllerStep, StartStep, AdvanceStep, DeadlinePasses, Expire, StartDialogue,
        Dispatch, StepRun, StepMessage, StepPhase, Abandon, Publish, PublishFreely, Call,
        PrepareAssurance, CommitAssurance, RefuseAssurance, BeginAdvance, PassGate,
        GateExpires, GiveUp, WritePhase, ApprovalExpires, RenewApproval
  <2> QED BY <2>2, <2>3, <2>5, <2>6 DEF Started
<1> QED BY <1>1, <1>2

LEMMA OpenedStep ==
  ASSUME TypeOK, StartHeld, Opened, AdvanceHeld, [Next]_vars
  PROVE  Opened'
<1>1. Started("fdp3")' => phase \in {"CHALLENGE", "VERIFY"}
  <2>1. CASE ledger'["fdp3"] = ledger["fdp3"]
    BY <2>1 DEF Opened, Started
  <2>2. CASE \E e \in Event : Follows(e) /\ ledger'["fdp3"] = Append(ledger["fdp3"], e)
    BY <2>2 DEF Follows, Opened, StartHeld
  <2> QED BY <2>1, <2>2, Fdp3Grows
<1>2. CASE WritePhase
  BY <1>1, <1>2 DEF WritePhase, AdvanceHeld, NextPhase, Opened, TypeOK
<1>3. CASE phase' = phase
  BY <1>1, <1>3 DEF Opened
<1> QED BY <1>2, <1>3, PhaseMoves

LEMMA SealedBaseStep ==
  ASSUME TypeOK, StartHeld, Opened, SealedBase, [Next]_vars
  PROVE  SealedBase'
<1> SUFFICES ASSUME Started("fdp3")'
             PROVE  Accepted' /\ BindingsComplete("fdp2")'
  BY DEF SealedBase
<1>1. Started("fdp3") \/ starting
  <2>1. CASE ledger'["fdp3"] = ledger["fdp3"]
    BY <2>1 DEF Started
  <2>2. CASE \E e \in Event : Follows(e) /\ ledger'["fdp3"] = Append(ledger["fdp3"], e)
    BY <2>2 DEF Follows
  <2> QED BY <2>1, <2>2, Fdp3Grows
<1>2. phase # "BUILD" /\ Accepted /\ BindingsComplete("fdp2")
  BY <1>1 DEF StartHeld, Opened, SealedBase
<1> QED BY <1>2, SealedStep

\* Both halves of VerifyAfterChallenge.
Entered == phase = "VERIFY" => ChallengeBound(evidence)
Acknowledged == \A i \in DOMAIN ledger["fdp3"] :
    ledger["fdp3"][i].status \in Verifying => phase = "VERIFY" /\ evidence < i

LEMMA VerifyHalves == VerifyAfterChallenge <=> Entered /\ Acknowledged
  BY DEF VerifyAfterChallenge, Entered, Acknowledged, ChallengeBound, Verifying

LEMMA EnteredStep ==
  ASSUME TypeOK, AdvanceHeld, ChallengesBind, Entered, [Next]_vars
  PROVE  Entered'
<1>1. \A n : ChallengeBound(n) => ChallengeBound(n)'
  BY ChallengesStep DEF ChallengeBound
<1>2. CASE phase' = phase /\ evidence' = evidence
  BY <1>1, <1>2 DEF Entered, ChallengeBound
<1>3. CASE WritePhase
  <2> SUFFICES ASSUME phase' = "VERIFY" PROVE ChallengeBound(evidence)'
    BY DEF Entered
  <2>1. phase = "CHALLENGE" /\ evidence' = advance.evidence
    BY <1>3 DEF WritePhase, NextPhase, AdvanceHeld, TypeOK
  <2>2. ChallengeBound(advance.evidence) /\ ledger' = ledger
    BY <1>3, <2>1 DEF WritePhase, AdvanceHeld
  <2> QED BY <2>1, <2>2 DEF ChallengeBound
<1> QED BY <1>2, <1>3, PhaseMoves

LEMMA AcknowledgedStep ==
  ASSUME TypeOK, StartHeld, AdvanceHeld, Acknowledged, [Next]_vars
  PROVE  Acknowledged'
<1>1. ledger["fdp3"] \in Seq(Event)
  BY DEF TypeOK
\* Nothing verifies before VERIFY: the phase write leaves the ledger alone.
<1>2. CASE WritePhase
  BY <1>2 DEF WritePhase, Acknowledged, AdvanceHeld
<1>3. CASE phase' = phase /\ evidence' = evidence
  <2>1. CASE ledger'["fdp3"] = ledger["fdp3"]
    BY <1>3, <2>1 DEF Acknowledged
  <2>2. ASSUME NEW e \in Event, Follows(e), ledger'["fdp3"] = Append(ledger["fdp3"], e)
        PROVE  Acknowledged'
    <3> SUFFICES ASSUME e.status \in Verifying
                 PROVE  phase = "VERIFY" /\ evidence < Len(ledger["fdp3"]) + 1
      BY <1>1, <1>3, <2>2 DEF Acknowledged
    <3>1. Started("fdp3") /\ (Latest("fdp3").status \in Verifying \/ VerifyEntered)
      BY <2>2 DEF Follows
    <3>2. evidence \in Nat /\ Len(ledger["fdp3"]) \in Nat
      BY <1>1 DEF TypeOK
    <3>3. CASE VerifyEntered
      BY <3>2, <3>3 DEF VerifyEntered
    <3>4. CASE Latest("fdp3").status \in Verifying
      <4>1. Len(ledger["fdp3"]) \in DOMAIN ledger["fdp3"]
        BY <3>1, LatestEvent
      <4> QED BY <3>2, <3>4, <4>1 DEF Acknowledged, Latest
    <3> QED BY <3>1, <3>3, <3>4
  <2> QED BY <2>1, <2>2, Fdp3Grows
<1> QED BY <1>2, <1>3, PhaseMoves

----------------------------------------------------------------------------
(* The theorems.                                                           *)

\* The inductive invariant: what FDP-3's start and a phase advance found under the
\* coordinator stays true while they hold it no longer.
THEOREM InvariantTheorem == Spec => []IInv
<1>1. Init => IInv
  <2> SUFFICES ASSUME Init PROVE IInv
    OBVIOUS
  <2>1. ledger = [c \in Controllers |-> <<>>] /\ messages = {}
    BY DEF Init
  <2>2. IsFiniteSet(messages)
    BY <2>1, FS_EmptySet
  <2>3. TypeOK
    <3>1. ledger \in [Controllers -> Seq(Event)]
      BY <2>1
    <3>2. messages \subseteq [ctl : Controllers, at : Nat, copy : Nat \ {0}]
      BY <2>1
    <3>3. starting \in BOOLEAN /\ expired \in BOOLEAN
      BY DEF Init
    <3>4. Rest
      BY <3>3 DEF Init, Rest
    <3> QED BY <2>2, <3>1, <3>2, <3>4 DEF TypeOK, Rest
  <2>4. ledger["fdp3"] = <<>> /\ DOMAIN ledger["fdp3"] = {}
    BY <2>1
  <2> QED
    BY <2>3, <2>4
    DEF Init, IInv, StartHeld, Opened, AdvanceHeld, ChallengesBind, SealedBase,
        VerifyAfterChallenge, Started
<1>2. IInv /\ [Next]_vars => IInv'
  <2> SUFFICES ASSUME IInv, [Next]_vars PROVE IInv'
    OBVIOUS
  <2>1. VerifyAfterChallenge'
    BY VerifyHalves, EnteredStep, AcknowledgedStep DEF IInv, VerifyAfterChallenge, Entered,
       Acknowledged, ChallengeBound, Verifying
  <2> QED
    BY <2>1, TypeStep, StartHeldStep, OpenedStep, AdvanceStepHeld, ChallengesStep,
       SealedBaseStep DEF IInv
<1> QED BY <1>1, <1>2, PTL DEF Spec

\* Ledgers, messages, phase and locks stay within their domains.
THEOREM TypeTheorem == Spec => []TypeOK
<1>1. IInv => TypeOK
  BY DEF IInv
<1> QED BY <1>1, InvariantTheorem, PTL

\* Once FDP-3 exists, the dialogue it assures stays accepted and completely bound.
THEOREM SealedTheorem == Spec => []SealedBase
<1>1. IInv => SealedBase
  BY DEF IInv
<1> QED BY <1>1, InvariantTheorem, PTL

\* VERIFY is entered on the event that bound the challenge, and nothing is verified
\* before.
THEOREM VerifyTheorem == Spec => []VerifyAfterChallenge
<1>1. IInv => VerifyAfterChallenge
  BY DEF IInv
<1> QED BY <1>1, InvariantTheorem, PTL

\* The mission lock and the coordinator are never awaited crosswise.
THEOREM LocksTheorem == Spec => []LocksNeverCross
<1>1. IInv => LocksNeverCross
  BY DEF IInv, StartHeld, LocksNeverCross, MissionLocked
<1> QED BY <1>1, InvariantTheorem, PTL
=============================================================================
