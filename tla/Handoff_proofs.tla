---------------------------- MODULE Handoff_proofs ----------------------------
(***************************************************************************)
(* Proofs about Handoff, for any drivers, files, number of killed processes *)
(* and number of approvals and events.                                      *)
(***************************************************************************)
EXTENDS Handoff, TLAPS

USE HandoffAssumption
USE DEF vars, procs, record, fleet, mission

Committed == intent # None /\ intent.status = "committing"

(* Whoever has the barrier is a child at work, and the other way round; a script that has
   not started its child, or is through with it, has none. *)
Owner ==
    /\ \A d \in Drivers : child[d] \in Holding <=> barrier = d
    /\ \A d \in Drivers : at[d] \in {"lock", "relock", "probe", "recover", "ready"} => child[d] = "none"

(* Only the approval that does not expire has no successor. *)
Renewable == expired => approval < MaxApprovals

(* What the script has stopped and closed stays so, and is recorded only then. *)
AtRest ==
    /\ \A d \in Drivers : at[d] \in Down \ {"close", "stop"} => ~service
    /\ \A d \in Drivers : at[d] \in {"retire", "quiesce", "quiet", "send"} => ~live
    /\ \A d \in Drivers : at[d] = "quiet" => quiesced
    /\ closing = "quiesced" => quiesced
    /\ quiesced => ~live /\ ~service

(* Files move under a committing intent, which is written of a fleet at rest. *)
Begun ==
    /\ Committed => quiesced
    /\ ~AllLive => Committed
    /\ \A d \in Drivers : child[d] = "move" => Committed
    /\ place[Manifest] = "kept" => AllKept

(* Under the barrier the mission stays what the intent says it is. *)
Bound == \A d \in Drivers : child[d] \in {"intend", "move"} =>
    /\ receipt = None /\ intent # None /\ intent.head = Head
    /\ child[d] = "intend" => intent.status = "prepared"

(* A receipt comes last; a child is done, a script returns and the mission boots only
   with one. *)
Sealed ==
    /\ receipt # None => Committed /\ AllKept
    /\ \A d \in Drivers : child[d] = "done" \/ at[d] = "ready" => receipt # None
    /\ status = "booting" \/ assured => receipt # None

IInv == TypeOK /\ Owner /\ Renewable /\ AtRest /\ Begun /\ Bound /\ Sealed

USE DEF Committed, Down, Positions, Committing, Holding, ChildPositions, Files, Heads, Head

(* The type invariant in three parts: the processes, the records, the rest. *)
ProcsTyped ==
    /\ at \in [Drivers -> Positions] /\ child \in [Drivers -> ChildPositions]
    /\ boot \in Drivers \cup {None} /\ barrier \in Drivers \cup {None}
RecordTyped ==
    /\ intent \in [status : {"prepared", "committing"}, head : Heads] \cup {None}
    /\ receipt \in Heads \cup {None}
    /\ place \in [Files -> {"live", "kept"}]
RestTyped ==
    /\ closing \in {"live", "closing", "quiesced"} /\ quiesced \in BOOLEAN
    /\ live \in BOOLEAN /\ service \in BOOLEAN /\ assured \in BOOLEAN
    /\ status \in {"approved", "booting", "ended"}
    /\ approval \in 1..MaxApprovals /\ expired \in BOOLEAN /\ events \in 0..MaxEvents
    /\ cuts \in 0..MaxCuts

-----------------------------------------------------------------------------
(* One lemma per action: it keeps each part of the invariant.                *)

LEMMA PreflightKeeps == ASSUME IInv, NEW e \in Drivers, Preflight(e) PROVE IInv'
<1>1. TypeOK' BY DEF IInv, TypeOK, Preflight, Goto
<1>2. Owner' BY DEF IInv, TypeOK, Owner, Preflight, Goto
<1>3. Renewable' BY DEF IInv, Renewable, Preflight, Goto
<1>4. AtRest' BY DEF IInv, TypeOK, AtRest, Preflight, Goto
<1>5. Begun' BY DEF IInv, Begun, AllLive, AllKept, Preflight, Goto
<1>6. Bound' BY DEF IInv, Bound, Preflight, Goto
<1>7. Sealed' BY DEF IInv, TypeOK, Sealed, AllLive, AllKept, Preflight, Goto
<1> QED BY <1>1, <1>2, <1>3, <1>4, <1>5, <1>6, <1>7 DEF IInv

LEMMA TakeBootKeeps == ASSUME IInv, NEW e \in Drivers, TakeBoot(e) PROVE IInv'
<1>1. TypeOK' BY DEF IInv, TypeOK, TakeBoot, Exit, Without
<1>2. Owner' BY DEF IInv, TypeOK, Owner, TakeBoot, Exit, Without
<1>3. Renewable' BY DEF IInv, Renewable, TakeBoot, Exit, Without
<1>4. AtRest' BY DEF IInv, TypeOK, AtRest, TakeBoot, Exit, Without
<1>5. Begun' BY DEF IInv, TypeOK, Begun, AllLive, AllKept, TakeBoot, Exit, Without
<1>6. Bound' BY DEF IInv, TypeOK, Bound, TakeBoot, Exit, Without
<1>7. Sealed' BY DEF IInv, TypeOK, Sealed, AllLive, AllKept, TakeBoot, Exit, Without
<1> QED BY <1>1, <1>2, <1>3, <1>4, <1>5, <1>6, <1>7 DEF IInv

LEMMA ProbeKeeps == ASSUME IInv, NEW e \in Drivers, Probe(e) PROVE IInv'
<1>1. TypeOK' BY DEF IInv, TypeOK, Probe, Spawn, Exit, Without
<1>2. Owner' BY DEF IInv, TypeOK, Owner, Probe, Spawn, Exit, Without
<1>3. Renewable' BY DEF IInv, Renewable, Probe, Spawn, Exit, Without
<1>4. AtRest' BY DEF IInv, TypeOK, AtRest, Probe, Spawn, Exit, Without
<1>5. Begun' BY DEF IInv, TypeOK, Begun, AllLive, AllKept, Probe, Spawn, Exit, Without
<1>6. Bound' BY DEF IInv, TypeOK, Bound, Probe, Spawn, Exit, Without
<1>7. Sealed' BY DEF IInv, TypeOK, Sealed, AllLive, AllKept, Probe, Spawn, Exit, Without
<1> QED BY <1>1, <1>2, <1>3, <1>4, <1>5, <1>6, <1>7 DEF IInv

LEMMA RecoverKeeps == ASSUME IInv, NEW e \in Drivers, Recover(e) PROVE IInv'
<1>1. TypeOK' BY DEF IInv, TypeOK, Recover, Spawn
<1>2. Owner' BY DEF IInv, TypeOK, Owner, Recover, Spawn
<1>3. Renewable' BY DEF IInv, Renewable, Recover, Spawn
<1>4. AtRest' BY DEF IInv, AtRest, Recover, Spawn
<1>5. Begun' BY DEF IInv, Begun, AllLive, AllKept, Recover, Spawn
<1>6. Bound' BY DEF IInv, Bound, Recover, Spawn
<1>7. Sealed' BY DEF IInv, Sealed, AllLive, AllKept, Recover, Spawn
<1> QED BY <1>1, <1>2, <1>3, <1>4, <1>5, <1>6, <1>7 DEF IInv

LEMMA AwaitKeeps == ASSUME IInv, NEW e \in Drivers, Await(e) PROVE IInv'
<1>1. TypeOK' BY DEF IInv, TypeOK, Await, GotoIf, Goto, Exit, Without
<1>2. Owner' BY DEF IInv, TypeOK, Owner, Await, GotoIf, Goto, Exit, Without
<1>3. Renewable' BY DEF IInv, Renewable, Await, GotoIf, Goto, Exit, Without
<1>4. AtRest' BY DEF IInv, TypeOK, AtRest, Await, GotoIf, Goto, Exit, Without
<1>5. Begun' BY DEF IInv, TypeOK, Begun, AllLive, AllKept, Await, GotoIf, Goto, Exit, Without
<1>6. Bound' BY DEF IInv, TypeOK, Bound, Await, GotoIf, Goto, Exit, Without
<1>7. Sealed' BY DEF IInv, TypeOK, Sealed, AllLive, AllKept, Await, GotoIf, Goto, Exit, Without
<1> QED BY <1>1, <1>2, <1>3, <1>4, <1>5, <1>6, <1>7 DEF IInv

LEMMA CloseKeeps == ASSUME IInv, NEW e \in Drivers, Close(e) PROVE IInv'
<1>1. TypeOK' BY DEF IInv, TypeOK, Close, GotoIf, Goto, Exit, Without
<1>2. Owner' BY DEF IInv, TypeOK, Owner, Close, GotoIf, Goto, Exit, Without
<1>3. Renewable' BY DEF IInv, Renewable, Close, GotoIf, Goto, Exit, Without
<1>4. AtRest' BY DEF IInv, TypeOK, AtRest, Close, GotoIf, Goto, Exit, Without
<1>5. Begun' BY DEF IInv, TypeOK, Begun, AllLive, AllKept, Close, GotoIf, Goto, Exit, Without
<1>6. Bound' BY DEF IInv, TypeOK, Bound, Close, GotoIf, Goto, Exit, Without
<1>7. Sealed' BY DEF IInv, TypeOK, Sealed, AllLive, AllKept, Close, GotoIf, Goto, Exit, Without
<1> QED BY <1>1, <1>2, <1>3, <1>4, <1>5, <1>6, <1>7 DEF IInv

LEMMA StopServiceKeeps == ASSUME IInv, NEW e \in Drivers, StopService(e) PROVE IInv'
<1>1. TypeOK'
    <2>1. ProcsTyped' BY DEF IInv, TypeOK, ProcsTyped, StopService, Goto
    <2>2. RecordTyped' BY DEF IInv, TypeOK, RecordTyped, StopService, Goto
    <2>3. RestTyped' BY DEF IInv, TypeOK, RestTyped, StopService, Goto
    <2> QED BY <2>1, <2>2, <2>3 DEF TypeOK, ProcsTyped, RecordTyped, RestTyped
<1>2. Owner' BY DEF IInv, Owner, StopService, Goto
<1>3. Renewable' BY DEF IInv, Renewable, StopService, Goto
<1>4. AtRest' BY DEF IInv, AtRest, StopService, Goto
<1>5. Begun' BY DEF IInv, Begun, AllLive, AllKept, StopService, Goto
<1>6. Bound' BY DEF IInv, Bound, StopService, Goto
<1>7. Sealed' BY DEF IInv, Sealed, AllLive, AllKept, StopService, Goto
<1> QED BY <1>1, <1>2, <1>3, <1>4, <1>5, <1>6, <1>7 DEF IInv

LEMMA MarkClosingKeeps == ASSUME IInv, NEW e \in Drivers, MarkClosing(e) PROVE IInv'
<1>1. TypeOK' BY DEF IInv, TypeOK, MarkClosing, Goto
<1>2. Owner' BY DEF IInv, Owner, MarkClosing, Goto
<1>3. Renewable' BY DEF IInv, Renewable, MarkClosing, Goto
<1>4. AtRest' BY DEF IInv, AtRest, MarkClosing, Goto
<1>5. Begun' BY DEF IInv, Begun, AllLive, AllKept, MarkClosing, Goto
<1>6. Bound' BY DEF IInv, Bound, MarkClosing, Goto
<1>7. Sealed' BY DEF IInv, Sealed, AllLive, AllKept, MarkClosing, Goto
<1> QED BY <1>1, <1>2, <1>3, <1>4, <1>5, <1>6, <1>7 DEF IInv

LEMMA ShutKeeps == ASSUME IInv, NEW e \in Drivers, Shut(e) PROVE IInv'
<1>1. TypeOK'
    <2>1. ProcsTyped' BY DEF IInv, TypeOK, ProcsTyped, Shut, Goto, Exit, Without
    <2>2. RecordTyped' BY DEF IInv, TypeOK, RecordTyped, Shut, Goto, Exit, Without
    <2>3. RestTyped' BY DEF IInv, TypeOK, Renewable, RestTyped, Shut, Goto, Exit, Without
    <2> QED BY <2>1, <2>2, <2>3 DEF TypeOK, ProcsTyped, RecordTyped, RestTyped
<1>2. Owner' BY DEF IInv, TypeOK, Owner, Shut, Goto, Exit, Without
<1>3. Renewable' BY DEF IInv, Renewable, Shut, Goto, Exit, Without
<1>4. AtRest' BY DEF IInv, TypeOK, AtRest, Shut, Goto, Exit, Without
<1>5. Begun' BY DEF IInv, TypeOK, Begun, AllLive, AllKept, Shut, Goto, Exit, Without
<1>6. Bound' BY DEF IInv, TypeOK, Bound, Shut, Goto, Exit, Without
<1>7. Sealed' BY DEF IInv, TypeOK, Sealed, AllLive, AllKept, Shut, Goto, Exit, Without
<1> QED BY <1>1, <1>2, <1>3, <1>4, <1>5, <1>6, <1>7 DEF IInv

LEMMA RetireKeeps == ASSUME IInv, NEW e \in Drivers, Retire(e) PROVE IInv'
<1>1. TypeOK' BY DEF IInv, TypeOK, Retire, Goto, Exit, Without
<1>2. Owner' BY DEF IInv, TypeOK, Owner, Retire, Goto, Exit, Without
<1>3. Renewable' BY DEF IInv, Renewable, Retire, Goto, Exit, Without
<1>4. AtRest' BY DEF IInv, TypeOK, AtRest, Retire, Goto, Exit, Without
<1>5. Begun' BY DEF IInv, TypeOK, Begun, AllLive, AllKept, Retire, Goto, Exit, Without
<1>6. Bound' BY DEF IInv, TypeOK, Bound, Retire, Goto, Exit, Without
<1>7. Sealed' BY DEF IInv, TypeOK, Sealed, AllLive, AllKept, Retire, Goto, Exit, Without
<1> QED BY <1>1, <1>2, <1>3, <1>4, <1>5, <1>6, <1>7 DEF IInv

LEMMA RecordQuiescedKeeps == ASSUME IInv, NEW e \in Drivers, RecordQuiesced(e) PROVE IInv'
<1>1. TypeOK'
    <2>1. ProcsTyped' BY DEF IInv, TypeOK, ProcsTyped, RecordQuiesced, Goto
    <2>2. RecordTyped' BY DEF IInv, TypeOK, RecordTyped, RecordQuiesced, Goto
    <2>3. RestTyped' BY DEF IInv, TypeOK, Renewable, RestTyped, RecordQuiesced, Goto
    <2> QED BY <2>1, <2>2, <2>3 DEF TypeOK, ProcsTyped, RecordTyped, RestTyped
<1>2. Owner' BY DEF IInv, TypeOK, Owner, RecordQuiesced, Goto
<1>3. Renewable' BY DEF IInv, Renewable, RecordQuiesced, Goto
<1>4. AtRest' BY DEF IInv, AtRest, RecordQuiesced, Goto
<1>5. Begun' BY DEF IInv, Begun, AllLive, AllKept, RecordQuiesced, Goto
<1>6. Bound' BY DEF IInv, Bound, RecordQuiesced, Goto
<1>7. Sealed' BY DEF IInv, TypeOK, Sealed, AllLive, AllKept, RecordQuiesced, Goto
<1> QED BY <1>1, <1>2, <1>3, <1>4, <1>5, <1>6, <1>7 DEF IInv

LEMMA SendKeeps == ASSUME IInv, NEW e \in Drivers, Send(e) PROVE IInv'
<1>1. TypeOK' BY DEF IInv, TypeOK, Send, Spawn, Exit, Without
<1>2. Owner' BY DEF IInv, TypeOK, Owner, Send, Spawn, Exit, Without
<1>3. Renewable' BY DEF IInv, Renewable, Send, Spawn, Exit, Without
<1>4. AtRest' BY DEF IInv, TypeOK, AtRest, Send, Spawn, Exit, Without
<1>5. Begun' BY DEF IInv, TypeOK, Begun, AllLive, AllKept, Send, Spawn, Exit, Without
<1>6. Bound' BY DEF IInv, TypeOK, Bound, Send, Spawn, Exit, Without
<1>7. Sealed' BY DEF IInv, TypeOK, Sealed, AllLive, AllKept, Send, Spawn, Exit, Without
<1> QED BY <1>1, <1>2, <1>3, <1>4, <1>5, <1>6, <1>7 DEF IInv

LEMMA ReturnKeeps == ASSUME IInv, NEW e \in Drivers, Return(e) PROVE IInv'
<1>1. TypeOK' BY DEF IInv, TypeOK, Return, Without
<1>2. Owner' BY DEF IInv, TypeOK, Owner, Return, Without
<1>3. Renewable' BY DEF IInv, Renewable, Return, Without
<1>4. AtRest' BY DEF IInv, AtRest, Return, Without
<1>5. Begun' BY DEF IInv, Begun, AllLive, AllKept, Return, Without
<1>6. Bound' BY DEF IInv, Bound, Return, Without
<1>7. Sealed' BY DEF IInv, Sealed, AllLive, AllKept, Return, Without
<1> QED BY <1>1, <1>2, <1>3, <1>4, <1>5, <1>6, <1>7 DEF IInv

LEMMA BootKeeps == ASSUME IInv, NEW e \in Drivers, Boot(e) PROVE IInv'
<1>1. TypeOK' BY DEF IInv, TypeOK, Boot, Goto, Eligible
<1>2. Owner' BY DEF IInv, Owner, Boot, Goto, Eligible
<1>3. Renewable' BY DEF IInv, Renewable, Boot, Goto, Eligible
<1>4. AtRest' BY DEF IInv, AtRest, Boot, Goto, Eligible
<1>5. Begun' BY DEF IInv, Begun, AllLive, AllKept, Boot, Goto, Eligible
<1>6. Bound' BY DEF IInv, Bound, Boot, Goto, Eligible
<1>7. Sealed' BY DEF IInv, Sealed, AllLive, AllKept, Boot, Goto, Eligible
<1> QED BY <1>1, <1>2, <1>3, <1>4, <1>5, <1>6, <1>7 DEF IInv

LEMMA StartAssuredKeeps == ASSUME IInv, StartAssured PROVE IInv'
<1>1. TypeOK'
    <2>1. ProcsTyped' BY DEF IInv, TypeOK, ProcsTyped, StartAssured
    <2>2. RecordTyped' BY DEF IInv, TypeOK, RecordTyped, StartAssured
    <2>3. RestTyped' BY DEF IInv, TypeOK, RestTyped, StartAssured
    <2> QED BY <2>1, <2>2, <2>3 DEF TypeOK, ProcsTyped, RecordTyped, RestTyped
<1>2. Owner' BY DEF IInv, Owner, StartAssured
<1>3. Renewable' BY DEF IInv, Renewable, StartAssured
<1>4. AtRest' BY DEF IInv, AtRest, StartAssured
<1>5. Begun' BY DEF IInv, Begun, AllLive, AllKept, StartAssured
<1>6. Bound' BY DEF IInv, Bound, StartAssured
<1>7. Sealed' BY DEF IInv, Sealed, AllLive, AllKept, StartAssured
<1> QED BY <1>1, <1>2, <1>3, <1>4, <1>5, <1>6, <1>7 DEF IInv

LEMMA EnterKeeps == ASSUME IInv, NEW e \in Drivers, Enter(e) PROVE IInv'
<1>1. TypeOK' BY DEF IInv, TypeOK, Enter, ChildEnds, Without
<1>2. Owner' BY DEF IInv, TypeOK, Owner, Enter, ChildEnds, Without
<1>3. Renewable' BY DEF IInv, Renewable, Enter, ChildEnds, Without
<1>4. AtRest' BY DEF IInv, AtRest, Enter, ChildEnds, Without
<1>5. Begun' BY DEF IInv, TypeOK, Begun, AllLive, AllKept, Enter, ChildEnds, Without
<1>6. Bound' BY DEF IInv, TypeOK, Bound, Enter, ChildEnds, Without
<1>7. Sealed' BY DEF IInv, TypeOK, Sealed, AllLive, AllKept, Enter, ChildEnds, Without
<1> QED BY <1>1, <1>2, <1>3, <1>4, <1>5, <1>6, <1>7 DEF IInv

LEMMA PrepareKeeps == ASSUME IInv, NEW e \in Drivers, Prepare(e) PROVE IInv'
<1>1. TypeOK' BY DEF IInv, TypeOK, Prepare, ChildGoto, ChildEnds, Without, Eligible, Prepared,
    Lineage
<1>2. Owner' BY DEF IInv, TypeOK, Owner, Prepare, ChildGoto, ChildEnds, Without, Eligible,
    Prepared, Lineage
<1>3. Renewable' BY DEF IInv, Renewable, Prepare, ChildGoto, ChildEnds, Without, Eligible,
    Prepared, Lineage
<1>4. AtRest' BY DEF IInv, AtRest, Prepare, ChildGoto, ChildEnds, Without, Eligible, Prepared,
    Lineage
<1>5. Begun' BY DEF IInv, TypeOK, Begun, AllLive, AllKept, Prepare, ChildGoto, ChildEnds, Without,
    Eligible, Prepared, Lineage
<1>6. Bound' BY DEF IInv, TypeOK, Bound, Prepare, ChildGoto, ChildEnds, Without, Eligible,
    Prepared, Lineage
<1>7. Sealed' BY DEF IInv, TypeOK, Sealed, AllLive, AllKept, Prepare, ChildGoto, ChildEnds,
    Without, Eligible, Prepared, Lineage
<1> QED BY <1>1, <1>2, <1>3, <1>4, <1>5, <1>6, <1>7 DEF IInv

LEMMA EndOfFileKeeps == ASSUME IInv, NEW e \in Drivers, EndOfFile(e) PROVE IInv'
<1>1. TypeOK' BY DEF IInv, TypeOK, EndOfFile, ChildEnds, Without
<1>2. Owner' BY DEF IInv, TypeOK, Owner, EndOfFile, ChildEnds, Without
<1>3. Renewable' BY DEF IInv, Renewable, EndOfFile, ChildEnds, Without
<1>4. AtRest' BY DEF IInv, AtRest, EndOfFile, ChildEnds, Without
<1>5. Begun' BY DEF IInv, Begun, AllLive, AllKept, EndOfFile, ChildEnds, Without
<1>6. Bound' BY DEF IInv, Bound, EndOfFile, ChildEnds, Without
<1>7. Sealed' BY DEF IInv, Sealed, AllLive, AllKept, EndOfFile, ChildEnds, Without
<1> QED BY <1>1, <1>2, <1>3, <1>4, <1>5, <1>6, <1>7 DEF IInv

LEMMA ResumeKeeps == ASSUME IInv, NEW e \in Drivers, Resume(e) PROVE IInv'
<1>1. TypeOK' BY DEF IInv, TypeOK, Resume, ChildGoto, ChildEnds, Without, Eligible, Prepared,
    Lineage, Complete, Replayable
<1>2. Owner' BY DEF IInv, TypeOK, Owner, Resume, ChildGoto, ChildEnds, Without, Eligible,
    Prepared, Lineage, Complete, Replayable
<1>3. Renewable' BY DEF IInv, Renewable, Resume, ChildGoto, ChildEnds, Without, Eligible,
    Prepared, Lineage, Complete, Replayable
<1>4. AtRest' BY DEF IInv, AtRest, Resume, ChildGoto, ChildEnds, Without, Eligible, Prepared,
    Lineage, Complete, Replayable
<1>5. Begun' BY DEF IInv, TypeOK, Begun, AllLive, AllKept, Resume, ChildGoto, ChildEnds, Without,
    Eligible, Prepared, Lineage, Complete, Replayable
<1>6. Bound' BY DEF IInv, TypeOK, Bound, Resume, ChildGoto, ChildEnds, Without, Eligible,
    Prepared, Lineage, Complete, Replayable
<1>7. Sealed' BY DEF IInv, TypeOK, Sealed, AllLive, AllKept, Resume, ChildGoto, ChildEnds,
    Without, Eligible, Prepared, Lineage, Complete, Replayable
<1> QED BY <1>1, <1>2, <1>3, <1>4, <1>5, <1>6, <1>7 DEF IInv

LEMMA IntendKeeps == ASSUME IInv, NEW e \in Drivers, Intend(e) PROVE IInv'
<1>1. TypeOK'
    <2>1. ProcsTyped' BY DEF IInv, TypeOK, ProcsTyped, Intend, ChildGoto, ChildEnds, Without
    <2>2. RecordTyped' BY DEF IInv, TypeOK, Bound, RecordTyped, Intend, ChildGoto, ChildEnds,
        Without
    <2>3. RestTyped' BY DEF IInv, TypeOK, Renewable, RestTyped, Intend, ChildGoto, ChildEnds,
        Without
    <2> QED BY <2>1, <2>2, <2>3 DEF TypeOK, ProcsTyped, RecordTyped, RestTyped
<1>2. Owner' BY DEF IInv, TypeOK, Owner, Intend, ChildGoto, ChildEnds, Without
<1>3. Renewable' BY DEF IInv, Renewable, Intend, ChildGoto, ChildEnds, Without
<1>4. AtRest' BY DEF IInv, AtRest, Intend, ChildGoto, ChildEnds, Without
<1>5. Begun' BY DEF IInv, TypeOK, Owner, Begun, Bound, AtRest, Sealed, AllLive, AllKept, Intend,
    ChildGoto, ChildEnds, Without
<1>6. Bound' BY DEF IInv, TypeOK, Owner, Bound, Intend, ChildGoto, ChildEnds, Without
<1>7. Sealed' BY DEF IInv, TypeOK, Sealed, AllLive, AllKept, Intend, ChildGoto, ChildEnds, Without
<1> QED BY <1>1, <1>2, <1>3, <1>4, <1>5, <1>6, <1>7 DEF IInv

LEMMA MoveKeeps == ASSUME IInv, NEW e \in Drivers, NEW f \in Files, Move(e, f) PROVE IInv'
<1>1. TypeOK' BY DEF IInv, TypeOK, Move
<1>2. Owner' BY DEF IInv, Owner, Move
<1>3. Renewable' BY DEF IInv, Renewable, Move
<1>4. AtRest' BY DEF IInv, AtRest, Move
<1>5. Begun' BY DEF IInv, Begun, AllLive, AllKept, Move
<1>6. Bound' BY DEF IInv, Bound, Move
<1>7. Sealed' BY DEF IInv, Sealed, AllLive, AllKept, Move
<1> QED BY <1>1, <1>2, <1>3, <1>4, <1>5, <1>6, <1>7 DEF IInv

LEMMA SealKeeps == ASSUME IInv, NEW e \in Drivers, Seal(e) PROVE IInv'
<1>1. TypeOK'
    <2>1. ProcsTyped' BY DEF IInv, TypeOK, ProcsTyped, Seal, ChildEnds, Without, Eligible
    <2>2. RecordTyped' BY DEF IInv, TypeOK, Bound, RecordTyped, Seal, ChildEnds, Without, Eligible
    <2>3. RestTyped' BY DEF IInv, TypeOK, Renewable, RestTyped, Seal, ChildEnds, Without, Eligible
    <2> QED BY <2>1, <2>2, <2>3 DEF TypeOK, ProcsTyped, RecordTyped, RestTyped
<1>2. Owner' BY DEF IInv, TypeOK, Owner, Seal, ChildEnds, Without, Eligible
<1>3. Renewable' BY DEF IInv, Renewable, Seal, ChildEnds, Without, Eligible
<1>4. AtRest' BY DEF IInv, AtRest, Seal, ChildEnds, Without, Eligible
<1>5. Begun' BY DEF IInv, Begun, AllLive, AllKept, Seal, ChildEnds, Without, Eligible
<1>6. Bound' BY DEF IInv, TypeOK, Owner, Bound, Seal, ChildEnds, Without, Eligible
<1>7. Sealed' BY DEF IInv, TypeOK, Sealed, Begun, Bound, AllLive, AllKept, Seal, ChildEnds,
    Without, Eligible
<1> QED BY <1>1, <1>2, <1>3, <1>4, <1>5, <1>6, <1>7 DEF IInv

LEMMA ParentDiesKeeps == ASSUME IInv, NEW e \in Drivers, ParentDies(e) PROVE IInv'
<1>1. TypeOK' BY DEF IInv, TypeOK, ParentDies, Cut, Without
<1>2. Owner' BY DEF IInv, Owner, ParentDies, Cut, Without
<1>3. Renewable' BY DEF IInv, Renewable, ParentDies, Cut, Without
<1>4. AtRest' BY DEF IInv, AtRest, ParentDies, Cut, Without
<1>5. Begun' BY DEF IInv, Begun, AllLive, AllKept, ParentDies, Cut, Without
<1>6. Bound' BY DEF IInv, Bound, ParentDies, Cut, Without
<1>7. Sealed' BY DEF IInv, Sealed, AllLive, AllKept, ParentDies, Cut, Without
<1> QED BY <1>1, <1>2, <1>3, <1>4, <1>5, <1>6, <1>7 DEF IInv

LEMMA ChildDiesKeeps == ASSUME IInv, NEW e \in Drivers, ChildDies(e) PROVE IInv'
<1>1. TypeOK' BY DEF IInv, TypeOK, ChildDies, Cut, ChildEnds, Without
<1>2. Owner' BY DEF IInv, TypeOK, Owner, ChildDies, Cut, ChildEnds, Without
<1>3. Renewable' BY DEF IInv, Renewable, ChildDies, Cut, ChildEnds, Without
<1>4. AtRest' BY DEF IInv, AtRest, ChildDies, Cut, ChildEnds, Without
<1>5. Begun' BY DEF IInv, Begun, AllLive, AllKept, ChildDies, Cut, ChildEnds, Without
<1>6. Bound' BY DEF IInv, Bound, ChildDies, Cut, ChildEnds, Without
<1>7. Sealed' BY DEF IInv, Sealed, AllLive, AllKept, ChildDies, Cut, ChildEnds, Without
<1> QED BY <1>1, <1>2, <1>3, <1>4, <1>5, <1>6, <1>7 DEF IInv

LEMMA ExpireKeeps == ASSUME IInv, Expire PROVE IInv'
<1>1. TypeOK' BY DEF IInv, TypeOK, Expire
<1>2. Owner' BY DEF IInv, Owner, Expire
<1>3. Renewable' BY DEF IInv, Renewable, Expire
<1>4. AtRest' BY DEF IInv, AtRest, Expire
<1>5. Begun' BY DEF IInv, Begun, AllLive, AllKept, Expire
<1>6. Bound' BY DEF IInv, Bound, Expire
<1>7. Sealed' BY DEF IInv, Sealed, AllLive, AllKept, Expire
<1> QED BY <1>1, <1>2, <1>3, <1>4, <1>5, <1>6, <1>7 DEF IInv

LEMMA RenewKeeps == ASSUME IInv, Renew PROVE IInv'
<1>1. TypeOK'
    <2>1. ProcsTyped' BY DEF IInv, TypeOK, ProcsTyped, Renew
    <2>2. RecordTyped' BY DEF IInv, TypeOK, RecordTyped, Renew
    <2>3. RestTyped'
        <3>1. approval < MaxApprovals BY DEF IInv, Renewable, Renew
        <3>2. approval' \in 1..MaxApprovals BY <3>1 DEF IInv, TypeOK, Renew
        <3> QED BY <3>2 DEF IInv, TypeOK, RestTyped, Renew
    <2> QED BY <2>1, <2>2, <2>3 DEF TypeOK, ProcsTyped, RecordTyped, RestTyped
<1>2. Owner' BY DEF IInv, Owner, Renew
<1>3. Renewable' BY DEF IInv, Renewable, Renew
<1>4. AtRest' BY DEF IInv, AtRest, Renew
<1>5. Begun' BY DEF IInv, Begun, AllLive, AllKept, Renew
<1>6. Bound' BY DEF IInv, TypeOK, Owner, Bound, Renew
<1>7. Sealed' BY DEF IInv, Sealed, AllLive, AllKept, Renew
<1> QED BY <1>1, <1>2, <1>3, <1>4, <1>5, <1>6, <1>7 DEF IInv

LEMMA OtherEventKeeps == ASSUME IInv, OtherEvent PROVE IInv'
<1>1. TypeOK' BY DEF IInv, TypeOK, OtherEvent
<1>2. Owner' BY DEF IInv, Owner, OtherEvent
<1>3. Renewable' BY DEF IInv, Renewable, OtherEvent
<1>4. AtRest' BY DEF IInv, AtRest, OtherEvent
<1>5. Begun' BY DEF IInv, Begun, AllLive, AllKept, OtherEvent
<1>6. Bound' BY DEF IInv, TypeOK, Owner, Bound, OtherEvent
<1>7. Sealed' BY DEF IInv, Sealed, AllLive, AllKept, OtherEvent
<1> QED BY <1>1, <1>2, <1>3, <1>4, <1>5, <1>6, <1>7 DEF IInv

LEMMA EndMissionKeeps == ASSUME IInv, EndMission PROVE IInv'
<1>1. TypeOK' BY DEF IInv, TypeOK, EndMission
<1>2. Owner' BY DEF IInv, Owner, EndMission
<1>3. Renewable' BY DEF IInv, Renewable, EndMission
<1>4. AtRest' BY DEF IInv, AtRest, EndMission
<1>5. Begun' BY DEF IInv, Begun, AllLive, AllKept, EndMission
<1>6. Bound' BY DEF IInv, Bound, EndMission
<1>7. Sealed' BY DEF IInv, Sealed, AllLive, AllKept, EndMission
<1> QED BY <1>1, <1>2, <1>3, <1>4, <1>5, <1>6, <1>7 DEF IInv

LEMMA CloseWorkspaceKeeps == ASSUME IInv, CloseWorkspace PROVE IInv'
<1>1. TypeOK'
    <2>1. ProcsTyped' BY DEF IInv, TypeOK, ProcsTyped, CloseWorkspace
    <2>2. RecordTyped' BY DEF IInv, TypeOK, RecordTyped, CloseWorkspace
    <2>3. RestTyped' BY DEF IInv, TypeOK, RestTyped, CloseWorkspace
    <2> QED BY <2>1, <2>2, <2>3 DEF TypeOK, ProcsTyped, RecordTyped, RestTyped
<1>2. Owner' BY DEF IInv, Owner, CloseWorkspace
<1>3. Renewable' BY DEF IInv, Renewable, CloseWorkspace
<1>4. AtRest' BY DEF IInv, AtRest, CloseWorkspace
<1>5. Begun' BY DEF IInv, Begun, AllLive, AllKept, CloseWorkspace
<1>6. Bound' BY DEF IInv, Bound, CloseWorkspace
<1>7. Sealed' BY DEF IInv, Sealed, AllLive, AllKept, CloseWorkspace
<1> QED BY <1>1, <1>2, <1>3, <1>4, <1>5, <1>6, <1>7 DEF IInv

-----------------------------------------------------------------------------
LEMMA InitIInv == ASSUME Init PROVE IInv
<1>1. TypeOK
    <2>1. ProcsTyped BY DEF Init, ProcsTyped
    <2>2. RecordTyped BY DEF Init, RecordTyped
    <2>3. approval \in 1..MaxApprovals /\ events \in 0..MaxEvents /\ cuts \in 0..MaxCuts
        BY DEF Init
    <2>4. RestTyped BY <2>3 DEF Init, RestTyped
    <2> QED BY <2>1, <2>2, <2>4 DEF TypeOK, ProcsTyped, RecordTyped, RestTyped
<1>2. Owner BY DEF Init, Owner
<1>3. Renewable BY DEF Init, Renewable
<1>4. AtRest BY DEF Init, AtRest
<1>5. Begun BY DEF Init, Begun, AllLive, AllKept
<1>6. Bound BY DEF Init, Bound
<1>7. Sealed BY DEF Init, Sealed
<1> QED BY <1>1, <1>2, <1>3, <1>4, <1>5, <1>6, <1>7 DEF IInv

LEMMA StepKeeps == ASSUME IInv, [Next]_vars PROVE IInv'
<1>1. CASE UNCHANGED vars
    BY <1>1 DEF IInv, TypeOK, Owner, Renewable, AtRest, Begun, Bound, Sealed, AllLive, AllKept
<1>2. CASE StartAssured \/ Others
    BY <1>2, StartAssuredKeeps, ParentDiesKeeps, ChildDiesKeeps, ExpireKeeps, RenewKeeps,
        OtherEventKeeps, EndMissionKeeps, CloseWorkspaceKeeps DEF Others
<1>3. CASE \E d \in Drivers : Preflight(d) \/ Script(d)
    BY <1>3, PreflightKeeps, TakeBootKeeps, ProbeKeeps, RecoverKeeps, AwaitKeeps, CloseKeeps,
        StopServiceKeeps, MarkClosingKeeps, ShutKeeps, RetireKeeps, RecordQuiescedKeeps,
        SendKeeps, ReturnKeeps, BootKeeps DEF Script
<1>4. CASE \E d \in Drivers : Child(d)
    BY <1>4, EnterKeeps, PrepareKeeps, EndOfFileKeeps, ResumeKeeps, IntendKeeps, MoveKeeps,
        SealKeeps DEF Child
<1> QED BY <1>1, <1>2, <1>3, <1>4 DEF Next

LEMMA Inductive == Spec => []IInv
<1> QED BY InitIInv, StepKeeps, PTL DEF Spec

(* No number of killed processes takes a variable of the handoff out of its domain. *)
THEOREM TypeTheorem == Spec => []TypeOK
<1>1. IInv => TypeOK BY DEF IInv
<1> QED BY <1>1, Inductive, PTL

(* The assured fleet is started only where the main one is gone and kept whole. *)
THEOREM NeverTogetherTheorem == Spec => []NeverTogether
<1>1. IInv => NeverTogether BY DEF IInv, NeverTogether, Sealed, Begun, AtRest
<1> QED BY <1>1, Inductive, PTL

(* The manifest goes last, and nothing goes of a fleet that is not at rest. *)
THEOREM ManifestLastTheorem == Spec => []ManifestLast
<1>1. IInv => ManifestLast BY DEF IInv, ManifestLast, Begun, AtRest
<1> QED BY <1>1, Inductive, PTL

-----------------------------------------------------------------------------
(* The steps that write a record: all are a child's, and the barrier is its. *)

LEMMA Recorded ==
    ASSUME IInv, [Next]_vars
    PROVE record' = record \/ \E d \in Drivers :
        Prepare(d) \/ Resume(d) \/ Intend(d) \/ (\E f \in Files : Move(d, f)) \/ Seal(d)
BY DEF Next, Others, Script, Child, StartAssured, ParentDies, ChildDies, Cut, Expire, Renew,
    OtherEvent, EndMission, CloseWorkspace, Preflight, TakeBoot, Probe, Recover, Await, Close,
    StopService, MarkClosing, Shut, Retire, RecordQuiesced, Send, Return, Boot, Enter, EndOfFile

(* A receipt is written by the child that has the barrier, of the mission as it is. *)
LEMMA BoundStep ==
    ASSUME IInv, [Next]_vars, receipt' # receipt PROVE Eligible /\ receipt' = Head
<1>1. PICK d \in Drivers : Seal(d) BY Recorded DEF Prepare, Resume, Intend, Move
<1> QED BY <1>1 DEF Seal, IInv, Bound

THEOREM ReceiptBoundTheorem == Spec => ReceiptBound
<1>1. IInv /\ [Next]_vars => [receipt' # receipt => Eligible /\ receipt' = Head]_vars
    BY BoundStep
<1> QED BY <1>1, Inductive, PTL DEF Spec, ReceiptBound

(* After the receipt a child finds everything done: the manifest is no longer there to
   prepare, and Resume only compares. *)
LEMMA FinalStep ==
    ASSUME IInv, [Next]_vars, receipt # None PROVE UNCHANGED <<receipt, intent, place>>
<1>1. ~AllLive BY DEF IInv, TypeOK, Sealed, AllLive, AllKept
<1>2. ASSUME NEW d \in Drivers, Prepare(d) PROVE record' = record BY <1>1, <1>2 DEF Prepare
<1>3. ASSUME NEW d \in Drivers, Resume(d) PROVE record' = record BY <1>3 DEF Resume
<1>4. ASSUME NEW d \in Drivers PROVE child[d] \notin {"intend", "move"} BY DEF IInv, Bound
<1> QED BY <1>2, <1>3, <1>4, Recorded DEF Intend, Move, Seal

THEOREM ReceiptFinalTheorem == Spec => ReceiptFinal
<1>1. IInv /\ [Next]_vars => [receipt # None => UNCHANGED <<receipt, intent, place>>]_vars
    BY FinalStep
<1> QED BY <1>1, Inductive, PTL DEF Spec, ReceiptFinal
=============================================================================
