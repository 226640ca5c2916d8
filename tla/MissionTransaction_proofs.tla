---------------------- MODULE MissionTransaction_proofs ----------------------
(***************************************************************************)
(* Theorems about MissionTransaction, for every set of writers, barriers,    *)
(* requests and batches, and any number of crashes.                         *)
(*                                                                          *)
(* The argument: the flocks are where the positions say (LocksHeld), so one  *)
(* process at a time is between reading the ledger and syncing it.  While it *)
(* is, what it read is the ledger and the disk (Current); hence each rename  *)
(* puts exactly one legal publication in front of the disk (Ahead), and the  *)
(* next sync, whoever makes it, is that publication.                        *)
(***************************************************************************)
EXTENDS MissionTransaction, TLAPS, FiniteSetTheorems

(* Positions of a writer between reading the ledger and renaming over it.     *)
CurrentPC == {"ready", "append", "clean", "create", "rename"}

Current ==
  \A w \in Writers : pc[w] \in CurrentPC => original[w] = ledger /\ disk = ledger

Pending ==
  \A w \in Writers : pc[w] \in {"clean", "create", "rename"} =>
    New(w) # {} /\ ~Clash(w) /\ ~Log!Closed(original[w])

Written == \A w \in Writers : pc[w] = "sync" => batch[w] \subseteq Log!Recorded(ledger)

Publication(S) ==
  /\ S # {} /\ Log!Consistent(S) /\ Log!Fresh(S, disk) = S /\ ~Log!Closed(disk)
  /\ ledger = Append(disk, S)

Ahead == ledger # disk => \E S \in SUBSET Events : Publication(S)

SeenHeld ==
  \A b \in Barriers : seen[b] # None => pc[b] \in Holding /\ seen[b] = ledger

Leftovers ==
  /\ \E c \in Seq(SUBSET Events) : temps \subseteq {c}
  /\ \A w \in Writers : pc[w] = "create" => temps = {}

DataInv == Current /\ Pending /\ Written /\ Ahead /\ AckedDurable /\ SeenHeld /\ Leftovers

IInv == TypeOK /\ LocksHeld /\ MarkerStands /\ DataInv

-----------------------------------------------------------------------------
(* Facts about the ledger.                                                    *)

(* Publishing a batch records it and keeps what was recorded.                 *)
LEMMA RecordedAppend ==
  ASSUME NEW l \in Seq(SUBSET Events), NEW S \in SUBSET Events
  PROVE  Log!Recorded(Append(l, S)) = Log!Recorded(l) \cup S
<1> DEFINE m == Append(l, S)
<1>1. /\ DOMAIN m = 1..Len(l) + 1 /\ DOMAIN l = 1..Len(l) /\ Len(l) \in Nat
      /\ m[Len(l) + 1] = S /\ \A n \in 1..Len(l) : m[n] = l[n]
  OBVIOUS
<1>2. \A e : e \in Log!Recorded(m) <=> \E n \in 1..Len(l) + 1 : e \in m[n]
  BY <1>1 DEF Log!Recorded
<1>3. \A e : e \in Log!Recorded(l) <=> \E n \in 1..Len(l) : e \in l[n]
  BY <1>1 DEF Log!Recorded
<1> HIDE DEF m
<1>4. \A e : e \in Log!Recorded(m) <=> e \in Log!Recorded(l) \cup S
  BY <1>1, <1>2, <1>3
<1> QED BY <1>4 DEF m

(* Requests that clash with nothing recorded and bring nothing new are there. *)
LEMMA NothingNew ==
  ASSUME NEW w \in Writers, ~Clash(w)
  PROVE  batch[w] \subseteq Log!Recorded(original[w]) \cup New(w)
BY DEF Clash, New, Log!Consistent, Log!Fresh

(* A consistent batch brings fresh keys only, none of them twice.             *)
LEMMA NewIsPublication ==
  ASSUME TypeOK, Current, Pending, NEW w \in Writers, pc[w] = "rename"
  PROVE  /\ New(w) \in SUBSET Events
         /\ New(w) # {} /\ Log!Consistent(New(w)) /\ Log!Fresh(New(w), disk) = New(w)
         /\ ~Log!Closed(disk) /\ Content(w) = Append(disk, New(w)) /\ ledger = disk
<1>1. original[w] = disk /\ ledger = disk
  BY DEF Current, CurrentPC
<1>2. New(w) # {} /\ ~Clash(w) /\ ~Log!Closed(original[w])
  BY DEF Pending
<1>3. New(w) \subseteq batch[w] /\ batch[w] \in SUBSET Events
  BY DEF New, Log!Fresh, TypeOK
<1>4. Log!Consistent(New(w))
  BY <1>2, <1>3 DEF Clash, Log!Consistent
<1>5. Log!Fresh(New(w), disk) = New(w)
  BY <1>1 DEF New, Log!Fresh
<1> QED BY <1>1, <1>2, <1>3, <1>4, <1>5 DEF Content

(* What a writer publishes is a ledger.                                       *)
LEMMA ContentType ==
  ASSUME TypeOK, NEW w \in Writers
  PROVE  Content(w) \in Seq(SUBSET Events)
<1>1. New(w) \in SUBSET Events /\ original[w] \in Seq(SUBSET Events)
  BY DEF TypeOK, New, Log!Fresh
<1> QED BY <1>1 DEF Content

-----------------------------------------------------------------------------
(* Steps that change neither files nor what a process remembers.              *)

WriterMove(w) ==
  \/ Begin(w) \/ CheckMarker(w) \/ TakeGate(w) \/ ClearStale(w) \/ OpenGate(w)
  \/ TakeShared(w) \/ RecheckMarker(w) \/ UnsafeMarker(w) \/ TakeLock(w) \/ AppendNew(w)
  \/ Refuse(w) \/ Leave(w) \/ Unshare(w)

BarrierMove(b) ==
  \/ EnterGate(b) \/ RemoveStale(b) \/ PublishMarker(b) \/ Drained(b) \/ DrainTimeout(b)
  \/ LockSnapshot(b) \/ UnlockSnapshot(b) \/ Unmark(b) \/ Ungate(b)

(* A writer's move keeps files and memories; only AppendNew enters the        *)
(* publication.                                                               *)
LEMMA WriterMoves ==
  ASSUME TypeOK, NEW w \in Writers, WriterMove(w)
  PROVE  /\ UNCHANGED <<files, locals>>
         /\ \A q \in Procs \ {w} : pc'[q] = pc[q]
         /\ pc'[w] \notin {"ready", "append", "create", "rename", "sync"}
         /\ pc'[w] = "clean" =>
              pc[w] = "append" /\ ~Clash(w) /\ New(w) # {} /\ ~Log!Closed(original[w])
<1> USE DEF Goto, TypeOK, Procs, files, locals
<1>1. CASE Begin(w)
  BY <1>1 DEF Begin
<1>2. CASE CheckMarker(w)
  BY <1>2 DEF CheckMarker
<1>3. CASE TakeGate(w)
  BY <1>3 DEF TakeGate
<1>4. CASE ClearStale(w)
  BY <1>4 DEF ClearStale
<1>5. CASE OpenGate(w)
  BY <1>5 DEF OpenGate
<1>6. CASE TakeShared(w)
  BY <1>6 DEF TakeShared
<1>7. CASE RecheckMarker(w)
  BY <1>7 DEF RecheckMarker
<1>8. CASE UnsafeMarker(w)
  BY <1>8 DEF UnsafeMarker
<1>9. CASE TakeLock(w)
  BY <1>9 DEF TakeLock
<1>10. CASE AppendNew(w)
  BY <1>10 DEF AppendNew
<1>11. CASE Refuse(w)
  BY <1>11 DEF Refuse
<1>12. CASE Leave(w)
  BY <1>12 DEF Leave
<1>13. CASE Unshare(w)
  BY <1>13 DEF Unshare
<1> QED BY <1>1, <1>2, <1>3, <1>4, <1>5, <1>6, <1>7, <1>8, <1>9, <1>10, <1>11, <1>12,
    <1>13
  DEF WriterMove

(* A barrier's move keeps files and memories, and never drops a hold.         *)
LEMMA BarrierMoves ==
  ASSUME TypeOK, LocksHeld, NEW b \in Barriers, BarrierMove(b)
  PROVE  /\ UNCHANGED <<files, locals>>
         /\ \A q \in Procs \ {b} : pc'[q] = pc[q]
         /\ pc[b] \in Holding => pc'[b] \in Holding
<1> USE DEF Goto, TypeOK, Procs, files, locals, Holding
<1>1. CASE EnterGate(b)
  BY <1>1 DEF EnterGate
<1>2. CASE RemoveStale(b)
  BY <1>2 DEF RemoveStale
<1>3. CASE PublishMarker(b)
  BY <1>3 DEF PublishMarker
<1>4. CASE Drained(b)
  BY <1>4 DEF Drained
<1>5. CASE DrainTimeout(b)
  BY <1>5 DEF DrainTimeout
<1>6. CASE LockSnapshot(b)
  BY <1>6 DEF LockSnapshot
<1>7. CASE UnlockSnapshot(b)
  BY <1>7 DEF UnlockSnapshot
<1>8. CASE Unmark(b)
  BY <1>8 DEF Unmark
<1>9. CASE Ungate(b)
  BY <1>9 DEF Ungate
<1> QED BY <1>1, <1>2, <1>3, <1>4, <1>5, <1>6, <1>7, <1>8, <1>9 DEF BarrierMove

(* Hence no move disturbs the data invariant.                                 *)
LEMMA MovesKeepData ==
  ASSUME TypeOK, LocksHeld, DataInv,
         \/ \E w \in Writers : WriterMove(w)
         \/ \E b \in Barriers : BarrierMove(b)
  PROVE  DataInv'
<1>1. UNCHANGED <<files, locals>>
  BY WriterMoves, BarrierMoves
<1>2. \A w \in Writers :
        /\ pc'[w] \in {"ready", "append", "create", "rename", "sync"} => pc'[w] = pc[w]
        /\ pc'[w] = "clean" =>
             \/ pc[w] = "clean"
             \/ pc[w] = "append" /\ ~Clash(w) /\ New(w) # {} /\ ~Log!Closed(original[w])
  <2>1. CASE \E w \in Writers : WriterMove(w)
    BY <2>1, WriterMoves DEF Procs
  <2>2. CASE \E b \in Barriers : BarrierMove(b)
    BY <2>2, BarrierMoves, ConstantsAssumption DEF Procs, ConstantsAssumption
  <2> QED BY <2>1, <2>2
<1>3. \A b \in Barriers : pc[b] \in Holding => pc'[b] \in Holding
  BY WriterMoves, BarrierMoves, ConstantsAssumption DEF Procs, ConstantsAssumption
<1> USE DEF DataInv, files, locals
<1>4. Current' /\ Written' /\ Leftovers'
  BY <1>1, <1>2 DEF Current, CurrentPC, Written, Leftovers
<1>5. Pending'
  BY <1>1, <1>2 DEF Pending, New, Clash
<1>6. Ahead' /\ AckedDurable'
  BY <1>1 DEF Ahead, Publication, AckedDurable
<1>7. SeenHeld'
  BY <1>1, <1>3, SMTT(30) DEF SeenHeld
<1> QED BY <1>4, <1>5, <1>6, <1>7

-----------------------------------------------------------------------------
(* The lock protocol.                                                         *)

Protocol == TypeOK /\ LocksHeld /\ MarkerStands

(* Locks, marker and positions agree after every step.                        *)
LEMMA ProtocolStep ==
  ASSUME Protocol, [Next]_vars
  PROVE  Protocol'
<1> USE ConstantsAssumption DEF ConstantsAssumption, Protocol, TypeOK, LocksHeld, MarkerStands,
       Procs, Locked, Inside, Sharing, Holding, Quiescing, Gated,
       WriterPC, BarrierPC, Goto, Forget, flocks, files, locals
<1>1. ASSUME NEW w \in Writers, Begin(w) PROVE Protocol'
  BY <1>1 DEF Begin
<1>2. ASSUME NEW w \in Writers, CheckMarker(w) PROVE Protocol'
  <2>1. CASE pc' = [pc EXCEPT ![w] = "gate"]
    BY <1>2, <2>1 DEF CheckMarker
  <2>2. CASE pc' = [pc EXCEPT ![w] = "share"]
    BY <1>2, <2>2, ZenonT(60) DEF CheckMarker
  <2> QED BY <1>2, <2>1, <2>2 DEF CheckMarker
<1>3. ASSUME NEW w \in Writers, TakeGate(w) PROVE Protocol'
  <2>1. CASE pc' = [pc EXCEPT ![w] = "stale"]
    BY <1>3, <2>1 DEF TakeGate
  <2>2. CASE pc' = [pc EXCEPT ![w] = "idle"]
    BY <1>3, <2>2 DEF TakeGate
  <2> QED BY <1>3, <2>1, <2>2 DEF TakeGate
<1>4. ASSUME NEW w \in Writers, ClearStale(w) PROVE Protocol'
  BY <1>4, ZenonT(60) DEF ClearStale
<1>5. ASSUME NEW w \in Writers, OpenGate(w) PROVE Protocol'
  <2>1. gate = w /\ gate' = None /\ None \notin Procs
    BY <1>5 DEF OpenGate
  <2>2. \A p \in Procs : pc'[p] = IF p = w THEN "share" ELSE pc[p]
    BY <1>5 DEF OpenGate
  <2>3. UNCHANGED <<marker, exclusive, shared, lock, files, locals>>
    BY <1>5 DEF OpenGate
  <2>4. TypeOK'
    BY <1>5 DEF OpenGate
  <2>5. LocksHeld'
    <3>1. \A p \in Procs : gate' = p <=> pc'[p] \in {"stale", "opengate"} \cup Gated
      BY <2>1, <2>2, ZenonT(60)
    <3>2. \A p \in Procs :
            /\ pc'[p] \in Locked \cup {"reading", "unread"} <=> pc[p] \in Locked \cup {"reading", "unread"}
            /\ pc'[p] \in Sharing <=> pc[p] \in Sharing
            /\ pc'[p] \in Holding <=> pc[p] \in Holding
      BY <1>5 DEF OpenGate
    <3>3. UNCHANGED <<exclusive, shared, lock>>
      BY <2>3
    <3> QED BY <3>1, <3>2, <3>3
  <2>6. MarkerStands'
    BY <2>2, <2>3
  <2> QED BY <2>4, <2>5, <2>6
<1>6. ASSUME NEW w \in Writers, TakeShared(w) PROVE Protocol'
  <2>1. CASE pc' = [pc EXCEPT ![w] = "recheck"]
    BY <1>6, <2>1 DEF TakeShared
  <2>2. CASE pc' = [pc EXCEPT ![w] = "idle"]
    BY <1>6, <2>2 DEF TakeShared
  <2> QED BY <1>6, <2>1, <2>2 DEF TakeShared
<1>7. ASSUME NEW w \in Writers, RecheckMarker(w) PROVE Protocol'
  <2>1. CASE pc' = [pc EXCEPT ![w] = "idle"]
    BY <1>7, <2>1, ZenonT(60) DEF RecheckMarker
  <2>2. CASE pc' = [pc EXCEPT ![w] = "lock"]
    BY <1>7, <2>2 DEF RecheckMarker
  <2> QED BY <1>7, <2>1, <2>2 DEF RecheckMarker
<1>8. ASSUME NEW w \in Writers, UnsafeMarker(w) PROVE Protocol'
  BY <1>8 DEF UnsafeMarker
<1>9. ASSUME NEW w \in Writers, TakeLock(w) PROVE Protocol'
  BY <1>9 DEF TakeLock
<1>10. ASSUME NEW w \in Writers, Load(w) PROVE Protocol'
  BY <1>10 DEF Load
<1>11. ASSUME NEW w \in Writers, AlreadyRecorded(w) PROVE Protocol'
  BY <1>11 DEF AlreadyRecorded
<1>12. ASSUME NEW w \in Writers, AppendNew(w) PROVE Protocol'
  BY <1>12 DEF AppendNew
<1>13. ASSUME NEW w \in Writers, Refuse(w) PROVE Protocol'
  BY <1>13 DEF Refuse
<1>14. ASSUME NEW w \in Writers, CleanTemporaries(w) PROVE Protocol'
  BY <1>14 DEF CleanTemporaries
<1>15. ASSUME NEW w \in Writers, CreateTemporary(w) PROVE Protocol'
  <2>1. Content(w) \in Seq(SUBSET Events)
    BY ContentType
  <2> QED BY <1>15, <2>1 DEF CreateTemporary
<1>16. ASSUME NEW w \in Writers, Rename(w) PROVE Protocol'
  <2>1. Content(w) \in Seq(SUBSET Events)
    BY ContentType
  <2> QED BY <1>16, <2>1, ZenonT(60) DEF Rename
<1>17. ASSUME NEW w \in Writers, Sync(w) PROVE Protocol'
  BY <1>17 DEF Sync
<1>18. ASSUME NEW w \in Writers, Leave(w) PROVE Protocol'
  BY <1>18 DEF Leave
<1>19. ASSUME NEW w \in Writers, Fail(w) PROVE Protocol'
  BY <1>19 DEF Fail
<1>20. ASSUME NEW w \in Writers, Unlock(w) PROVE Protocol'
  BY <1>20 DEF Unlock
<1>21. ASSUME NEW w \in Writers, Unshare(w) PROVE Protocol'
  BY <1>21, ZenonT(60) DEF Unshare
<1>22. ASSUME NEW w \in Writers, NEW S \in Batches, Submit(w, S) PROVE Protocol'
  BY <1>22 DEF Submit
<1>23. ASSUME NEW b \in Barriers, EnterGate(b) PROVE Protocol'
  BY <1>23, SMTT(30) DEF EnterGate
<1>24. ASSUME NEW b \in Barriers, RemoveStale(b) PROVE Protocol'
  BY <1>24, ZenonT(60) DEF RemoveStale
<1>25. ASSUME NEW b \in Barriers, PublishMarker(b) PROVE Protocol'
  BY <1>25 DEF PublishMarker
<1>26. ASSUME NEW b \in Barriers, Drained(b) PROVE Protocol'
  BY <1>26 DEF Drained
<1>27. ASSUME NEW b \in Barriers, DrainTimeout(b) PROVE Protocol'
  BY <1>27 DEF DrainTimeout
<1>28. ASSUME NEW b \in Barriers, LockSnapshot(b) PROVE Protocol'
  BY <1>28 DEF LockSnapshot
<1>29. ASSUME NEW b \in Barriers, ReadSnapshot(b) PROVE Protocol'
  BY <1>29 DEF ReadSnapshot
<1>30. ASSUME NEW b \in Barriers, UnlockSnapshot(b) PROVE Protocol'
  BY <1>30 DEF UnlockSnapshot
<1>31. ASSUME NEW b \in Barriers, Release(b) PROVE Protocol'
  BY <1>31 DEF Release
<1>32. ASSUME NEW b \in Barriers, Unmark(b) PROVE Protocol'
  BY <1>32, ZenonT(60) DEF Unmark
<1>33. ASSUME NEW b \in Barriers, Ungate(b) PROVE Protocol'
  <2>1. gate = b /\ gate' = None /\ None \notin Procs
    BY <1>33 DEF Ungate
  <2>2. \A p \in Procs : pc'[p] = IF p = b THEN "idle" ELSE pc[p]
    BY <1>33 DEF Ungate
  <2>3. UNCHANGED <<marker, exclusive, shared, lock, files, locals>>
    BY <1>33 DEF Ungate
  <2>4. TypeOK'
    BY <1>33 DEF Ungate
  <2>5. LocksHeld'
    <3>1. \A p \in Procs : gate' = p <=> pc'[p] \in {"stale", "opengate"} \cup Gated
      BY <2>1, <2>2
    <3>2. \A p \in Procs :
            /\ pc'[p] \in Locked \cup {"reading", "unread"} <=> pc[p] \in Locked \cup {"reading", "unread"}
            /\ pc'[p] \in Sharing <=> pc[p] \in Sharing
            /\ pc'[p] \in Holding <=> pc[p] \in Holding
      BY <1>33 DEF Ungate
    <3>3. UNCHANGED <<exclusive, shared, lock>>
      BY <2>3
    <3> QED BY <3>1, <3>2, <3>3
  <2>6. MarkerStands'
    BY <2>2, <2>3
  <2> QED BY <2>4, <2>5, <2>6
<1>34. ASSUME NEW p \in Procs, Crash(p) PROVE Protocol'
  BY <1>34 DEF Crash
<1>35. ASSUME PowerLoss PROVE Protocol'
  BY <1>35 DEF PowerLoss
<1>36. CASE UNCHANGED vars
  BY <1>36 DEF vars
<1> QED
  BY <1>1, <1>2, <1>3, <1>4, <1>5, <1>6, <1>7, <1>8, <1>9, <1>10, <1>11, <1>12,
      <1>13, <1>14, <1>15, <1>16, <1>17, <1>18, <1>19, <1>20, <1>21, <1>22, <1>23,
      <1>24, <1>25, <1>26, <1>27, <1>28, <1>29, <1>30, <1>31, <1>32, <1>33, <1>34,
      <1>35, <1>36
    DEF Next, WriterStep, BarrierStep

(* What is durable is in the ledger.                                          *)
LEMMA DiskInLedger ==
  ASSUME TypeOK, Ahead
  PROVE  Log!Recorded(disk) \subseteq Log!Recorded(ledger)
<1>1. CASE ledger = disk
  BY <1>1
<1>2. CASE ledger # disk
  <2>1. PICK S \in SUBSET Events : ledger = Append(disk, S)
    BY <1>2 DEF Ahead, Publication
  <2> QED BY <2>1, RecordedAppend DEF TypeOK
<1> QED BY <1>1, <1>2

-----------------------------------------------------------------------------
(* The data.                                                                  *)

(* Two processes are never both under .lock.                                  *)
LEMMA OneLocked ==
  ASSUME TypeOK, LocksHeld, NEW w \in Writers, pc[w] \in Locked
  PROVE  \A v \in Writers : pc[v] \in Locked => v = w
BY DEF LocksHeld, Procs

(* Every step keeps what is read, pending, written and acknowledged right.    *)
LEMMA DataStep ==
  ASSUME TypeOK, LocksHeld, DataInv, [Next]_vars
  PROVE  DataInv'
<1> USE ConstantsAssumption
    DEF ConstantsAssumption, DataInv, Current, CurrentPC, Pending, Written, SeenHeld,
        Leftovers, TypeOK, LocksHeld, Procs, Locked, Holding, Goto, Forget, flocks,
        files, locals
<1>1. ASSUME NEW w \in Writers, Load(w) PROVE DataInv'
  <2>1. Current'
    BY <1>1 DEF Load
  <2>2. Pending'
    BY <1>1 DEF Load, New, Clash
  <2>3. Written'
    BY <1>1 DEF Load
  <2>4. Ahead'
    BY <1>1 DEF Load, Ahead, Publication
  <2>5. AckedDurable'
    BY <1>1, DiskInLedger DEF Load, AckedDurable
  <2>6. SeenHeld'
    BY <1>1 DEF Load
  <2>7. Leftovers'
    BY <1>1 DEF Load
  <2> QED BY <2>1, <2>2, <2>3, <2>4, <2>5, <2>6, <2>7
<1>2. ASSUME NEW w \in Writers, AlreadyRecorded(w) PROVE DataInv'
  <2>1. Current'
    BY <1>2 DEF AlreadyRecorded
  <2>2. Pending'
    BY <1>2 DEF AlreadyRecorded, New, Clash
  <2>3. Written'
    BY <1>2 DEF AlreadyRecorded
  <2>4. Ahead'
    BY <1>2 DEF AlreadyRecorded, Ahead, Publication
  <2>5. AckedDurable'
    <3>1. original[w] = disk /\ ~Clash(w) /\ New(w) = {}
      BY <1>2 DEF AlreadyRecorded
    <3>2. batch[w] \subseteq Log!Recorded(disk)
      BY <3>1, NothingNew
    <3> QED BY <1>2, <3>2 DEF AlreadyRecorded, AckedDurable
  <2>6. SeenHeld'
    BY <1>2 DEF AlreadyRecorded
  <2>7. Leftovers'
    BY <1>2 DEF AlreadyRecorded
  <2> QED BY <2>1, <2>2, <2>3, <2>4, <2>5, <2>6, <2>7
<1>3. ASSUME NEW w \in Writers, CleanTemporaries(w) PROVE DataInv'
  <2>1. Current'
    BY <1>3 DEF CleanTemporaries
  <2>2. Pending'
    BY <1>3 DEF CleanTemporaries, New, Clash
  <2>3. Written'
    BY <1>3 DEF CleanTemporaries
  <2>4. Ahead'
    BY <1>3 DEF CleanTemporaries, Ahead, Publication
  <2>5. AckedDurable'
    BY <1>3 DEF CleanTemporaries, AckedDurable
  <2>6. SeenHeld'
    BY <1>3 DEF CleanTemporaries
  <2>7. Leftovers'
    BY <1>3 DEF CleanTemporaries
  <2> QED BY <2>1, <2>2, <2>3, <2>4, <2>5, <2>6, <2>7
<1>4. ASSUME NEW w \in Writers, CreateTemporary(w) PROVE DataInv'
  <2>1. Current'
    BY <1>4 DEF CreateTemporary
  <2>2. Pending'
    BY <1>4 DEF CreateTemporary, New, Clash
  <2>3. Written'
    BY <1>4 DEF CreateTemporary
  <2>4. Ahead'
    BY <1>4 DEF CreateTemporary, Ahead, Publication
  <2>5. AckedDurable'
    BY <1>4 DEF CreateTemporary, AckedDurable
  <2>6. SeenHeld'
    BY <1>4 DEF CreateTemporary
  <2>7. Leftovers'
    <3>1. temps = {} /\ temps' = {Content(w)} /\ Content(w) \in Seq(SUBSET Events)
      BY <1>4, ContentType DEF CreateTemporary
    <3>2. \A v \in Writers : pc'[v] # "create"
      BY <1>4, OneLocked DEF CreateTemporary
    <3> QED BY <3>1, <3>2
  <2> QED BY <2>1, <2>2, <2>3, <2>4, <2>5, <2>6, <2>7
<1>5. ASSUME NEW w \in Writers, Rename(w) PROVE DataInv'
  <2>1. Current'
    BY <1>5 DEF Rename
  <2>2. Pending'
    BY <1>5 DEF Rename, New, Clash
  <2>3. Written'
    <3>1. ledger' = Append(disk, New(w)) /\ disk \in Seq(SUBSET Events) /\ New(w) \in SUBSET Events
      BY <1>5, NewIsPublication DEF Rename
    <3>2. batch[w] \subseteq Log!Recorded(disk) \cup New(w)
      BY <1>5, NothingNew DEF Rename
    <3>a. Log!Recorded(Append(disk, New(w))) = Log!Recorded(disk) \cup New(w)
      BY <3>1, RecordedAppend
    <3>3. batch[w] \subseteq Log!Recorded(ledger')
      BY <3>1, <3>2, <3>a
    <3>4. \A v \in Writers : pc'[v] = "sync" => v = w
      BY <1>5, OneLocked DEF Rename
    <3> QED BY <1>5, <3>3, <3>4 DEF Rename, Log!Recorded
  <2>4. Ahead'
    <3>1. ledger' = Append(disk, New(w)) /\ disk' = disk
      BY <1>5, NewIsPublication DEF Rename
    <3> QED BY <1>5, <3>1, NewIsPublication
      DEF Rename, Ahead, Publication, Log!Fresh, Log!Closed, Log!Recorded
  <2>5. AckedDurable'
    BY <1>5 DEF Rename, AckedDurable
  <2>6. SeenHeld'
    <3>1. w \in shared
      BY <1>5 DEF Rename, Sharing, Inside
    <3>2. \A b \in Barriers : pc[b] \notin Holding
      BY <3>1
    <3> QED BY <1>5, <3>2 DEF Rename
  <2>7. Leftovers'
    BY <1>5 DEF Rename
  <2> QED BY <2>1, <2>2, <2>3, <2>4, <2>5, <2>6, <2>7
<1>6. ASSUME NEW w \in Writers, Sync(w) PROVE DataInv'
  <2>1. Current'
    BY <1>6 DEF Sync
  <2>2. Pending'
    BY <1>6 DEF Sync, New, Clash
  <2>3. Written'
    BY <1>6 DEF Sync
  <2>4. Ahead'
    BY <1>6 DEF Sync, Ahead, Publication
  <2>5. AckedDurable'
    BY <1>6, DiskInLedger DEF Sync, AckedDurable
  <2>6. SeenHeld'
    BY <1>6 DEF Sync
  <2>7. Leftovers'
    BY <1>6 DEF Sync
  <2> QED BY <2>1, <2>2, <2>3, <2>4, <2>5, <2>6, <2>7
<1>7. ASSUME NEW w \in Writers, Fail(w) PROVE DataInv'
  <2>1. Current'
    BY <1>7 DEF Fail
  <2>2. Pending'
    BY <1>7 DEF Fail, New, Clash
  <2>3. Written'
    BY <1>7 DEF Fail
  <2>4. Ahead'
    BY <1>7 DEF Fail, Ahead, Publication
  <2>5. AckedDurable'
    BY <1>7 DEF Fail, AckedDurable
  <2>6. SeenHeld'
    BY <1>7 DEF Fail
  <2>7. Leftovers'
    BY <1>7 DEF Fail
  <2> QED BY <2>1, <2>2, <2>3, <2>4, <2>5, <2>6, <2>7
<1>8. ASSUME NEW w \in Writers, Unlock(w) PROVE DataInv'
  <2>1. Current'
    BY <1>8 DEF Unlock
  <2>2. Pending'
    BY <1>8 DEF Unlock, New, Clash
  <2>3. Written'
    BY <1>8 DEF Unlock
  <2>4. Ahead'
    BY <1>8 DEF Unlock, Ahead, Publication
  <2>5. AckedDurable'
    BY <1>8 DEF Unlock, AckedDurable
  <2>6. SeenHeld'
    BY <1>8 DEF Unlock
  <2>7. Leftovers'
    BY <1>8 DEF Unlock
  <2> QED BY <2>1, <2>2, <2>3, <2>4, <2>5, <2>6, <2>7
<1>9. ASSUME NEW w \in Writers, NEW S \in Batches, Submit(w, S) PROVE DataInv'
  <2>1. Current'
    BY <1>9 DEF Submit
  <2>2. Pending'
    BY <1>9 DEF Submit, New, Clash
  <2>3. Written'
    BY <1>9 DEF Submit
  <2>4. Ahead'
    BY <1>9 DEF Submit, Ahead, Publication
  <2>5. AckedDurable'
    BY <1>9 DEF Submit, AckedDurable
  <2>6. SeenHeld'
    BY <1>9 DEF Submit
  <2>7. Leftovers'
    BY <1>9 DEF Submit
  <2> QED BY <2>1, <2>2, <2>3, <2>4, <2>5, <2>6, <2>7
<1>10. ASSUME NEW b \in Barriers, ReadSnapshot(b) PROVE DataInv'
  <2>1. Current'
    BY <1>10 DEF ReadSnapshot
  <2>2. Pending'
    BY <1>10 DEF ReadSnapshot, New, Clash
  <2>3. Written'
    BY <1>10 DEF ReadSnapshot
  <2>4. Ahead'
    BY <1>10 DEF ReadSnapshot, Ahead, Publication
  <2>5. AckedDurable'
    BY <1>10, DiskInLedger DEF ReadSnapshot, AckedDurable
  <2>6. SeenHeld'
    BY <1>10 DEF ReadSnapshot
  <2>7. Leftovers'
    BY <1>10 DEF ReadSnapshot
  <2> QED BY <2>1, <2>2, <2>3, <2>4, <2>5, <2>6, <2>7
<1>11. ASSUME NEW b \in Barriers, Release(b) PROVE DataInv'
  <2>1. Current'
    BY <1>11 DEF Release
  <2>2. Pending'
    BY <1>11 DEF Release, New, Clash
  <2>3. Written'
    BY <1>11 DEF Release
  <2>4. Ahead'
    BY <1>11 DEF Release, Ahead, Publication
  <2>5. AckedDurable'
    BY <1>11 DEF Release, AckedDurable
  <2>6. SeenHeld'
    BY <1>11 DEF Release
  <2>7. Leftovers'
    BY <1>11 DEF Release
  <2> QED BY <2>1, <2>2, <2>3, <2>4, <2>5, <2>6, <2>7
<1>12. ASSUME NEW p \in Procs, Crash(p) PROVE DataInv'
  <2>1. Current'
    BY <1>12 DEF Crash
  <2>2. Pending'
    BY <1>12 DEF Crash, New, Clash
  <2>3. Written'
    BY <1>12 DEF Crash
  <2>4. Ahead'
    BY <1>12 DEF Crash, Ahead, Publication
  <2>5. AckedDurable'
    BY <1>12 DEF Crash, AckedDurable
  <2>6. SeenHeld'
    BY <1>12 DEF Crash
  <2>7. Leftovers'
    BY <1>12 DEF Crash
  <2> QED BY <2>1, <2>2, <2>3, <2>4, <2>5, <2>6, <2>7
<1>13. ASSUME PowerLoss PROVE DataInv'
  <2>1. Current'
    BY <1>13 DEF PowerLoss
  <2>2. Pending'
    BY <1>13 DEF PowerLoss, New, Clash
  <2>3. Written'
    BY <1>13 DEF PowerLoss
  <2>4. Ahead'
    BY <1>13 DEF PowerLoss, Ahead, Publication
  <2>5. AckedDurable'
    BY <1>13, DiskInLedger DEF PowerLoss, AckedDurable
  <2>6. SeenHeld'
    BY <1>13 DEF PowerLoss
  <2>7. Leftovers'
    BY <1>13 DEF PowerLoss
  <2> QED BY <2>1, <2>2, <2>3, <2>4, <2>5, <2>6, <2>7
<1>14. CASE UNCHANGED vars
  BY <1>14 DEF vars, New, Clash, Ahead, Publication, AckedDurable
<1>15. CASE (\E w \in Writers : WriterMove(w)) \/ \E b \in Barriers : BarrierMove(b)
  BY <1>15, MovesKeepData
<1> QED
  BY <1>1, <1>2, <1>3, <1>4, <1>5, <1>6, <1>7, <1>8, <1>9, <1>10, <1>11, <1>12,
      <1>13, <1>14, <1>15
  DEF Next, WriterStep, BarrierStep, WriterMove, BarrierMove

-----------------------------------------------------------------------------
(* Theorems.                                                                  *)

(* Initially no process has begun and the ledger is empty.                    *)
LEMMA InitIInv == Init => IInv
<1> SUFFICES ASSUME Init PROVE IInv
  OBVIOUS
<1> USE ConstantsAssumption DEF ConstantsAssumption, Init, Procs
<1>1. TypeOK
  <2>1. pc \in [Procs -> WriterPC \cup BarrierPC] /\ \A p \in Procs : pc[p] = "idle"
    BY DEF WriterPC, BarrierPC
  <2>2. /\ \A w \in Writers : pc[w] \in WriterPC
        /\ \A b \in Barriers : pc[b] \in BarrierPC
    BY <2>1 DEF WriterPC, BarrierPC
  <2>3. /\ ledger \in Seq(SUBSET Events) /\ disk \in Seq(SUBSET Events)
        /\ original \in [Writers -> Seq(SUBSET Events)]
    OBVIOUS
  <2>4. /\ marker \in BOOLEAN /\ gate \in Procs \cup {None} /\ lock \in Procs \cup {None}
        /\ exclusive \in Barriers \cup {None} /\ shared \in SUBSET Writers
        /\ temps \in SUBSET Seq(SUBSET Events) /\ acked \in SUBSET Events
    OBVIOUS
  <2>5. /\ batch \in [Writers -> SUBSET Events] /\ crashes \in 0..MaxCrashes
        /\ seen \in [Barriers -> Seq(SUBSET Events) \cup {None}]
    OBVIOUS
  <2> QED BY <2>1, <2>2, <2>3, <2>4, <2>5 DEF TypeOK
<1>2. LocksHeld
  BY DEF LocksHeld, Locked, Sharing, Inside, Holding, Quiescing, Gated
<1>3. MarkerStands
  BY DEF MarkerStands, Quiescing, Holding
<1>4. Current /\ Pending /\ Written /\ Ahead /\ SeenHeld
  BY DEF Current, CurrentPC, Pending, Written, Ahead, SeenHeld
<1>5. AckedDurable
  BY DEF AckedDurable
<1>6. Leftovers
  <2>1. <<>> \in Seq(SUBSET Events) /\ temps \subseteq {<<>>}
    OBVIOUS
  <2> QED BY <2>1 DEF Leftovers
<1> QED BY <1>1, <1>2, <1>3, <1>4, <1>5, <1>6 DEF IInv, DataInv

(* The invariant is inductive.                                                *)
LEMMA NextIInv == IInv /\ [Next]_vars => IInv'
BY ProtocolStep, DataStep DEF IInv, Protocol

(* The inductive invariant holds of every reachable state.                    *)
THEOREM InvariantTheorem == Spec => []IInv
BY InitIInv, NextIInv, PTL DEF Spec

(* The protocol state is well typed for any processes, requests and crashes. *)
THEOREM TypeTheorem == Spec => []TypeOK
BY InvariantTheorem, PTL DEF IInv

(* Believing to hold a flock and holding it are the same at every position,   *)
(* and a barrier and a sharing writer exclude each other.                     *)
THEOREM LocksTheorem == Spec => []LocksHeld
BY InvariantTheorem, PTL DEF IInv

(* Nothing acknowledged is lost by a crash or a power loss: _read_pinned      *)
(* _ledger's caller syncs the directory before it trusts a rename it did not  *)
(* make (__enter__), and append_events answers only after its own sync.       *)
THEOREM DurabilityTheorem == Spec => []AckedDurable
<1>1. IInv => AckedDurable
  BY DEF IInv, DataInv
<1> QED BY <1>1, InvariantTheorem, PTL

(* What a barrier read is the ledger until it releases.                       *)
THEOREM SnapshotTheorem == Spec => []SnapshotStays
<1>1. IInv => SnapshotStays
  BY DEF IInv, DataInv, SeenHeld, SnapshotStays
<1> QED BY <1>1, InvariantTheorem, PTL

(* A live barrier's marker is never taken for a stale one.                    *)
THEOREM MarkerTheorem == Spec => []MarkerStands
BY InvariantTheorem, PTL DEF IInv

(* At most one temporary is left behind, whatever crashed.                    *)
THEOREM LeftoverTheorem == Spec => []LeftoversBounded
<1>1. IInv => LeftoversBounded
  <2> SUFFICES ASSUME IInv PROVE LeftoversBounded
    OBVIOUS
  <2>1. PICK c : temps \subseteq {c}
    BY DEF IInv, DataInv, Leftovers
  <2>2. temps = {} \/ temps = {c}
    BY <2>1
  <2>3. Cardinality(temps) <= 1
    <3>1. CASE temps = {}
      BY <3>1, FS_EmptySet
    <3>2. CASE temps = {c}
      BY <3>2, FS_Singleton
    <3> QED BY <2>2, <3>1, <3>2
  <2> QED BY <2>3 DEF IInv, DataInv, Leftovers, LeftoversBounded
<1> QED BY <1>1, InvariantTheorem, PTL

(* A published marker closes the section the barrier drains.                  *)
LEMMA DrainStep ==
  ASSUME TypeOK, MarkerStands, [Next]_vars,
         NEW b \in Barriers, pc[b] \in Quiescing,
         NEW w \in Writers, pc'[w] \in Inside
  PROVE  pc[w] \in Inside
<1>1. marker
  BY DEF MarkerStands
<1> USE DEF TypeOK, Procs, Inside, Locked, Goto
<1>2. CASE \E v \in Writers : RecheckMarker(v)
  BY <1>1, <1>2 DEF RecheckMarker
<1>3. ASSUME NEW v \in Writers, WriterStep(v) \/ Begin(v) \/ UnsafeMarker(v) \/ Fail(v)
                \/ \E S \in Batches : Submit(v, S),
             ~RecheckMarker(v)
      PROVE  pc[w] \in Inside
  BY <1>3
    DEF WriterStep, Submit, Begin, CheckMarker, TakeGate, ClearStale, OpenGate,
        TakeShared,
       UnsafeMarker, TakeLock, Load, AlreadyRecorded, AppendNew, Refuse,
       CleanTemporaries, CreateTemporary, Rename, Sync, Leave, Fail, Unlock,
       Unshare
<1>4. CASE \E c \in Barriers : BarrierStep(c) \/ EnterGate(c)
  BY <1>4, ConstantsAssumption
  DEF ConstantsAssumption, BarrierStep, EnterGate, RemoveStale, PublishMarker, Drained, DrainTimeout,
       LockSnapshot, ReadSnapshot, UnlockSnapshot, Release, Unmark, Ungate
<1>5. CASE PowerLoss \/ \E p \in Procs : Crash(p)
  BY <1>5 DEF PowerLoss, Crash
<1>6. CASE UNCHANGED vars
  BY <1>6 DEF vars
<1> QED BY <1>2, <1>3, <1>4, <1>5, <1>6 DEF Next

(* Draining only drains (MissionMutationBarrier.__enter__).                   *)
THEOREM DrainTheorem == Spec => DrainsOnly
<1>1. IInv /\ [Next]_vars =>
        [\A b \in Barriers :
           pc[b] \in Quiescing /\ pc'[b] \in Quiescing =>
             {w \in Writers : pc'[w] \in Inside} \subseteq {w \in Writers : pc[w] \in Inside}]_vars
  BY DrainStep DEF IInv
<1> QED BY <1>1, InvariantTheorem, PTL DEF Spec, DrainsOnly

(* The steps that sync are the only ones the log sees.                        *)
LEMMA SyncPublishes ==
  ASSUME IInv, disk' = ledger
  PROVE  [Log!Next]_disk
<1>1. CASE ledger = disk
  BY <1>1
<1>2. CASE ledger # disk
  <2>1. PICK S \in SUBSET Events : Publication(S)
    BY <1>2 DEF IInv, DataInv, Ahead
  <2>2. Log!Publish(S)
    BY <2>1 DEF Publication, Log!Publish
  <2> QED BY <2>2 DEF Log!Next
<1> QED BY <1>1, <1>2

(* Every step of the protocol is one legal publication, or none.              *)
LEMMA LogStep ==
  ASSUME IInv, [Next]_vars
  PROVE  [Log!Next]_disk
<1> USE DEF files
<1>1. CASE \E w \in Writers : Load(w) \/ Sync(w)
  BY <1>1, SyncPublishes DEF Load, Sync
<1>2. CASE \E b \in Barriers : ReadSnapshot(b)
  BY <1>2, SyncPublishes DEF ReadSnapshot
<1>3. CASE PowerLoss
  BY <1>3, SyncPublishes DEF PowerLoss
<1>4. CASE \/ \E w \in Writers : WriterMove(w)
           \/ \E b \in Barriers : BarrierMove(b)
  BY <1>4, WriterMoves, BarrierMoves DEF IInv
<1>5. ASSUME NEW w \in Writers,
             \/ AlreadyRecorded(w) \/ CleanTemporaries(w) \/ CreateTemporary(w)
             \/ Rename(w) \/ Fail(w) \/ Unlock(w) \/ \E S \in Batches : Submit(w, S)
      PROVE  UNCHANGED disk
  BY <1>5
    DEF AlreadyRecorded, CleanTemporaries, CreateTemporary, Rename, Fail, Unlock,
        Submit
<1>6. CASE (\E b \in Barriers : Release(b)) \/ \E p \in Procs : Crash(p)
  BY <1>6 DEF Release, Crash
<1>7. CASE UNCHANGED vars
  BY <1>7 DEF vars
<1> QED
  BY <1>1, <1>2, <1>3, <1>4, <1>5, <1>6, <1>7
  DEF Next, WriterStep, BarrierStep, WriterMove, BarrierMove

(* The ledger on disk, under races, errors, crashes and power losses, is the  *)
(* append-only log of unique requests that append_events promises.            *)
THEOREM LogTheorem == Spec => LogImplemented
<1>1. Init => Log!Init
  BY DEF Init, Log!Init
<1>2. IInv /\ [Next]_vars => [Log!Next]_disk
  BY LogStep
<1> QED BY <1>1, <1>2, InvariantTheorem, PTL DEF Spec, LogImplemented, Log!Spec

(* The log records each request once, whatever is retried.                    *)
LEMMA LogOnce == Log!Spec => []Log!RequestsOnce
<1> DEFINE LogInv == disk \in Seq(SUBSET Events) /\ Log!RequestsOnce
<1>1. Log!Init => LogInv
  BY DEF Log!Init, Log!RequestsOnce
<1>2. LogInv /\ [Log!Next]_disk => LogInv'
  <2> SUFFICES ASSUME LogInv, [Log!Next]_disk PROVE LogInv'
    OBVIOUS
  <2>1. CASE UNCHANGED disk
    BY <2>1 DEF Log!RequestsOnce
  <2>2. ASSUME NEW S \in SUBSET Events, Log!Publish(S) PROVE LogInv'
    <3> DEFINE k == Len(disk)
    <3>1. /\ disk' = Append(disk, S) /\ disk' \in Seq(SUBSET Events)
          /\ k \in Nat /\ DOMAIN disk = 1..k /\ DOMAIN disk' = 1..k + 1
          /\ disk'[k + 1] = S /\ \A n \in 1..k : disk'[n] = disk[n]
      BY <2>2 DEF Log!Publish
    <3>2. \A e, f \in S : e.key = f.key => e = f
      BY <2>2 DEF Log!Publish, Log!Consistent
    <3>3. \A n \in 1..k : \A e \in S, f \in disk[n] : f.key # e.key
      <4>1. \A e \in S : \A f \in Log!Recorded(disk) : f.key # e.key
        BY <2>2 DEF Log!Publish, Log!Fresh
      <4> QED BY <3>1, <4>1, Zenon DEF Log!Recorded
    <3>4. \A m, n \in 1..k + 1 : \A e \in disk'[m], f \in disk'[n] :
            e.key = f.key => m = n /\ e = f
      <4>1. SUFFICES ASSUME NEW m \in 1..k + 1, NEW n \in 1..k + 1,
                            NEW e \in disk'[m], NEW f \in disk'[n], e.key = f.key
                     PROVE  m = n /\ e = f
        OBVIOUS
      <4>2. CASE m \in 1..k /\ n \in 1..k
        BY <3>1, <4>1, <4>2, Zenon DEF Log!RequestsOnce
      <4>3. CASE m = k + 1 /\ n = k + 1
        BY <3>1, <3>2, <4>1, <4>3, Zenon
      <4>4. CASE m = k + 1 /\ n \in 1..k
        BY <3>1, <3>3, <4>1, <4>4, Zenon
      <4>5. CASE m \in 1..k /\ n = k + 1
        BY <3>1, <3>3, <4>1, <4>5, Zenon
      <4>6. (m \in 1..k \/ m = k + 1) /\ (n \in 1..k \/ n = k + 1)
        <5> HIDE DEF k
        <5> QED BY <3>1
      <4> QED BY <4>2, <4>3, <4>4, <4>5, <4>6
    <3>5. Log!RequestsOnce'
      BY <3>1, <3>4, ZenonT(60) DEF Log!RequestsOnce
    <3> QED BY <3>1, <3>5, Zenon
  <2> QED BY <2>1, <2>2 DEF Log!Next
<1> QED BY <1>1, <1>2, PTL DEF Log!Spec

(* So does the ledger on disk.                                                *)
THEOREM RequestsOnceTheorem == Spec => []Log!RequestsOnce
BY LogTheorem, LogOnce, PTL DEF LogImplemented
=============================================================================
