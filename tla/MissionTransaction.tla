-------------------------- MODULE MissionTransaction --------------------------
(***************************************************************************)
(* How processes share one mission directory: MissionTransaction (writers)  *)
(* and MissionMutationBarrier (barriers) of scripts/fleet_mission_state.py. *)
(*                                                                          *)
(* Four files coordinate them: the flocks .mutation.gate.lock (gate),       *)
(* .mutation.lock (held shared by writers, exclusively by a barrier) and    *)
(* .lock (the ledger), and the marker .mutation.quiescing, which is no lock *)
(* and outlives the barrier that crashes.  The ledger is replaced by rename *)
(* and is durable only after the directory is synced.                       *)
(*                                                                          *)
(* One publication is the set of events one append_events call adds; their  *)
(* order within it, the hash chain and inode validation are left out.       *)
(***************************************************************************)
EXTENDS Sequences, Integers, FiniteSets

CONSTANTS
  Writers,   \* processes that run MissionTransaction
  Barriers,  \* processes that run MissionMutationBarrier
  Events,    \* requests: [key, body]
  Finals,    \* the requests that end the mission
  Batches,   \* what one append_events call may submit
  None,      \* no process, no snapshot
  MaxCrashes \* bound: crashes and power losses

VARIABLES
  pc,        \* where each process is
  marker,    \* does .mutation.quiescing exist?
  gate,      \* holder of .mutation.gate.lock
  exclusive, \* barrier holding .mutation.lock exclusively
  shared,    \* writers holding .mutation.lock shared
  lock,      \* holder of .lock
  ledger,    \* mission.jsonl as processes see it
  disk,      \* mission.jsonl as a power loss would leave it
  temps,     \* .mission.jsonl.<hash>.tmp files, each named for its contents
  batch,     \* batch[w]: the requests w is appending
  original,  \* original[w]: the ledger w read under .lock
  seen,      \* seen[b]: the ledger b read inside its barrier, or None
  acked,     \* requests some caller was told are in the ledger
  crashes    \* how often a process or the machine died

files == <<ledger, disk, temps>>
flocks == <<gate, exclusive, shared, lock>>
locals == <<batch, original, seen, acked>>
vars == <<pc, marker, flocks, files, locals, crashes>>

Procs == Writers \cup Barriers

Log == INSTANCE MissionLog WITH log <- disk

(* Positions of a writer: past the second look at the marker, and under .lock. *)
Locked == {"load", "ready", "append", "clean", "create", "rename", "sync", "unlock"}
Inside == {"lock", "unshare"} \cup Locked
Sharing == {"recheck"} \cup Inside
(* Positions of a barrier: marker published, writers excluded.                *)
Holding == {"held", "reading", "unread"}
Quiescing == {"draining", "unmark"} \cup Holding
Gated == {"gated", "cleared", "ungate"} \cup Quiescing

WriterPC == {"idle", "check", "gate", "stale", "opengate", "share"} \cup Sharing
BarrierPC == {"idle"} \cup Gated

ASSUME ConstantsAssumption ==
  /\ Writers \cap Barriers = {}
  /\ None \notin Procs \cup Seq(SUBSET Events)
  /\ Finals \subseteq Events
  /\ Batches \subseteq SUBSET Events
  /\ MaxCrashes \in Nat

Init ==
  /\ pc = [p \in Procs |-> "idle"]
  /\ marker = FALSE
  /\ gate = None /\ exclusive = None /\ shared = {} /\ lock = None
  /\ ledger = <<>> /\ disk = <<>> /\ temps = {}
  /\ batch = [w \in Writers |-> {}]
  /\ original = [w \in Writers |-> <<>>]
  /\ seen = [b \in Barriers |-> None]
  /\ acked = {}
  /\ crashes = 0

Goto(p, from, to) ==
  pc[p] = from /\ pc' = [pc EXCEPT ![p] = to] /\ UNCHANGED crashes

(* The transactions of the processes in P are over.                           *)
Forget(P) ==
  /\ batch' = [w \in Writers |-> IF w \in P THEN {} ELSE batch[w]]
  /\ original' = [w \in Writers |-> IF w \in P THEN <<>> ELSE original[w]]

-----------------------------------------------------------------------------
(* MissionTransaction.__enter__ without a barrier.                           *)

Begin(w) ==
  /\ Goto(w, "idle", "check")
  /\ UNCHANGED <<marker, flocks, files, locals>>

CheckMarker(w) ==
  /\ \/ marker /\ Goto(w, "check", "gate")
     \/ ~marker /\ Goto(w, "check", "share")
  /\ UNCHANGED <<marker, flocks, files, locals>>

(* LOCK_NB: a gate somebody holds is a conflict, told to the caller.         *)
TakeGate(w) ==
  /\ \/ gate = None /\ gate' = w /\ Goto(w, "gate", "stale")
     \/ gate # None /\ UNCHANGED gate /\ Goto(w, "gate", "idle")
  /\ UNCHANGED <<marker, exclusive, shared, lock, files, locals>>

StaleKept(w) ==  \* mutant: the stale marker survives its cleanup
  /\ Goto(w, "stale", "opengate")
  /\ UNCHANGED <<marker, flocks, files, locals>>
ClearStale(w) ==
  /\ Goto(w, "stale", "opengate")
  /\ marker' = FALSE
  /\ UNCHANGED <<flocks, files, locals>>

OpenGate(w) ==
  /\ Goto(w, "opengate", "share")
  /\ gate' = None
  /\ UNCHANGED <<marker, exclusive, shared, lock, files, locals>>

TakeShared(w) ==
  /\ \/ exclusive = None /\ shared' = shared \cup {w} /\ Goto(w, "share", "recheck")
     \/ exclusive # None /\ UNCHANGED shared /\ Goto(w, "share", "idle")
  /\ UNCHANGED <<marker, gate, exclusive, lock, files, locals>>

RecheckMarker(w) ==
  /\ \/ marker /\ shared' = shared \ {w} /\ Goto(w, "recheck", "idle")
     \/ ~marker /\ UNCHANGED shared /\ Goto(w, "recheck", "lock")
  /\ UNCHANGED <<marker, gate, exclusive, lock, files, locals>>

(* The marker is unlinked while it is being inspected: an error to the caller. *)
UnsafeMarker(w) ==
  /\ ~marker
  /\ pc[w] \in {"check", "recheck"}
  /\ Goto(w, pc[w], "idle")
  /\ shared' = shared \ {w}
  /\ UNCHANGED <<marker, gate, exclusive, lock, files, locals>>

TakeLock(w) ==
  /\ lock = None
  /\ Goto(w, "lock", "load")
  /\ lock' = w
  /\ UNCHANGED <<marker, gate, exclusive, shared, files, locals>>

LoadUnsynced(w) ==  \* mutant: trusts a rename that was never synced
  /\ Goto(w, "load", "ready")
  /\ original' = [original EXCEPT ![w] = ledger]
  /\ UNCHANGED <<marker, flocks, files, batch, seen, acked>>
(* Reads the ledger and syncs the directory before trusting what it read.    *)
Load(w) ==
  /\ Goto(w, "load", "ready")
  /\ original' = [original EXCEPT ![w] = ledger]
  /\ disk' = ledger
  /\ UNCHANGED <<marker, flocks, ledger, temps, batch, seen, acked>>

-----------------------------------------------------------------------------
(* append_events, called any number of times inside the transaction.          *)

Submit(w, S) ==
  /\ Goto(w, "ready", "append")
  /\ batch' = [batch EXCEPT ![w] = S]
  /\ UNCHANGED <<marker, flocks, files, original, seen, acked>>

New(w) == Log!Fresh(batch[w], original[w])

(* A key of the batch was already used for another request.                  *)
Clash(w) == ~Log!Consistent(batch[w] \cup Log!Recorded(original[w]))

Content(w) == Append(original[w], New(w))

AlreadyRecorded(w) ==
  /\ Goto(w, "append", "ready")
  /\ ~Clash(w) /\ New(w) = {}
  /\ acked' = acked \cup batch[w]
  /\ UNCHANGED <<marker, flocks, files, batch, original, seen>>

AppendUnchecked(w) ==  \* mutant: reused keys and closed missions pass
  /\ Goto(w, "append", "clean")
  /\ New(w) # {}
  /\ UNCHANGED <<marker, flocks, files, locals>>
AppendNew(w) ==
  /\ Goto(w, "append", "clean")
  /\ ~Clash(w) /\ New(w) # {} /\ ~Log!Closed(original[w])
  /\ UNCHANGED <<marker, flocks, files, locals>>

(* A reused key, a terminal mission, or an event the reducer rejects.        *)
Refuse(w) ==
  /\ Goto(w, "append", "unlock")
  /\ Clash(w) \/ New(w) # {}
  /\ UNCHANGED <<marker, flocks, files, locals>>

(* _publish_pinned_ledger.                                                   *)
CleanTemporaries(w) ==
  /\ ledger = original[w]  \* else the transaction fails
  /\ Goto(w, "clean", "create")
  /\ temps' = {}
  /\ UNCHANGED <<marker, flocks, ledger, disk, locals>>

CreateTemporary(w) ==
  /\ Content(w) \notin temps  \* O_EXCL: else the transaction fails
  /\ Goto(w, "create", "rename")
  /\ temps' = temps \cup {Content(w)}
  /\ UNCHANGED <<marker, flocks, ledger, disk, locals>>

Rename(w) ==
  /\ Goto(w, "rename", "sync")
  /\ ledger' = Content(w)
  /\ temps' = temps \ {Content(w)}
  /\ UNCHANGED <<marker, flocks, disk, locals>>

Sync(w) ==
  /\ Goto(w, "sync", "ready")
  /\ disk' = ledger
  /\ original' = [original EXCEPT ![w] = ledger]
  /\ acked' = acked \cup batch[w]
  /\ UNCHANGED <<marker, flocks, ledger, temps, batch, seen>>

Leave(w) ==
  /\ Goto(w, "ready", "unlock")
  /\ UNCHANGED <<marker, flocks, files, locals>>

(* An I/O error: the transaction unwinds, unlinking the temporary it created. *)
Fail(w) ==
  /\ pc[w] \in {"load", "clean", "create", "rename", "sync"}
  /\ Goto(w, pc[w], "unlock")
  /\ temps' = IF pc[w] = "rename" THEN temps \ {Content(w)} ELSE temps
  /\ UNCHANGED <<marker, flocks, ledger, disk, locals>>

Unlock(w) ==
  /\ Goto(w, "unlock", "unshare")
  /\ lock' = None
  /\ Forget({w})
  /\ UNCHANGED <<marker, gate, exclusive, shared, files, seen, acked>>

Unshare(w) ==
  /\ Goto(w, "unshare", "idle")
  /\ shared' = shared \ {w}
  /\ UNCHANGED <<marker, gate, exclusive, lock, files, locals>>

-----------------------------------------------------------------------------
(* MissionMutationBarrier, and the read-only transaction inside it.           *)

EnterGate(b) ==
  /\ gate = None
  /\ Goto(b, "idle", "gated")
  /\ gate' = b
  /\ UNCHANGED <<marker, exclusive, shared, lock, files, locals>>

RemoveStale(b) ==
  /\ Goto(b, "gated", "cleared")
  /\ marker' = FALSE
  /\ UNCHANGED <<flocks, files, locals>>

PublishMarker(b) ==  \* O_EXCL
  /\ ~marker
  /\ Goto(b, "cleared", "draining")
  /\ marker' = TRUE
  /\ UNCHANGED <<flocks, files, locals>>

DrainUnchecked(b) ==  \* mutant: the marker alone is taken to keep writers out
  /\ Goto(b, "draining", "held")
  /\ exclusive' = b
  /\ UNCHANGED <<marker, gate, shared, lock, files, locals>>
Drained(b) ==
  /\ shared = {} /\ exclusive = None
  /\ Goto(b, "draining", "held")
  /\ exclusive' = b
  /\ UNCHANGED <<marker, gate, shared, lock, files, locals>>

DrainTimeout(b) ==
  /\ Goto(b, "draining", "unmark")
  /\ UNCHANGED <<marker, flocks, files, locals>>

LockSnapshot(b) ==
  /\ lock = None
  /\ Goto(b, "held", "reading")
  /\ lock' = b
  /\ UNCHANGED <<marker, gate, exclusive, shared, files, locals>>

ReadSnapshot(b) ==
  /\ Goto(b, "reading", "unread")
  /\ seen' = [seen EXCEPT ![b] = ledger]
  /\ disk' = ledger
  /\ UNCHANGED <<marker, flocks, ledger, temps, batch, original, acked>>

UnlockSnapshot(b) ==
  /\ Goto(b, "unread", "held")
  /\ lock' = None
  /\ UNCHANGED <<marker, gate, exclusive, shared, files, locals>>

(* __exit__ unwinds in reverse: .mutation.lock, marker, gate.                *)
Release(b) ==
  /\ Goto(b, "held", "unmark")
  /\ exclusive' = None
  /\ seen' = [seen EXCEPT ![b] = None]
  /\ UNCHANGED <<marker, gate, shared, lock, files, batch, original, acked>>

Unmark(b) ==
  /\ marker
  /\ Goto(b, "unmark", "ungate")
  /\ marker' = FALSE
  /\ UNCHANGED <<flocks, files, locals>>

Ungate(b) ==
  /\ Goto(b, "ungate", "idle")
  /\ gate' = None
  /\ UNCHANGED <<marker, exclusive, shared, lock, files, locals>>

-----------------------------------------------------------------------------
(* A process dies: the kernel drops its flocks, its files stay.               *)
Crash(p) ==
  /\ pc[p] # "idle" /\ crashes < MaxCrashes
  /\ crashes' = crashes + 1
  /\ pc' = [pc EXCEPT ![p] = "idle"]
  /\ gate' = IF gate = p THEN None ELSE gate
  /\ exclusive' = IF exclusive = p THEN None ELSE exclusive
  /\ shared' = shared \ {p}
  /\ lock' = IF lock = p THEN None ELSE lock
  /\ seen' = [b \in Barriers |-> IF b = p THEN None ELSE seen[b]]
  /\ Forget({p})
  /\ UNCHANGED <<marker, files, acked>>

(* The machine dies: a rename that was not synced may be lost.               *)
PowerLoss ==
  /\ crashes < MaxCrashes /\ crashes' = crashes + 1
  /\ pc' = [p \in Procs |-> "idle"]
  /\ gate' = None /\ exclusive' = None /\ shared' = {} /\ lock' = None
  /\ seen' = [b \in Barriers |-> None]
  /\ ledger' \in {ledger, disk}
  /\ disk' = ledger'
  /\ Forget(Procs)
  /\ UNCHANGED <<marker, temps, acked>>

WriterStep(w) ==
  \/ CheckMarker(w) \/ TakeGate(w) \/ ClearStale(w) \/ OpenGate(w)
  \/ TakeShared(w) \/ RecheckMarker(w) \/ TakeLock(w) \/ Load(w)
  \/ AlreadyRecorded(w) \/ AppendNew(w) \/ Refuse(w)
  \/ CleanTemporaries(w) \/ CreateTemporary(w) \/ Rename(w) \/ Sync(w)
  \/ Leave(w) \/ Unlock(w) \/ Unshare(w)

BarrierStep(b) ==
  \/ RemoveStale(b) \/ PublishMarker(b) \/ Drained(b) \/ DrainTimeout(b)
  \/ LockSnapshot(b) \/ ReadSnapshot(b) \/ UnlockSnapshot(b)
  \/ Release(b) \/ Unmark(b) \/ Ungate(b)

Next ==
  \/ \E w \in Writers :
       \/ Begin(w) \/ WriterStep(w) \/ UnsafeMarker(w) \/ Fail(w)
       \/ \E S \in Batches : Submit(w, S)
  \/ \E b \in Barriers : BarrierStep(b) \/ EnterGate(b)
  \/ \E p \in Procs : Crash(p)
  \/ PowerLoss

Spec == Init /\ [][Next]_vars

(* A running process keeps running, callers keep submitting, and what a      *)
(* caller does inside a transaction or a barrier ends.                       *)
FairSpec ==
  /\ Spec
  /\ \A w \in Writers :
       /\ WF_vars(WriterStep(w)) /\ SF_vars(Leave(w))
       /\ WF_vars(Begin(w))
  /\ \A b \in Barriers : WF_vars(BarrierStep(b)) /\ SF_vars(Release(b))

-----------------------------------------------------------------------------
(* Properties.                                                               *)

(* Every variable stays within its domain. *)
TypeOK ==
  /\ pc \in [Procs -> WriterPC \cup BarrierPC]
  /\ \A w \in Writers : pc[w] \in WriterPC
  /\ \A b \in Barriers : pc[b] \in BarrierPC
  /\ marker \in BOOLEAN
  /\ gate \in Procs \cup {None} /\ lock \in Procs \cup {None}
  /\ exclusive \in Barriers \cup {None} /\ shared \in SUBSET Writers
  /\ ledger \in Seq(SUBSET Events) /\ disk \in Seq(SUBSET Events)
  /\ temps \in SUBSET Seq(SUBSET Events)
  /\ batch \in [Writers -> SUBSET Events]
  /\ original \in [Writers -> Seq(SUBSET Events)]
  /\ seen \in [Barriers -> Seq(SUBSET Events) \cup {None}]
  /\ acked \in SUBSET Events
  /\ crashes \in 0..MaxCrashes

(* At every position, after any crash, the flocks are held by exactly the     *)
(* processes that believe they hold them; a barrier and a sharing writer      *)
(* never believe so together.                                                 *)
LocksHeld ==
  /\ \A p \in Procs : gate = p <=> pc[p] \in {"stale", "opengate"} \cup Gated
  /\ \A p \in Procs : lock = p <=> pc[p] \in Locked \cup {"reading", "unread"}
  /\ \A w \in Writers : w \in shared <=> pc[w] \in Sharing
  /\ \A b \in Barriers : exclusive = b <=> pc[b] \in Holding
  /\ exclusive # None => shared = {}

(* What a caller was told is recorded survives every crash, a power loss      *)
(* included, even when the rename was made by a process that died before it   *)
(* synced the directory.                                                      *)
AckedDurable == acked \subseteq Log!Recorded(disk)

(* What a barrier read stays the ledger for as long as it holds: no writer    *)
(* that slipped past the marker publishes under it.                           *)
SnapshotStays == \A b \in Barriers : seen[b] # None => seen[b] = ledger

(* The marker stands for the whole life of a barrier, though writers remove   *)
(* markers they take for stale and other barriers come and go; so the barrier *)
(* never finds that its own marker disappeared, nor one it cannot replace.    *)
MarkerStands ==
  \A b \in Barriers :
    /\ pc[b] \in Quiescing => marker
    /\ pc[b] = "cleared" => ~marker

(* Temporaries of crashed writers never pile up: at most one is left, and it  *)
(* never stands in the way of the next publication.                           *)
LeftoversBounded ==
  /\ Cardinality(temps) <= 1
  /\ \A w \in Writers : pc[w] = "create" => temps = {}

(* Draining only drains: once a barrier's marker is up, no writer enters the  *)
(* section the barrier waits for, so the set it waits for shrinks only.       *)
DrainsOnly ==
  [][\A b \in Barriers :
       pc[b] \in Quiescing /\ pc'[b] \in Quiescing =>
         {w \in Writers : pc'[w] \in Inside} \subseteq {w \in Writers : pc[w] \in Inside}]_vars

(* Writers that race, retry and crash at any point leave a log: publications  *)
(* are only added, each request once, none with a reused key or after the end *)
(* of the mission.                                                            *)
LogImplemented == Log!Spec

(* No barrier that crashed blocks the mission for ever: whatever its marker   *)
(* stops, the marker is gone again and again.                                 *)
StaleMarkerClears == []<>~marker
=============================================================================
