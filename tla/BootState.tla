----------------------------- MODULE BootState ------------------------------
(***************************************************************************)
(* What a fleet that boots is made of (Boot): its clones, their journals,   *)
(* its ledger, manifest and workspace, the running attempt, and what every  *)
(* attempt promises of them.                                                *)
(***************************************************************************)
EXTENDS Naturals

CONSTANTS
    Writers,    \* instances with a writer clone
    Readers,    \* instances with a read-only snapshot
    None,       \* no instance, intent or directory
    MaxStops,   \* bound: how often an attempt fails or is killed
    MaxMeddles  \* bound: how often somebody puts a directory in the way

Tasks == {"reconcile", "failed", "transfer", "undo"}
Places == {"home", "staged"}
Contents == {"empty", "part", "whole", "work", "dirty", "half"}
StageIntents == {"partial", "exact"}
Ledgers == {"empty", "used"}
Intents == {"prepared", "bound", "handoff", "cleanup"}

ASSUME BootAssumption ==
    /\ Writers \cap Readers = {}
    /\ None \notin Writers \cup Readers
    /\ None \notin Tasks \cup Places \cup Contents \cup StageIntents \cup Ledgers \cup Intents
    /\ MaxStops \in Nat /\ MaxMeddles \in Nat

VARIABLES
    pc, cur,   \* the step of the running attempt and the clone it deals with
    task,      \* why: "reconcile", "failed", "transfer" or "undo"
    attempt,   \* the attempt's own variables
    place,     \* instance -> where its clone is: None, "home" or "staged"
    what,      \* instance -> what the clone is: None, "empty", "part" (cloning),
               \* "whole", "work" (advanced), "dirty" or "half" (deleted)
    squat,     \* instances with somebody else's directory at the clone's path
    plan, bound,  \* instances with a creation plan, with a creation binding
    stage,     \* instance -> its stage intent: None, "partial" or "exact"
    tomb,      \* instances with a retirement tombstone
    ledger,    \* the lifecycle ledger: None, "empty" or "used"
    intent,    \* its bootstrap intent: None, "prepared", "bound", "handoff" or "cleanup"
    manifest, state,  \* is there a manifest, a phase state?
    live,      \* is the workspace of this attempt or of the fleet open?
    orphan,    \* did an earlier attempt leave one open?
    branch,    \* is there a branch of an earlier fleet in the target repository?
    stops, meddles

Clones == Writers \cup Readers

-----------------------------------------------------------------------------
(* Properties.                                                               *)

\* Nothing an agent has committed or left pending in a clone is deleted by an
\* attempt or by its rollback, wherever earlier ones failed or were killed, as long
\* as no agents of theirs are left at work: a clone is moved out of their path,
\* looked at again and only then buried, and a rollback waits until its own
\* workspace is gone (cleanup_on_exit, reconcile_failed_boot_journal).
WorkKept ==
    [][\A c \in Clones :
         what[c] \in {"work", "dirty"} /\ what'[c] = "half" => orphan]_what

\* Every clone on disk is accounted for: a creation plan, a stage intent or the
\* manifest names it, at every step of its way from the one to the other and back.
Owned ==
    \A c \in Clones : place[c] # None => c \in plan \/ stage[c] # None \/ manifest

\* A fleet that is up is whole: while its manifest stands and its workspace is open,
\* every clone is in its place and complete and the lifecycle ledger is there.
FleetWhole ==
    manifest /\ live =>
        /\ ledger # None
        /\ \A c \in Clones : place[c] = "home" /\ what[c] \in {"whole", "work", "dirty"}
=============================================================================
