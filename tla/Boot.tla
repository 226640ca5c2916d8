-------------------------------- MODULE Boot --------------------------------
(***************************************************************************)
(* How scripts/fleet-up.sh brings one fleet up: the lifecycle ledger is    *)
(* created under an intent, every instance gets a clone of its own under a *)
(* creation plan and binding, the workspace is opened, the manifest is     *)
(* published and takes the clones over from their journals.                *)
(*                                                                         *)
(* An attempt that fails rolls itself back; one that is killed does not,   *)
(* and the next attempt goes by what lies on disk: per clone the plan, the *)
(* binding, the stage intent and the tombstone, and where the directory    *)
(* is.  Agents edit the clones of a workspace that is open, also of one    *)
(* that a killed attempt left; people put directories of their own in the  *)
(* way, close workspaces and take the fleet down (Teardown; one step here).*)
(*                                                                         *)
(* The boot lock admits one attempt at a time, and no teardown beside it.  *)
(* Every journal is written atomically; a directory is bound by its inode, *)
(* so somebody else's is told from the attempt's own.                      *)
(***************************************************************************)
EXTENDS BootState

disk == <<place, what, squat>>
journals == <<plan, bound, stage, tomb>>
books == <<ledger, intent, manifest, state>>
around == <<live, orphan, branch, stops, meddles>>
script == <<pc, cur, task, attempt>>
vars == <<script, disk, journals, books, around>>

Fresh == [made |-> {}, ledger |-> FALSE, opened |-> FALSE, published |-> FALSE,
          complete |-> TRUE, journaled |-> TRUE]

BootSteps ==
    {"ledger", "next", "reconcile", "plan", "mkdir", "bind", "clone", "cloned",
     "open", "handoff", "publish", "state", "transfer", "complete"}
RetireSteps ==
    {"stage", "move", "verify", "bury", "remove", "removing", "exhume", "unstage",
     "unbind", "unplan"}
UndoSteps == {"close", "undo", "clean", "drop", "forget", "unmanifest", "unstate"}

ScriptTyped ==
    /\ pc \in {"idle"} \cup BootSteps \cup RetireSteps \cup UndoSteps
    /\ cur \in Clones \cup {None} /\ task \in Tasks \cup {None}
    /\ attempt \in [made: SUBSET Clones, ledger: BOOLEAN, opened: BOOLEAN,
                    published: BOOLEAN, complete: BOOLEAN, journaled: BOOLEAN]
DiskTyped ==
    /\ place \in [Clones -> Places \cup {None}] /\ what \in [Clones -> Contents \cup {None}]
    /\ squat \in SUBSET Clones
    /\ plan \in SUBSET Clones /\ bound \in SUBSET Clones
    /\ stage \in [Clones -> StageIntents \cup {None}] /\ tomb \in SUBSET Clones
BooksTyped ==
    /\ ledger \in Ledgers \cup {None} /\ intent \in Intents \cup {None}
    /\ manifest \in BOOLEAN /\ state \in BOOLEAN
    /\ live \in BOOLEAN /\ orphan \in BOOLEAN /\ branch \in BOOLEAN
    /\ stops \in Nat /\ meddles \in Nat
TypeOK == ScriptTyped /\ DiskTyped /\ BooksTyped

Init ==
    /\ pc = "idle" /\ cur = None /\ task = None /\ attempt = Fresh
    /\ place = [c \in Clones |-> None] /\ what = [c \in Clones |-> None] /\ squat = {}
    /\ plan = {} /\ bound = {} /\ stage = [c \in Clones |-> None] /\ tomb = {}
    /\ ledger = None /\ intent = None /\ manifest = FALSE /\ state = FALSE
    /\ live = FALSE /\ orphan = FALSE /\ branch = FALSE
    /\ stops = 0 /\ meddles = 0

-----------------------------------------------------------------------------
(* Where the script goes.                                                    *)

Goto(p) == pc' = p /\ UNCHANGED <<cur, task, attempt>>
Turn(p, c, t) == pc' = p /\ cur' = c /\ task' = t /\ UNCHANGED attempt
Notes(p, b) == pc' = p /\ attempt' = b /\ UNCHANGED <<cur, task>>

\* An error exit: the trap rolls the attempt back.
Refuse == Turn("close", None, None)

\* What cannot be retired ends the attempt; in a rollback it is left for the next one.
GiveUp ==
    IF task = "undo"
    THEN pc' = "undo" /\ attempt' = [attempt EXCEPT !.complete = FALSE] /\ UNCHANGED <<cur, task>>
    ELSE Refuse

\* The process is gone.  A workspace no manifest names is left to itself.
Gone ==
    /\ pc' = "idle" /\ cur' = None /\ task' = None /\ attempt' = Fresh
    /\ live' = (live /\ manifest)
    /\ orphan' = (orphan \/ (live /\ ~manifest))

\* failed_writer_head, failed_reader_head: a whole clone without pending changes.
Head(c) == what[c] = "whole" \/ (what[c] = "work" /\ c \in Writers)

-----------------------------------------------------------------------------
(* Admission and the lifecycle ledger.                                       *)

StartAnyway ==  \* mutant: a manifest is no reason to refuse
    /\ pc = "idle" /\ ~branch
    /\ pc' = "ledger" /\ attempt' = Fresh
    /\ UNCHANGED <<cur, task, disk, journals, books, around>>
Start ==
    /\ pc = "idle" /\ ~manifest /\ ~branch
    /\ pc' = "ledger" /\ attempt' = Fresh
    /\ UNCHANGED <<cur, task, disk, journals, books, around>>

\* ensure: only a ledger that was created under this intent is taken over.
PrepareLedger ==
    /\ pc = "ledger" /\ intent = None
    /\ IF ledger = None
       THEN intent' = "prepared" /\ UNCHANGED script
       ELSE UNCHANGED intent /\ Refuse
    /\ UNCHANGED <<disk, journals, ledger, manifest, state, around>>

CreateLedger ==
    /\ pc = "ledger" /\ intent = "prepared" /\ ledger = None
    /\ ledger' = "empty"
    /\ UNCHANGED <<script, disk, journals, intent, manifest, state, around>>

BindLedger ==
    /\ pc = "ledger" /\ intent \in {"prepared", "bound", "handoff"} /\ ledger = "empty"
    /\ intent' = "bound"
    /\ Notes("next", [attempt EXCEPT !.ledger = TRUE])
    /\ UNCHANGED <<disk, journals, ledger, manifest, state, around>>

\* A cleanup that was cut short is completed.
DropLedger ==
    /\ pc = "ledger" /\ intent = "cleanup" /\ ledger = "empty"
    /\ ledger' = None
    /\ UNCHANGED <<script, disk, journals, intent, manifest, state, around>>

DropCleanupOnly ==  \* mutant: an intent handed to a manifest stays when the fleet is gone
    /\ pc = "ledger" /\ intent = "cleanup" /\ ledger = None
    /\ intent' = None
    /\ UNCHANGED <<script, disk, journals, ledger, manifest, state, around>>
DropIntent ==
    /\ pc = "ledger" /\ intent \in {"cleanup", "handoff"} /\ ledger = None
    /\ intent' = None
    /\ UNCHANGED <<script, disk, journals, ledger, manifest, state, around>>

-----------------------------------------------------------------------------
(* What an earlier attempt left of a clone is cleared before a new one.      *)

NextClone ==
    /\ pc = "next"
    /\ \/ \E c \in Clones \ attempt.made : Turn("reconcile", c, "reconcile")
       \/ attempt.made = Clones /\ Goto("open")
    /\ UNCHANGED <<disk, journals, books, around>>

\* reconcile_failed_boot_journal refuses: what is in its way is not the attempt's
\* own, has changed, or does not fit its journals.
Refuses(c) ==
    \/ c \in squat
    \/ place[c] = "home" /\ c \notin plan
    \/ c \in plan /\ c \notin bound /\
          (stage[c] # None \/ c \in tomb \/ what[c] \notin {None, "empty"})
    \/ c \notin plan /\ c \notin tomb /\ stage[c] # None /\ place[c] = None
    \/ c \notin tomb /\ stage[c] # None /\ place[c] = "home"
    \/ c \notin tomb /\ place[c] = "staged" /\ (stage[c] # "exact" \/ what[c] # "whole")

\* An empty directory of mode 0700 at a planned path is taken for the guard's own.
HaveDirectory(c) ==
    /\ place' = [place EXCEPT ![c] = "home"]
    /\ what' = [what EXCEPT ![c] = "empty"]
    /\ squat' = squat \ {c}

\* Where it takes up what was cut short.
Resume(c) ==
    CASE c \in tomb -> "remove"
      [] c \notin tomb /\ place[c] = None /\ stage[c] # None -> "unstage"
      [] c \notin tomb /\ place[c] = None /\ stage[c] = None /\ c \in plan -> "unbind"
      [] c \notin tomb /\ place[c] = None /\ stage[c] = None /\ c \notin plan -> "plan"
      [] c \notin tomb /\ place[c] = "staged" -> "bury"
      [] c \notin tomb /\ place[c] = "home" -> "stage"

Adopt ==
    /\ pc = "reconcile" /\ cur \in squat
    /\ cur \in plan \ (bound \cup tomb) /\ stage[cur] = None /\ place[cur] = None
    /\ HaveDirectory(cur)
    /\ bound' = bound \cup {cur}
    /\ UNCHANGED <<script, plan, stage, tomb, books, around>>

Reconcile ==
    /\ pc = "reconcile"
    /\ IF Refuses(cur)
       THEN UNCHANGED bound /\ Refuse
       ELSE IF place[cur] = "home" /\ cur \notin bound
       THEN bound' = bound \cup {cur} /\ UNCHANGED script
       ELSE UNCHANGED bound /\ Goto(Resume(cur))
    /\ UNCHANGED <<disk, plan, stage, tomb, books, around>>

\* stage_clone: the intent, then the move out of every agent's path.
Stage ==
    /\ pc = "stage"
    /\ stage' = [stage EXCEPT ![cur] =
                    IF task = "undo" \/ (task = "reconcile" /\ Head(cur))
                    THEN "exact" ELSE "partial"]
    /\ Goto("move")
    /\ UNCHANGED <<disk, plan, bound, tomb, books, around>>

Move ==
    /\ pc = "move"
    /\ place' = [place EXCEPT ![cur] = "staged"]
    /\ Goto("verify")
    /\ UNCHANGED <<what, squat, journals, books, around>>

\* The clone once more: only an untouched or an empty one is deleted.
Verify ==
    /\ pc = "verify"
    /\ IF what[cur] = "whole" \/ (task = "reconcile" /\ what[cur] = "empty")
       THEN Goto("bury")
       ELSE GiveUp
    /\ UNCHANGED <<disk, journals, books, around>>

\* tombstone ensure, remove, clear: refused while something is at the clone's path.
Bury ==
    /\ pc = "bury"
    /\ IF cur \in squat
       THEN UNCHANGED tomb /\ GiveUp
       ELSE tomb' = tomb \cup {cur} /\ Goto("remove")
    /\ UNCHANGED <<disk, plan, bound, stage, books, around>>

Remove ==
    /\ pc = "remove"
    /\ IF cur \in squat THEN UNCHANGED what /\ GiveUp
       ELSE IF place[cur] = None THEN UNCHANGED what /\ Goto("exhume")
       ELSE what' = [what EXCEPT ![cur] = "half"] /\ Goto("removing")
    /\ UNCHANGED <<place, squat, journals, books, around>>

RemoveLast ==
    /\ pc = "removing"
    /\ place' = [place EXCEPT ![cur] = None] /\ what' = [what EXCEPT ![cur] = None]
    /\ Goto("exhume")
    /\ UNCHANGED <<squat, journals, books, around>>

Exhume ==
    /\ pc = "exhume"
    /\ IF cur \in squat
       THEN UNCHANGED tomb /\ GiveUp
       ELSE tomb' = tomb \ {cur} /\ Goto("unstage")
    /\ UNCHANGED <<disk, plan, bound, stage, books, around>>

Unstage ==
    /\ pc = "unstage"
    /\ stage' = [stage EXCEPT ![cur] = None]
    /\ Goto("unbind")
    /\ UNCHANGED <<disk, plan, bound, tomb, books, around>>

\* creation clear: the binding, then the plan.
Unbind ==
    /\ pc = "unbind"
    /\ IF cur \in squat /\ cur \in plan
       THEN UNCHANGED bound /\ GiveUp
       ELSE bound' = bound \ {cur} /\ Goto("unplan")
    /\ UNCHANGED <<disk, plan, stage, tomb, books, around>>

Unplan ==
    /\ pc = "unplan"
    /\ plan' = plan \ {cur}
    /\ Goto(CASE task = "reconcile" -> "plan" [] task = "transfer" -> "transfer"
              [] task = "undo" -> "undo")
    /\ UNCHANGED <<disk, bound, stage, tomb, books, around>>

-----------------------------------------------------------------------------
(* A new clone: plan, directory, binding, content.                           *)

PlanClone ==
    /\ pc = "plan"
    /\ IF cur \in squat
       THEN UNCHANGED plan /\ Refuse
       ELSE plan' = plan \cup {cur} /\ Goto("mkdir")
    /\ UNCHANGED <<disk, bound, stage, tomb, books, around>>

MakeDirectory ==
    /\ pc = "mkdir"
    /\ \/ cur \in squat /\ UNCHANGED disk /\ Refuse
       \/ HaveDirectory(cur) /\ Goto("bind")
    /\ UNCHANGED <<journals, books, around>>

BindClone ==
    /\ pc = "bind"
    /\ bound' = bound \cup {cur} /\ Goto("clone")
    /\ UNCHANGED <<disk, plan, stage, tomb, books, around>>

Clone ==
    /\ pc = "clone"
    /\ what' = [what EXCEPT ![cur] = "part"] /\ Goto("cloned")
    /\ UNCHANGED <<place, squat, journals, books, around>>

Register ==
    /\ pc = "cloned"
    /\ what' = [what EXCEPT ![cur] = "whole"]
    /\ pc' = "next" /\ cur' = None /\ task' = None
    /\ attempt' = [attempt EXCEPT !.made = @ \cup {cur}]
    /\ UNCHANGED <<place, squat, journals, books, around>>

\* Git fails, or the clone fails its verification: it is staged as partial.
CloneFails ==
    /\ pc \in {"clone", "cloned"} /\ stops < MaxStops
    /\ stops' = stops + 1
    /\ Turn("stage", cur, "failed")
    /\ UNCHANGED <<disk, journals, books, live, orphan, branch, meddles>>

-----------------------------------------------------------------------------
(* Workspace, manifest, and the clones' way from the journals to it.         *)

Open ==
    /\ pc = "open"
    /\ live' = TRUE
    /\ Notes("handoff", [attempt EXCEPT !.opened = TRUE])
    /\ UNCHANGED <<disk, journals, books, orphan, branch, stops, meddles>>

HandLedger ==
    /\ pc = "handoff"
    /\ intent' = "handoff" /\ Goto("publish")
    /\ UNCHANGED <<disk, journals, ledger, manifest, state, around>>

Publish ==
    /\ pc = "publish"
    /\ manifest' = TRUE
    /\ Notes("state", [attempt EXCEPT !.published = TRUE])
    /\ UNCHANGED <<disk, journals, ledger, intent, state, around>>

\* fleet_state.py init: one that an earlier rollback left is refused.
InitState ==
    /\ pc = "state"
    /\ IF state THEN UNCHANGED state /\ Refuse ELSE state' = TRUE /\ Goto("transfer")
    /\ UNCHANGED <<disk, journals, ledger, intent, manifest, around>>

Transfer ==
    /\ pc = "transfer"
    /\ \/ \E c \in plan : Turn("unbind", c, "transfer")
       \/ plan = {} /\ Turn("complete", None, None)
    /\ UNCHANGED <<disk, journals, books, around>>

Complete ==
    /\ pc = "complete"
    /\ intent' = None
    /\ Gone
    /\ UNCHANGED <<disk, journals, ledger, manifest, state, branch, stops, meddles>>

-----------------------------------------------------------------------------
(* cleanup_on_exit.                                                          *)

CloseHastily ==  \* mutant: a workspace told to close is taken for closed
    /\ pc = "close"
    /\ live' \in (IF attempt.opened THEN {live, FALSE} ELSE {live})
    /\ Goto("undo")
    /\ UNCHANGED <<disk, journals, books, orphan, branch, stops, meddles>>
\* cmux may not confirm that the workspace is gone; everything is kept then.
Close ==
    /\ pc = "close"
    /\ \/ live' = (live /\ ~attempt.opened) /\ Goto("undo")
       \/ /\ attempt.opened /\ live /\ UNCHANGED live
          /\ Notes("unmanifest", [attempt EXCEPT !.complete = FALSE, !.journaled = FALSE])
    /\ UNCHANGED <<disk, journals, books, orphan, branch, stops, meddles>>

\* Readers, then writers.  One that has changed is kept where it is.
Undo ==
    /\ pc = "undo"
    /\ \/ \E c \in attempt.made :
            /\ c \in Writers => attempt.made \cap Readers = {}
            /\ IF Head(c)
               THEN /\ pc' = "stage" /\ cur' = c /\ task' = "undo"
                    /\ attempt' = [attempt EXCEPT !.made = @ \ {c}]
               ELSE Notes("undo", [attempt EXCEPT !.made = @ \ {c}, !.complete = FALSE,
                                               !.journaled = FALSE])
       \/ attempt.made = {} /\ Turn("clean", None, None)
    /\ UNCHANGED <<disk, journals, books, around>>

Kept == ~attempt.complete /\ ~attempt.journaled

\* cleanup: only a ledger nobody has used.
CleanLedger ==
    /\ pc = "clean"
    /\ IF ~attempt.ledger \/ Kept THEN UNCHANGED intent /\ Goto("unmanifest")
       ELSE IF ledger = "empty" THEN intent' = "cleanup" /\ Goto("drop")
       ELSE /\ UNCHANGED intent
            /\ Notes("unmanifest", [attempt EXCEPT !.complete = FALSE, !.journaled = FALSE])
    /\ UNCHANGED <<disk, journals, ledger, manifest, state, around>>

RemoveLedger ==
    /\ pc = "drop"
    /\ ledger' = None /\ Goto("forget")
    /\ UNCHANGED <<disk, journals, intent, manifest, state, around>>

ForgetIntent ==
    /\ pc = "forget"
    /\ intent' = None /\ Goto("unmanifest")
    /\ UNCHANGED <<disk, journals, ledger, manifest, state, around>>

UnpublishKept ==  \* mutant: the manifest goes whatever was kept
    /\ pc = "unmanifest"
    /\ IF attempt.published
       THEN manifest' = FALSE /\ Goto("unstate") /\ UNCHANGED <<live, orphan>>
       ELSE UNCHANGED manifest /\ Gone
    /\ UNCHANGED <<disk, journals, ledger, intent, state, branch, stops, meddles>>
Unpublish ==
    /\ pc = "unmanifest"
    /\ IF attempt.published /\ ~Kept
       THEN manifest' = FALSE /\ Goto("unstate") /\ UNCHANGED <<live, orphan>>
       ELSE UNCHANGED manifest /\ Gone
    /\ UNCHANGED <<disk, journals, ledger, intent, state, branch, stops, meddles>>

DropState ==
    /\ pc = "unstate"
    /\ state' = FALSE
    /\ Gone
    /\ UNCHANGED <<disk, journals, ledger, intent, manifest, branch, stops, meddles>>

-----------------------------------------------------------------------------
(* Failures and the world around.                                            *)

\* A command fails; the attempt exits and rolls back.
Fail ==
    /\ pc \in BootSteps \cup RetireSteps /\ task # "undo" /\ stops < MaxStops
    /\ stops' = stops + 1
    /\ Refuse
    /\ UNCHANGED <<disk, journals, books, live, orphan, branch, meddles>>

\* A command of the rollback fails: the clone is left to the next attempt, and if it
\* may not have been staged, the manifest and the ledger are left too.
UndoFails ==
    /\ pc \in RetireSteps /\ task = "undo" /\ stops < MaxStops
    /\ stops' = stops + 1
    /\ pc' = "undo"
    /\ \/ pc \in {"stage", "move", "verify"}
            /\ attempt' = [attempt EXCEPT !.complete = FALSE, !.journaled = FALSE]
       \/ pc \notin {"stage", "move"} /\ attempt' = [attempt EXCEPT !.complete = FALSE]
    /\ UNCHANGED <<cur, task, disk, journals, books, live, orphan, branch, meddles>>

Kill ==
    /\ pc # "idle" /\ stops < MaxStops
    /\ stops' = stops + 1
    /\ Gone
    /\ UNCHANGED <<disk, journals, books, branch, meddles>>

\* An agent commits in its clone or leaves it dirty; a move does not stop it.
Edit(c) ==
    /\ live \/ orphan
    /\ what[c] \in {"whole", "work", "dirty"}
    /\ \E w \in (IF c \in Writers THEN {"work", "dirty"} ELSE {"dirty"}) :
          what' = [what EXCEPT ![c] = w]
    /\ UNCHANGED <<script, place, squat, journals, books, around>>

\* A run of the fleet is recorded.
Use ==
    /\ manifest /\ live /\ ledger = "empty"
    /\ ledger' = "used"
    /\ UNCHANGED <<script, disk, journals, intent, manifest, state, around>>

Squat(c) ==
    /\ place[c] # "home" /\ c \notin squat /\ meddles < MaxMeddles
    /\ squat' = squat \cup {c} /\ meddles' = meddles + 1
    /\ UNCHANGED <<script, place, what, journals, books, live, orphan, branch, stops>>
Unsquat(c) ==
    /\ c \in squat
    /\ squat' = squat \ {c}
    /\ UNCHANGED <<script, place, what, journals, books, around>>

CloseWorkspace ==
    /\ live /\ live' = FALSE
    /\ UNCHANGED <<script, disk, journals, books, orphan, branch, stops, meddles>>

\* fleet-down.sh: what Teardown does in many steps.
TearDown ==
    /\ pc = "idle" /\ manifest /\ state
    /\ \A c \in Clones : place[c] = "home" /\ Head(c)
    /\ place' = [c \in Clones |-> None] /\ what' = [c \in Clones |-> None]
    /\ plan' = {} /\ bound' = {}
    /\ ledger' = None /\ manifest' = FALSE /\ state' = FALSE /\ live' = FALSE
    /\ branch' = (Writers # {})
    /\ UNCHANGED <<script, squat, stage, tomb, intent, orphan, stops, meddles>>

RemoveBranch ==
    /\ branch /\ branch' = FALSE
    /\ UNCHANGED <<script, disk, journals, books, live, orphan, stops, meddles>>

Ledger == PrepareLedger \/ CreateLedger \/ BindLedger \/ DropLedger \/ DropIntent
Retire ==
    \/ Reconcile \/ Adopt \/ Stage \/ Move \/ Verify \/ Bury \/ Remove \/ RemoveLast \/ Exhume
    \/ Unstage \/ Unbind \/ Unplan
Create == NextClone \/ PlanClone \/ MakeDirectory \/ BindClone \/ Clone \/ Register
Raise == Open \/ HandLedger \/ Publish \/ InitState \/ Transfer \/ Complete
Rollback ==
    \/ Close \/ Undo \/ CleanLedger \/ RemoveLedger \/ ForgetIntent \/ Unpublish \/ DropState
Script == Ledger \/ Retire \/ Create \/ Raise \/ Rollback

Next ==
    \/ Start \/ Script \/ CloneFails \/ Fail \/ UndoFails \/ Kill
    \/ \E c \in Clones : Edit(c) \/ Squat(c) \/ Unsquat(c)
    \/ Use \/ CloseWorkspace \/ TearDown \/ RemoveBranch

Spec == Init /\ [][Next]_vars

\* The script goes on, and whoever wants the fleet tries again.
FairSpec == Spec /\ WF_vars(Script) /\ SF_vars(Start)

-----------------------------------------------------------------------------
(* Properties.                                                               *)

\* What the next attempt cannot clear by itself.
Stuck(c) ==
    \/ c \in squat
    \/ place[c] = "staged" /\ what[c] \notin {"whole", "half"}
    \/ place[c] = "home" /\ stage[c] # None
    \/ stage[c] # None /\ (c \notin plan \/ c \notin bound)

\* Tried again and again, the fleet comes up, or a directory or journal of the
\* listed kinds is left that a person has to look at: whatever earlier attempts were
\* cut short at is cleared (reconcile_failed_boot_journal, ensure).
BootSettles ==
    []<>(pc = "idle" /\ (manifest \/ branch \/ \E c \in Clones : Stuck(c)))

-----------------------------------------------------------------------------
(* Why they hold: what is so at every step of every attempt, the inductive   *)
(* invariant of the proofs.                                                  *)

(* Where the script is. *)
Creating == {"next", "reconcile", "plan", "mkdir", "bind", "clone", "cloned", "open"}
AtClone == RetireSteps \cup {"reconcile", "plan", "mkdir", "bind", "clone", "cloned"}
Opened == {"handoff", "publish", "state", "transfer", "complete"}
Undoing == {"undo", "clean", "drop", "forget", "unmanifest"}

Early == pc \in Creating \/ task \in {"reconcile", "failed"}
Late == pc \in Opened \/ task = "transfer"
UndoingNow == pc \in Undoing \/ task = "undo"

(* Which step goes with which reason, and with a clone. *)
Steps ==
    /\ pc \in AtClone => cur \in Clones
    /\ pc \in AtClone \ RetireSteps => task = "reconcile"
    /\ pc \in RetireSteps => task # None
    /\ pc \notin AtClone \cup {"transfer", "undo"} => task = None
    /\ task = "failed" => pc \in {"stage", "move", "verify"}
    /\ task = "transfer" => pc \in {"unbind", "unplan", "transfer"}
    /\ task = "undo" => pc \in RetireSteps \cup {"undo"}
    /\ task = "reconcile" => pc \in AtClone

(* What the attempt knows of itself, beside what there is. *)
Attempt ==
    /\ pc = "idle" => attempt = Fresh
    /\ pc = "ledger" => attempt.made = {}
    /\ Early \/ pc = "ledger" => ~attempt.opened /\ ~attempt.published
    /\ Early \/ Late \/ pc \in {"ledger", "close"} => attempt.journaled
    /\ pc = "open" \/ Late => attempt.made = Clones
    /\ Late => attempt.opened
    /\ pc \in {"handoff", "publish"} => ~attempt.published
    /\ pc \in {"state", "transfer", "complete"} \/ task = "transfer" => manifest
    /\ pc # "idle" /\ manifest => attempt.published
    /\ pc = "close" /\ attempt.published => attempt.made = Clones
    /\ ~attempt.journaled => ~attempt.complete
    /\ pc \in Undoing \ {"undo"} /\ attempt.journaled => attempt.made = {}
    /\ pc = "unstate" => attempt.made = {}

(* Where a workspace of the attempt or of the fleet may be open. *)
Live ==
    live =>
      /\ pc = "idle" => manifest
      /\ pc # "idle" => attempt.opened
      /\ pc \in {"idle", "close", "unmanifest"} \/ Late
      /\ pc = "unmanifest" => ~attempt.journaled
      /\ ledger # None
      /\ \A c \in Clones : place[c] = "home" /\ what[c] \in {"whole", "work", "dirty"}

LedgerThere == Early \/ Late => ledger # None

(* The clones the attempt has made and not given back, and the buried ones. *)
Made == \A c \in attempt.made :
    /\ place[c] = "home" /\ what[c] \in {"whole", "work", "dirty"}
    /\ stage[c] = None /\ c \notin tomb
    /\ c \in plan \/ manifest

Buried == \A c \in tomb :
    /\ stage[c] # None /\ place[c] # "home"
    /\ ~orphan => what[c] \notin {"work", "dirty"}

There == \A c \in Clones : place[c] = None <=> what[c] = None

(* What a rollback has kept is known to its journals, whatever becomes of the manifest. *)
Given ==
    UndoingNow /\ attempt.journaled =>
        \A c \in Clones \ attempt.made :
            place[c] # None => c \in plan \/ stage[c] # None \/ (task = "undo" /\ pc # "undo" /\ c = cur)

(* What the script has found of the clone it deals with. *)
Current ==
    pc \in AtClone =>
      /\ task # "transfer" => cur \notin attempt.made
      /\ task = "failed" => what[cur] \in {"empty", "part"}
      /\ pc \in {"plan", "mkdir"} => place[cur] = None
      /\ pc \in {"plan", "mkdir", "bind", "clone", "cloned"} => stage[cur] = None /\ cur \notin tomb
      /\ pc \in {"mkdir", "bind", "clone", "cloned"} => cur \in plan
      /\ pc \in {"bind", "clone", "cloned", "stage", "move"} => place[cur] = "home"
      /\ pc \in {"bind", "clone"} => what[cur] = "empty"
      /\ pc = "cloned" => what[cur] = "part"
      /\ pc \in {"stage", "move"} => cur \notin tomb
      /\ pc \in {"move", "verify", "bury"} => stage[cur] # None
      /\ pc \in {"verify", "bury"} => place[cur] = "staged"
      /\ pc = "bury" /\ ~orphan => what[cur] \notin {"work", "dirty"}
      /\ pc \in {"remove", "removing"} => cur \in tomb
      /\ pc = "removing" => what[cur] = "half"
      /\ pc \in {"exhume", "unstage"} => place[cur] = None
      /\ pc \in {"unbind", "unplan"} /\ task # "transfer" => place[cur] = None /\ stage[cur] = None
      /\ pc \in {"unstage", "unbind", "unplan"} => cur \notin tomb

IInv ==
    /\ TypeOK /\ Steps /\ Attempt /\ Live /\ LedgerThere /\ Made /\ Buried /\ There
    /\ Given /\ Current /\ Owned
=============================================================================
