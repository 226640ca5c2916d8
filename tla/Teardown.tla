------------------------------ MODULE Teardown ------------------------------
(***************************************************************************)
(* How scripts/fleet-down.sh takes one fleet apart: the workspace is closed, *)
(* every reader's clone is retired, every writer's clone is retired and its  *)
(* branch published in the target repository, the fleet's files are archived.*)
(*                                                                           *)
(* The script may be killed at any step, with no cleanup of its own, and is  *)
(* run again.  What it has left on disk is all the next run knows: three     *)
(* intent files per clone, the manifest's fields, where the clones are, the  *)
(* refs and the archive's intent.  Agents and people edit a clone until it   *)
(* is moved, people close the workspace and touch the branches.              *)
(*                                                                           *)
(* One fleet with a mission.  The boot lock admits one teardown at a time;   *)
(* who owns the close is in FleetRuns, receipts of the controllers in        *)
(* Assurance.  A clone's git metadata is safe or the script refuses; here    *)
(* only its HEAD, its pending edits and its place are told apart.            *)
(***************************************************************************)
EXTENDS Naturals, FiniteSets

CONSTANTS
  Writers,    \* instances with a private writer clone
  Readers,    \* instances with a read-only snapshot
  None,       \* no branch, no intent, no value
  MaxCrashes, \* bound: how often the script is killed
  MaxMeddles  \* bound: how often somebody touches a fleet branch

ASSUME TeardownAssumption ==
  /\ Writers \cap Readers = {}
  /\ MaxCrashes \in Nat /\ MaxMeddles \in Nat
  /\ None \notin {"base", "work", "other"}
  /\ None \notin Writers \cup Readers

VARIABLES
  pc, cur,   \* where the running script is, the clone it deals with
  mode,      \* "archive" | "prepare" (--prepare-archive) | "recover"
  absent,    \* workspace_already_absent
  done,      \* the clones it is through with
  place,     \* where a clone is: "home", "staged", "partial" (half deleted), "gone"
  head,      \* HEAD of a writer's clone: "base" or "work"
  dirty,     \* writer clones with uncommitted changes
  stage,     \* clones with a stage intent
  tomb,      \* clones with a retirement tombstone
  intent,    \* candidate in a writer's publication intent
  ref,       \* a writer's branch in the target repository
  manifest,  \* the manifest's fields
  active,    \* is the manifest the active one (or in the archive)?
  state,     \* is the phase's state file beside the manifest (or in the archive)?
  plan,      \* the manifest the archive intent binds
  filed,     \* has the mission archive been created?
  live,      \* does the cmux workspace exist?
  mission,   \* "open", "completing" or "ended"
  crashes, meddles

clones == <<place, stage, tomb>>
repo == <<head, dirty, ref>>
files == <<active, state, plan, filed>>
world == <<live, mission, crashes, meddles>>
script == <<pc, cur, mode, absent, done>>
vars == <<script, clones, intent, repo, manifest, files, world>>

Clones == Writers \cup Readers
Heads == {"base", "work"}
Manifests ==
  [handoff: {"live", "closing", "quiesced"}, quiesced: BOOLEAN,
   final: [Writers -> Heads], published: [Writers -> Heads \cup {None}],
   publication: [Writers -> {"private", "published"}]]
Steps ==
  {"idle", "validate", "closing", "shut", "next", "stage", "move", "check", "intend",
   "probe", "publish", "confirm", "final", "sha", "published", "inspect", "bury", "remove",
   "removing", "unintend", "exhume", "unstage", "handoff", "file", "prepare", "sidecar",
   "marker", "refs"}

Init ==
  /\ pc = "idle" /\ cur = None /\ mode = None /\ absent = FALSE /\ done = {}
  /\ place = [c \in Clones |-> "home"] /\ stage = {} /\ tomb = {}
  /\ intent = [w \in Writers |-> None]
  /\ head = [w \in Writers |-> "base"] /\ dirty = {}
  /\ ref = [w \in Writers |-> None]
  /\ manifest = [handoff |-> "live", quiesced |-> FALSE,
                 final |-> [w \in Writers |-> "base"],
                 published |-> [w \in Writers |-> None],
                 publication |-> [w \in Writers |-> "private"]]
  /\ active = TRUE /\ state = TRUE /\ plan = None /\ filed = FALSE
  /\ live = TRUE /\ mission = "open" /\ crashes = 0 /\ meddles = 0

-----------------------------------------------------------------------------
(* Helpers.                                                                  *)

Published(w) == manifest.publication[w] = "published"
Quiet == manifest.handoff = "quiesced" \/ manifest.quiesced

Goto(p) == pc' = p /\ UNCHANGED <<cur, mode, absent, done>>

\* The process is gone; whatever it knew is lost.
Stop == pc' = "idle" /\ cur' = None /\ mode' = None /\ absent' = FALSE /\ done' = {}

\* Go on, or exit with an error.
GotoIf(ok, p) == IF ok THEN Goto(p) ELSE Stop

\* private_writer_head succeeds: a whole clone without pending changes.
Clean(w) == place[w] \in {"home", "staged"} /\ w \notin dirty

\* set_manifest_value: compare-and-swap on the active manifest.
SetManifest(m) == manifest' = m

-----------------------------------------------------------------------------
(* Admission and validation: nothing is changed, except that a reader's      *)
(* interrupted move is completed.                                            *)

\* The manifest and the phase state are there, and the workspace is, or may be gone.
\* force is --recover-absent.
Start(m, force) ==
  /\ pc = "idle" /\ active /\ state
  /\ IF live THEN ~Quiet ELSE Quiet \/ force \/ manifest.handoff = "closing"
  /\ pc' = "validate" /\ mode' = m /\ absent' = ~live
  /\ UNCHANGED <<cur, done, clones, intent, repo, manifest, files, world>>

Interrupted(r) == absent /\ place[r] = "home" /\ r \in stage /\ r \notin tomb

CompleteMove(r) ==
  /\ pc = "validate" /\ Interrupted(r)
  /\ place' = [place EXCEPT ![r] = "staged"]
  /\ UNCHANGED <<script, stage, tomb, intent, repo, manifest, files, world>>

ReaderValid(r) ==
  IF absent THEN place[r] = "partial" => r \in tomb ELSE place[r] = "home"

PublishedValid(w) ==
  /\ manifest.published[w] = manifest.final[w] /\ ref[w] = manifest.final[w]
  /\ absent /\ place[w] # "home"
  /\ place[w] \in {"staged", "partial"} /\ w \notin tomb =>
       Clean(w) /\ head[w] = manifest.final[w]
  /\ intent[w] \in {None, manifest.final[w]}

\* Mutant: a branch that exists is always refused.
PrivateValidFresh(w) ==
  /\ Clean(w) /\ ref[w] = None
  /\ ~absent => place[w] = "home" /\ intent[w] = None
  /\ intent[w] \in {None, head[w]}
  /\ manifest.final[w] \in {"base", head[w]}
  /\ manifest.published[w] \in {None, head[w]}

\* A branch that exists already is the one an earlier run published.
PrivateValid(w) ==
  /\ Clean(w)
  /\ ~absent => place[w] = "home" /\ intent[w] = None
  /\ intent[w] \in {None, head[w]}
  /\ ref[w] # None => absent /\ ref[w] = head[w] /\ intent[w] # None
  /\ manifest.final[w] \in {"base", head[w]}
  /\ manifest.published[w] \in {None, head[w]}

WriterValid(w) == IF Published(w) THEN PublishedValid(w) ELSE PrivateValid(w)

MissionAllows(m) == mission = (IF m = "prepare" THEN "completing" ELSE "ended")

Valid ==
  /\ \A r \in Readers : ReaderValid(r)
  /\ \A w \in Writers : WriterValid(w)
  /\ MissionAllows(mode)

Validate ==
  /\ pc = "validate" /\ \A r \in Readers : ~Interrupted(r)
  /\ GotoIf(Valid, "closing")
  /\ UNCHANGED <<clones, intent, repo, manifest, files, world>>

-----------------------------------------------------------------------------
(* Closing the workspace.                                                    *)

MarkClosing ==
  /\ pc = "closing" /\ SetManifest([manifest EXCEPT !.handoff = "closing"])
  /\ Goto("shut")
  /\ UNCHANGED <<clones, intent, repo, files, world>>

\* cmux fails on a workspace that is gone, and may report a success that is none.
Shut ==
  /\ pc = "shut"
  /\ \/ absent /\ Goto("next") /\ UNCHANGED live
     \/ ~absent /\ live /\ live' = FALSE /\ Goto("next")
     \/ ~absent /\ Stop /\ UNCHANGED live
  /\ UNCHANGED <<clones, intent, repo, manifest, files, mission, crashes, meddles>>

-----------------------------------------------------------------------------
(* Retiring clones: all readers, then all writers.                           *)

NextClone(c) ==
  /\ pc = "next" /\ c \in Clones \ done /\ (c \in Writers => Readers \subseteq done)
  /\ cur' = c /\ pc' = (IF c \in Writers /\ Published(c) THEN "inspect" ELSE "stage")
  /\ UNCHANGED <<mode, absent, done, clones, intent, repo, manifest, files, world>>

\* stage_clone: intent first.  A staged clone is one that an intent names.
\* A reader that is no longer at home is not staged again.
Stage ==
  /\ pc = "stage"
  /\ IF place[cur] = "home"
       THEN stage' = stage \cup {cur} /\ Goto("move")
       ELSE /\ UNCHANGED stage
            /\ IF cur \in Readers THEN Goto("bury") ELSE GotoIf(cur \in stage, "check")
  /\ UNCHANGED <<place, tomb, intent, repo, manifest, files, world>>

AfterMove(c) == IF c \in Writers THEN "check" ELSE "bury"

Move ==
  /\ pc = "move" /\ place' = [place EXCEPT ![cur] = "staged"] /\ Goto(AfterMove(cur))
  /\ UNCHANGED <<stage, tomb, intent, repo, manifest, files, world>>

\* Mutant: the validation before the close is enough.
CheckSkipped ==
  /\ pc = "check" /\ Goto("intend")
  /\ UNCHANGED <<clones, intent, repo, manifest, files, world>>

\* The writer's clone once more, now that nobody can reach it.
Check ==
  /\ pc = "check" /\ GotoIf(Clean(cur), "intend")
  /\ UNCHANGED <<clones, intent, repo, manifest, files, world>>

Intend ==
  /\ pc = "intend"
  /\ IF intent[cur] \in {None, head[cur]}
       THEN intent' = [intent EXCEPT ![cur] = head[cur]] /\ Goto("probe")
       ELSE UNCHANGED intent /\ Stop
  /\ UNCHANGED <<clones, repo, manifest, files, world>>

Probe ==
  /\ pc = "probe"
  /\ IF ref[cur] = None THEN Goto("publish") ELSE GotoIf(ref[cur] = head[cur], "confirm")
  /\ UNCHANGED <<clones, intent, repo, manifest, files, world>>

\* Mutant: update-ref without the zero id.
PublishOver ==
  /\ pc = "publish" /\ ref' = [ref EXCEPT ![cur] = head[cur]] /\ Goto("confirm")
  /\ UNCHANGED <<clones, intent, head, dirty, manifest, files, world>>

\* publish_isolated_branch: the commits are imported, the branch is created by
\* update-ref from the zero id.
Publish ==
  /\ pc = "publish"
  /\ IF ref[cur] = None
       THEN ref' = [ref EXCEPT ![cur] = head[cur]] /\ Goto("confirm")
       ELSE UNCHANGED ref /\ Stop
  /\ UNCHANGED <<clones, intent, head, dirty, manifest, files, world>>

Confirm ==
  /\ pc = "confirm" /\ GotoIf(ref[cur] = head[cur], "final")
  /\ UNCHANGED <<clones, intent, repo, manifest, files, world>>

RecordFinal ==
  /\ pc = "final" /\ SetManifest([manifest EXCEPT !.final[cur] = head[cur]]) /\ Goto("sha")
  /\ UNCHANGED <<clones, intent, repo, files, world>>

RecordSha ==
  /\ pc = "sha" /\ SetManifest([manifest EXCEPT !.published[cur] = head[cur]]) /\ Goto("published")
  /\ UNCHANGED <<clones, intent, repo, files, world>>

RecordPublished ==
  /\ pc = "published" /\ SetManifest([manifest EXCEPT !.publication[cur] = "published"]) /\ Goto("bury")
  /\ UNCHANGED <<clones, intent, repo, files, world>>

\* A writer that an earlier run published.
Inspect ==
  /\ pc = "inspect"
  /\ GotoIf(/\ ref[cur] = manifest.final[cur]
            /\ place[cur] \in {"staged", "partial"} /\ cur \notin tomb =>
                 Clean(cur) /\ head[cur] = manifest.final[cur],
            "bury")
  /\ UNCHANGED <<clones, intent, repo, manifest, files, world>>

\* The tombstone precedes the deletion and follows it.
Bury ==
  /\ pc = "bury"
  /\ IF place[cur] = "home"
       THEN UNCHANGED tomb /\ Stop
       ELSE /\ tomb' = IF place[cur] = "gone" THEN tomb ELSE tomb \cup {cur}
            /\ Goto("remove")
  /\ UNCHANGED <<place, stage, intent, repo, manifest, files, world>>

\* Mutant: a half-deleted clone is taken for a deleted one.
RemoveWhole ==
  /\ pc = "remove"
  /\ IF cur \in tomb /\ place[cur] = "staged"
       THEN place' = [place EXCEPT ![cur] = "partial"] /\ Goto("removing")
       ELSE UNCHANGED place /\ Goto("unintend")
  /\ UNCHANGED <<stage, tomb, intent, repo, manifest, files, world>>

Remove ==
  /\ pc = "remove"
  /\ IF cur \in tomb /\ place[cur] # "gone"
       THEN place' = [place EXCEPT ![cur] = "partial"] /\ Goto("removing")
       ELSE UNCHANGED place /\ Goto("unintend")
  /\ UNCHANGED <<stage, tomb, intent, repo, manifest, files, world>>

RemoveLast ==
  /\ pc = "removing" /\ place' = [place EXCEPT ![cur] = "gone"] /\ Goto("unintend")
  /\ UNCHANGED <<stage, tomb, intent, repo, manifest, files, world>>

ClearIntent ==
  /\ pc = "unintend"
  /\ IF cur \in Writers /\ intent[cur] # None
       THEN IF intent[cur] = manifest.final[cur]
              THEN intent' = [intent EXCEPT ![cur] = None] /\ Goto("exhume")
              ELSE UNCHANGED intent /\ Stop
       ELSE UNCHANGED intent /\ Goto("exhume")
  /\ UNCHANGED <<clones, repo, manifest, files, world>>

ClearTomb ==
  /\ pc = "exhume" /\ tomb' = tomb \ {cur} /\ Goto("unstage")
  /\ UNCHANGED <<place, stage, intent, repo, manifest, files, world>>

ClearStage ==
  /\ pc = "unstage" /\ stage' = stage \ {cur}
  /\ pc' = "next" /\ done' = done \cup {cur} /\ cur' = None
  /\ UNCHANGED <<mode, absent, place, tomb, intent, repo, manifest, files, world>>

-----------------------------------------------------------------------------
(* The archive.                                                              *)

RecordQuiesced ==
  /\ \/ /\ pc = "next" /\ done = Clones
        /\ SetManifest([manifest EXCEPT !.quiesced = TRUE]) /\ Goto("handoff")
     \/ /\ pc = "handoff" /\ SetManifest([manifest EXCEPT !.handoff = "quiesced"])
        /\ IF mode = "prepare" THEN Stop ELSE Goto("file")
  /\ UNCHANGED <<clones, intent, repo, files, world>>

\* The mission archive is created once; its writer's branch must stand.
FileMission ==
  /\ pc = "file"
  /\ IF filed \/ \A w \in Writers : ref[w] = manifest.final[w]
       THEN filed' = TRUE /\ Goto("prepare")
       ELSE UNCHANGED filed /\ Stop
  /\ UNCHANGED <<clones, intent, repo, manifest, active, state, plan, world>>

\* prepare-archive: the intent binds this manifest, or another run's did.
PrepareArchive ==
  /\ pc = "prepare"
  /\ IF plan \in {None, manifest} THEN plan' = manifest /\ Goto("sidecar") ELSE UNCHANGED plan /\ Stop
  /\ UNCHANGED <<clones, intent, repo, manifest, active, state, filed, world>>

MoveState ==
  /\ pc = "sidecar" /\ state' = FALSE /\ Goto("marker")
  /\ UNCHANGED <<clones, intent, repo, manifest, active, plan, filed, world>>

\* "The active manifest is the archive commit marker."
MoveManifest ==
  /\ pc = "marker" /\ active' = FALSE /\ pc' = "refs" /\ done' = {}
  /\ UNCHANGED <<cur, mode, absent, clones, intent, repo, manifest, state, plan, filed, world>>

\* recover_archived_teardown
Recover ==
  /\ pc = "idle" /\ ~active /\ plan = manifest /\ ~live
  /\ pc' = "refs" /\ mode' = "recover"
  /\ UNCHANGED <<cur, absent, done, clones, intent, repo, manifest, files, world>>

\* The branch of a writer that changed nothing goes, by update-ref -d from its base.
Unneeded(w) == manifest.final[w] = "base"
DropRef(w) ==
  /\ pc = "refs" /\ w \in Writers \ done
  /\ IF Unneeded(w) /\ ref[w] = "base"
       THEN ref' = [ref EXCEPT ![w] = None] /\ done' = done \cup {w} /\ UNCHANGED <<pc, cur, mode, absent>>
       ELSE /\ UNCHANGED ref
            /\ IF \/ Unneeded(w) /\ mode = "recover" /\ ref[w] = None
                  \/ ~Unneeded(w) /\ (mode = "recover" => ref[w] = manifest.final[w])
                 THEN done' = done \cup {w} /\ UNCHANGED <<pc, cur, mode, absent>>
                 ELSE Stop
  /\ UNCHANGED <<clones, intent, head, dirty, manifest, files, world>>

ClearArchive ==
  /\ pc = "refs" /\ Writers \subseteq done /\ plan' = None /\ Stop
  /\ UNCHANGED <<clones, intent, repo, manifest, active, state, filed, world>>

-----------------------------------------------------------------------------
(* Everybody else.                                                           *)

Crash ==
  /\ pc # "idle" /\ crashes < MaxCrashes /\ crashes' = crashes + 1 /\ Stop
  /\ UNCHANGED <<clones, intent, repo, manifest, files, live, mission, meddles>>

\* The agent, or a person, works in the clone while it is where they find it.
Edit(w) ==
  /\ place[w] = "home" /\ w \notin dirty /\ dirty' = dirty \cup {w}
  /\ UNCHANGED <<script, clones, intent, head, ref, manifest, files, world>>

\* "Commit the work in the isolated writer clone or discard it, then retry."
Tidy(w) ==
  /\ w \in dirty /\ place[w] \in {"home", "staged"} /\ dirty' = dirty \ {w}
  /\ head' \in {head, [head EXCEPT ![w] = "work"]}
  /\ UNCHANGED <<script, clones, intent, ref, manifest, files, world>>

CloseWorkspace ==
  /\ live /\ live' = FALSE
  /\ UNCHANGED <<script, clones, intent, repo, manifest, files, mission, crashes, meddles>>

\* Somebody creates, moves or deletes a fleet branch.
Meddle(w) ==
  /\ meddles < MaxMeddles /\ meddles' = meddles + 1
  /\ \E v \in {None, "base", "other"} \ {ref[w]} : ref' = [ref EXCEPT ![w] = v]
  /\ UNCHANGED <<script, clones, intent, head, dirty, manifest, files, live, mission, crashes>>

EndMission ==
  /\ \/ mission = "open" /\ mission' \in {"completing", "ended"}
     \/ mission = "completing" /\ mission' = "ended"
  /\ UNCHANGED <<script, clones, intent, repo, manifest, files, live, crashes, meddles>>

-----------------------------------------------------------------------------
Admit == \E m \in {"archive", "prepare"}, force \in BOOLEAN : Start(m, force)
Retire ==
  \/ \E c \in Clones : NextClone(c)
  \/ Stage \/ Move \/ Check \/ Intend \/ Probe \/ Publish \/ Confirm
  \/ RecordFinal \/ RecordSha \/ RecordPublished \/ Inspect
  \/ Bury \/ Remove \/ RemoveLast \/ ClearIntent \/ ClearTomb \/ ClearStage
Archive ==
  \/ RecordQuiesced \/ FileMission \/ PrepareArchive \/ MoveState \/ MoveManifest
  \/ \E w \in Writers : DropRef(w)
  \/ ClearArchive
Run ==
  \/ \E r \in Readers : CompleteMove(r)
  \/ Validate \/ MarkClosing \/ Shut \/ Retire \/ Archive
Others ==
  \/ Crash \/ CloseWorkspace \/ EndMission
  \/ \E w \in Writers : Edit(w) \/ Tidy(w) \/ Meddle(w)

Next == Admit \/ Recover \/ Run \/ Others

Spec == Init /\ [][Next]_vars

\* Somebody asks for the teardown again, also when the workspace is gone, and tidies what
\* it refused; the script runs on, cmux closes in the end, and in the end nobody edits
\* the clones any more.
FairSpec ==
  /\ Spec
  /\ WF_vars(Run) /\ SF_vars(Start("archive", TRUE)) /\ WF_vars(Recover)
  /\ SF_vars(Shut /\ pc' = "next")
  /\ \A w \in Writers : WF_vars(Tidy(w)) /\ <>[][~Edit(w)]_vars

-----------------------------------------------------------------------------
(* Properties.                                                               *)

\* Every variable stays within its domain.
TypeOK ==
  /\ pc \in Steps /\ cur \in Clones \cup {None}
  /\ mode \in {None, "archive", "prepare", "recover"} /\ absent \in BOOLEAN
  /\ done \in SUBSET Clones
  /\ place \in [Clones -> {"home", "staged", "partial", "gone"}]
  /\ stage \in SUBSET Clones /\ tomb \in SUBSET Clones
  /\ intent \in [Writers -> Heads \cup {None}]
  /\ head \in [Writers -> Heads] /\ dirty \in SUBSET Writers
  /\ ref \in [Writers -> Heads \cup {"other", None}]
  /\ manifest \in Manifests /\ plan \in Manifests \cup {None}
  /\ active \in BOOLEAN /\ state \in BOOLEAN /\ filed \in BOOLEAN
  /\ live \in BOOLEAN /\ mission \in {"open", "completing", "ended"}
  /\ crashes \in 0..MaxCrashes /\ meddles \in 0..MaxMeddles

\* No work is deleted: a writer's clone that is being deleted or is gone had no pending
\* change, and the manifest names its last commit as the published one, whenever the
\* agent committed, the workspace closed or the script died.
WorkKept ==
  \A w \in Writers : place[w] \in {"partial", "gone"} =>
    /\ w \notin dirty /\ Published(w)
    /\ manifest.final[w] = head[w] /\ manifest.published[w] = head[w]

\* The teardown creates a branch where there was none, at the retired clone's commit,
\* which the intent names; it deletes one that still is at its base, and that only once
\* the manifest is in the archive.  No other branch of anybody is ever touched by it.
Creates(w) ==
  /\ ref[w] = None /\ ref'[w] = head[w]
  /\ intent[w] = head[w] /\ place[w] = "staged" /\ w \notin dirty
Drops(w) == ref[w] = "base" /\ ref'[w] = None /\ manifest.final[w] = "base" /\ ~active
RefsRespected ==
  [][\A w \in Writers : ref'[w] # ref[w] => Creates(w) \/ Drops(w) \/ meddles' # meddles]_vars

\* What is archived is finished: README: "archives only after the published SHA and
\* quiescence marker are durable".  Every clone and every intent is gone, the mission
\* has ended and the workspace is closed, through any number of interrupted runs.
ArchiveComplete ==
  ~active =>
    /\ ~live /\ mission = "ended" /\ filed /\ manifest.quiesced
    /\ \A c \in Clones : place[c] = "gone" /\ c \notin stage \cup tomb
    /\ \A w \in Writers : Published(w) /\ intent[w] = None

Settled == ~active /\ plan = None

\* A teardown was killed between the move of the state and that of the manifest:
\* from then on probe-active reports missing state and every teardown exits 2.
Stranded == active /\ ~state /\ pc = "idle"

\* Wherever runs are killed, the retried teardown of an ended mission completes, unless
\* somebody touched a branch, or the state file alone has reached the archive.
TeardownCompletes == mission = "ended" ~> Settled \/ Stranded \/ meddles # 0

\* README: "A crash resumes that exact intent; drift preserves the evidence and fails
\* closed": a crash alone never keeps the fleet from being torn down.
CrashResumes == mission = "ended" ~> Settled \/ meddles # 0
=============================================================================
