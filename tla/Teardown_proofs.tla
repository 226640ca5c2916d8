--------------------------- MODULE Teardown_proofs ---------------------------
(***************************************************************************)
(* Proofs about Teardown, for any writers, readers, number of crashes and   *)
(* number of touched branches.                                             *)
(***************************************************************************)
EXTENDS Teardown, TLAPS

USE TeardownAssumption
USE DEF vars, clones, repo, files, world, script, Clones

(* Where the script is. *)
Staging == {"stage", "move"}
Verified == {"intend", "probe", "publish", "confirm", "final", "sha", "published"}
Publishing == {"check"} \cup Verified
Burying == {"bury", "remove", "removing", "unintend", "exhume", "unstage"}
AtClone == Staging \cup Publishing \cup {"inspect"} \cup Burying
Before == {"idle", "validate", "closing", "shut"}
Late == {"handoff", "file", "prepare", "sidecar", "marker", "refs"}

Retired(c) ==
    /\ place[c] = "gone" /\ c \notin stage \cup tomb
    /\ c \in Writers => Published(c) /\ intent[c] = None

(* What the manifest calls published is out of everybody's reach, and clean. *)
PublishedFacts == \A w \in Writers : Published(w) =>
    /\ w \notin dirty /\ place[w] # "home"
    /\ manifest.final[w] = head[w] /\ manifest.published[w] = head[w]

(* Only a published writer's clone is buried. *)
Graves ==
    /\ \A c \in tomb : place[c] # "home"
    /\ \A w \in Writers : w \in tomb \/ place[w] \in {"partial", "gone"} => Published(w)

(* What the script has found of the clone it deals with stays true. *)
CurrentClone == pc \in AtClone =>
    /\ cur \in Clones \ done
    /\ pc = "move" => place[cur] = "home"
    /\ pc \in Burying \ {"bury"} => place[cur] # "home"
    /\ pc = "remove" => place[cur] = "gone" \/ cur \in tomb
    /\ pc = "removing" => place[cur] = "partial" /\ cur \in tomb
    /\ pc \in {"unintend", "exhume", "unstage"} => place[cur] = "gone"
    /\ pc = "unstage" => cur \notin tomb

CurrentWriter == pc \in AtClone =>
    /\ pc \in Publishing \cup {"inspect"} => cur \in Writers
    /\ cur \in Writers => (Published(cur) <=> pc \in {"inspect"} \cup Burying)
    /\ pc \in Publishing => place[cur] = "staged"
    /\ pc \in Verified => cur \notin dirty
    /\ pc \in Verified \ {"intend"} => intent[cur] = head[cur]
    /\ pc \in {"sha", "published"} => manifest.final[cur] = head[cur]
    /\ pc = "published" => manifest.published[cur] = head[cur]
    /\ pc \in {"exhume", "unstage"} /\ cur \in Writers => intent[cur] = None

(* What the script is through with stays retired; then so is everything. *)
Through ==
    /\ pc \in Before => done = {}
    /\ pc \in AtClone \cup {"next"} => \A c \in done : Retired(c)
    /\ pc \in Late \/ ~active => \A c \in Clones : Retired(c)

(* The workspace is closed and the mission over before anything is archived. *)
Closed ==
    /\ absent \/ pc \notin Before \/ ~active => ~live
    /\ pc = "validate" => mode \in {"archive", "prepare"}
    /\ pc \notin {"idle", "refs"} => active /\ mode \in {"archive", "prepare"}
    /\ pc = "refs" => ~active
    /\ pc \notin {"idle", "validate", "refs"} /\ mode = "archive" => mission = "ended"
    /\ pc \in Late \ {"handoff", "refs"} => mode = "archive"
    /\ pc \in Late \/ ~active => manifest.quiesced
    /\ pc \in {"prepare", "sidecar", "marker"} \/ ~active => filed
    /\ ~active => mission = "ended"

IInv ==
    /\ TypeOK /\ PublishedFacts /\ Graves /\ CurrentClone /\ CurrentWriter
    /\ Through /\ Closed

USE DEF Steps, Staging, Verified, Publishing, Burying, AtClone, Before, Late

(* The type invariant in two halves: what the process knows, what is on disk. *)
ScriptTyped ==
    /\ pc \in Steps /\ cur \in Clones \cup {None}
    /\ mode \in {None, "archive", "prepare", "recover"} /\ absent \in BOOLEAN
    /\ done \in SUBSET Clones
DiskTyped ==
    /\ place \in [Clones -> {"home", "staged", "partial", "gone"}]
    /\ stage \in SUBSET Clones /\ tomb \in SUBSET Clones
    /\ intent \in [Writers -> Heads \cup {None}]
    /\ head \in [Writers -> Heads] /\ dirty \in SUBSET Writers
    /\ ref \in [Writers -> Heads \cup {"other", None}]
    /\ manifest \in Manifests /\ plan \in Manifests \cup {None}
    /\ active \in BOOLEAN /\ state \in BOOLEAN /\ filed \in BOOLEAN
    /\ live \in BOOLEAN /\ mission \in {"open", "completing", "ended"}
    /\ crashes \in 0..MaxCrashes /\ meddles \in 0..MaxMeddles

\* An exit leaves the script idle.
LEMMA StopTyped == ASSUME Stop PROVE ScriptTyped' BY DEF Stop, ScriptTyped

-----------------------------------------------------------------------------
(* One lemma per action: it keeps each part of the invariant.                *)

LEMMA StartKeeps ==
    ASSUME IInv, NEW m \in {"archive", "prepare"}, NEW force \in BOOLEAN, Start(m, force) PROVE IInv'
<1>1. TypeOK' BY DEF IInv, TypeOK, Start, Quiet
<1>2. PublishedFacts' BY DEF IInv, TypeOK, PublishedFacts, Published, Start, Quiet
<1>3. Graves' BY DEF IInv, TypeOK, Graves, Published, Start, Quiet
<1>4. CurrentClone' BY DEF IInv, TypeOK, CurrentClone, Start, Quiet
<1>5. CurrentWriter' BY DEF IInv, TypeOK, CurrentWriter, Published, Start, Quiet
<1>6. Through' BY DEF IInv, TypeOK, Through, Retired, Published, Start, Quiet
<1>7. Closed' BY DEF IInv, TypeOK, Closed, Start, Quiet
<1> QED BY <1>1, <1>2, <1>3, <1>4, <1>5, <1>6, <1>7 DEF IInv

LEMMA CompleteMoveKeeps == ASSUME IInv, NEW r \in Readers, CompleteMove(r) PROVE IInv'
<1>1. TypeOK' BY DEF IInv, TypeOK, CompleteMove, Interrupted
<1>2. PublishedFacts' BY DEF IInv, TypeOK, PublishedFacts, Published, CompleteMove, Interrupted
<1>3. Graves' BY DEF IInv, TypeOK, Graves, Published, CompleteMove, Interrupted
<1>4. CurrentClone' BY DEF IInv, TypeOK, CurrentClone, CompleteMove, Interrupted
<1>5. CurrentWriter' BY DEF IInv, TypeOK, CurrentWriter, Published, CompleteMove, Interrupted
<1>6. Through' BY DEF IInv, TypeOK, Through, Retired, Published, CompleteMove, Interrupted
<1>7. Closed' BY DEF IInv, TypeOK, Closed, CompleteMove, Interrupted
<1> QED BY <1>1, <1>2, <1>3, <1>4, <1>5, <1>6, <1>7 DEF IInv

LEMMA ValidateKeeps == ASSUME IInv, Validate PROVE IInv'
<1>1. TypeOK'
    <2>1. ScriptTyped'
        BY StopTyped DEF IInv, TypeOK, ScriptTyped, Validate, Interrupted, GotoIf, Valid, Goto,
            ReaderValid, WriterValid, MissionAllows, Published, PublishedValid, PrivateValid,
            Clean
    <2>2. DiskTyped'
        BY DEF IInv, TypeOK, DiskTyped, Heads, Validate, Interrupted, GotoIf, Valid, Goto,
            ReaderValid, WriterValid, MissionAllows, Published, PublishedValid, PrivateValid,
            Clean
    <2> QED BY <2>1, <2>2 DEF ScriptTyped, DiskTyped, TypeOK
<1>2. PublishedFacts'
    BY DEF IInv, TypeOK, PublishedFacts, Published, Validate, Interrupted, GotoIf, Valid, Goto,
        Stop, ReaderValid, WriterValid, MissionAllows, PublishedValid, PrivateValid, Clean
<1>3. Graves'
    BY DEF IInv, TypeOK, Graves, Published, Validate, Interrupted, GotoIf, Valid, Goto, Stop,
        ReaderValid, WriterValid, MissionAllows, PublishedValid, PrivateValid, Clean
<1>4. CurrentClone'
    BY DEF IInv, TypeOK, CurrentClone, Validate, Interrupted, GotoIf, Valid, Goto, Stop,
        ReaderValid, WriterValid, MissionAllows, Published, PublishedValid, PrivateValid, Clean
<1>5. CurrentWriter'
    BY DEF IInv, TypeOK, CurrentWriter, Published, Validate, Interrupted, GotoIf, Valid, Goto,
        Stop, ReaderValid, WriterValid, MissionAllows, PublishedValid, PrivateValid, Clean
<1>6. Through'
    BY DEF IInv, TypeOK, Through, Retired, Published, Validate, Interrupted, GotoIf, Valid,
        Goto, Stop, ReaderValid, WriterValid, MissionAllows, PublishedValid, PrivateValid, Clean
<1>7. Closed'
    BY DEF IInv, TypeOK, Closed, Validate, Interrupted, GotoIf, Valid, Goto, Stop, ReaderValid,
        WriterValid, MissionAllows, Published, PublishedValid, PrivateValid, Clean
<1> QED BY <1>1, <1>2, <1>3, <1>4, <1>5, <1>6, <1>7 DEF IInv

LEMMA MarkClosingKeeps == ASSUME IInv, MarkClosing PROVE IInv'
<1>1. TypeOK' BY DEF IInv, TypeOK, MarkClosing, SetManifest, Goto, Manifests, Heads
<1>2. PublishedFacts'
    BY DEF IInv, TypeOK, PublishedFacts, Published, MarkClosing, SetManifest, Goto
<1>3. Graves' BY DEF IInv, TypeOK, Graves, Published, MarkClosing, SetManifest, Goto
<1>4. CurrentClone' BY DEF IInv, TypeOK, CurrentClone, MarkClosing, SetManifest, Goto
<1>5. CurrentWriter' BY DEF IInv, TypeOK, CurrentWriter, Published, MarkClosing, SetManifest, Goto
<1>6. Through' BY DEF IInv, TypeOK, Through, Retired, Published, MarkClosing, SetManifest, Goto
<1>7. Closed' BY DEF IInv, TypeOK, Closed, MarkClosing, SetManifest, Goto
<1> QED BY <1>1, <1>2, <1>3, <1>4, <1>5, <1>6, <1>7 DEF IInv

LEMMA ShutKeeps == ASSUME IInv, Shut PROVE IInv'
<1>1. TypeOK'
    <2>1. ScriptTyped' BY StopTyped DEF IInv, TypeOK, ScriptTyped, Shut, Goto
    <2>2. DiskTyped' BY DEF IInv, TypeOK, DiskTyped, Heads, Shut, Goto
    <2> QED BY <2>1, <2>2 DEF ScriptTyped, DiskTyped, TypeOK
<1>2. PublishedFacts' BY DEF IInv, TypeOK, PublishedFacts, Published, Shut, Goto, Stop
<1>3. Graves' BY DEF IInv, TypeOK, Graves, Published, Shut, Goto, Stop
<1>4. CurrentClone' BY DEF IInv, TypeOK, CurrentClone, Shut, Goto, Stop
<1>5. CurrentWriter' BY DEF IInv, TypeOK, CurrentWriter, Published, Shut, Goto, Stop
<1>6. Through' BY DEF IInv, TypeOK, Through, Retired, Published, Shut, Goto, Stop
<1>7. Closed' BY DEF IInv, TypeOK, Closed, Shut, Goto, Stop
<1> QED BY <1>1, <1>2, <1>3, <1>4, <1>5, <1>6, <1>7 DEF IInv

LEMMA NextCloneKeeps == ASSUME IInv, NEW c \in Clones, NextClone(c) PROVE IInv'
<1>1. TypeOK' BY DEF IInv, TypeOK, NextClone, Published
<1>2. PublishedFacts' BY DEF IInv, TypeOK, PublishedFacts, Published, NextClone
<1>3. Graves' BY DEF IInv, TypeOK, Graves, Published, NextClone
<1>4. CurrentClone' BY DEF IInv, TypeOK, CurrentClone, NextClone, Published
<1>5. CurrentWriter' BY DEF IInv, TypeOK, CurrentWriter, Published, NextClone
<1>6. Through' BY DEF IInv, TypeOK, Through, Retired, Published, NextClone
<1>7. Closed' BY DEF IInv, TypeOK, Closed, NextClone, Published
<1> QED BY <1>1, <1>2, <1>3, <1>4, <1>5, <1>6, <1>7 DEF IInv

LEMMA StageKeeps == ASSUME IInv, Stage PROVE IInv'
<1>1. TypeOK'
    <2>1. ScriptTyped'
        BY StopTyped DEF IInv, TypeOK, ScriptTyped, CurrentClone, Stage, Goto, GotoIf
    <2>2. DiskTyped' BY DEF IInv, TypeOK, DiskTyped, Heads, CurrentClone, Stage, Goto, GotoIf
    <2> QED BY <2>1, <2>2 DEF ScriptTyped, DiskTyped, TypeOK
<1>2. PublishedFacts' BY DEF IInv, TypeOK, PublishedFacts, Published, Stage, Goto, GotoIf, Stop
<1>3. Graves' BY DEF IInv, TypeOK, Graves, Published, Stage, Goto, GotoIf, Stop
<1>4. CurrentClone' BY DEF IInv, TypeOK, CurrentClone, Stage, Goto, GotoIf, Stop
<1>5. CurrentWriter'
    BY DEF IInv, TypeOK, CurrentWriter, Published, PublishedFacts, Graves, CurrentClone,
        Manifests, Heads, Stage, Goto, GotoIf, Stop
<1>6. Through' BY DEF IInv, TypeOK, Through, Retired, Published, Stage, Goto, GotoIf, Stop
<1>7. Closed' BY DEF IInv, TypeOK, Closed, Stage, Goto, GotoIf, Stop
<1> QED BY <1>1, <1>2, <1>3, <1>4, <1>5, <1>6, <1>7 DEF IInv

LEMMA MoveKeeps == ASSUME IInv, Move PROVE IInv'
<1>1. TypeOK'
    <2>1. ScriptTyped' BY StopTyped DEF IInv, TypeOK, ScriptTyped, Move, Goto, AfterMove
    <2>2. DiskTyped' BY DEF IInv, TypeOK, DiskTyped, Heads, Move, Goto, AfterMove
    <2> QED BY <2>1, <2>2 DEF ScriptTyped, DiskTyped, TypeOK
<1>2. PublishedFacts' BY DEF IInv, TypeOK, PublishedFacts, Published, Move, Goto, AfterMove
<1>3. Graves' BY DEF IInv, TypeOK, Graves, Published, Move, Goto, AfterMove
<1>4. CurrentClone' BY DEF IInv, TypeOK, CurrentClone, Move, Goto, AfterMove
<1>5. CurrentWriter' BY DEF IInv, TypeOK, CurrentWriter, Published, Move, Goto, AfterMove
<1>6. Through'
    BY DEF IInv, TypeOK, Through, Retired, Published, CurrentClone, Move, Goto, AfterMove
<1>7. Closed' BY DEF IInv, TypeOK, Closed, Move, Goto, AfterMove
<1> QED BY <1>1, <1>2, <1>3, <1>4, <1>5, <1>6, <1>7 DEF IInv

LEMMA CheckKeeps == ASSUME IInv, Check PROVE IInv'
<1>1. TypeOK'
    <2>1. ScriptTyped' BY StopTyped DEF IInv, TypeOK, ScriptTyped, Check, GotoIf, Clean, Goto
    <2>2. DiskTyped' BY DEF IInv, TypeOK, DiskTyped, Heads, Check, GotoIf, Clean, Goto
    <2> QED BY <2>1, <2>2 DEF ScriptTyped, DiskTyped, TypeOK
<1>2. PublishedFacts'
    BY DEF IInv, TypeOK, PublishedFacts, Published, Check, GotoIf, Clean, Goto, Stop
<1>3. Graves' BY DEF IInv, TypeOK, Graves, Published, Check, GotoIf, Clean, Goto, Stop
<1>4. CurrentClone' BY DEF IInv, TypeOK, CurrentClone, Check, GotoIf, Clean, Goto, Stop
<1>5. CurrentWriter'
    BY DEF IInv, TypeOK, CurrentWriter, Published, Check, GotoIf, Clean, Goto, Stop
<1>6. Through' BY DEF IInv, TypeOK, Through, Retired, Published, Check, GotoIf, Clean, Goto, Stop
<1>7. Closed' BY DEF IInv, TypeOK, Closed, Check, GotoIf, Clean, Goto, Stop
<1> QED BY <1>1, <1>2, <1>3, <1>4, <1>5, <1>6, <1>7 DEF IInv

LEMMA IntendKeeps == ASSUME IInv, Intend PROVE IInv'
<1>1. TypeOK'
    <2>1. ScriptTyped' BY StopTyped DEF IInv, TypeOK, ScriptTyped, Intend, Goto
    <2>2. DiskTyped' BY DEF IInv, TypeOK, DiskTyped, Heads, Intend, Goto
    <2> QED BY <2>1, <2>2 DEF ScriptTyped, DiskTyped, TypeOK
<1>2. PublishedFacts' BY DEF IInv, TypeOK, PublishedFacts, Published, Intend, Goto, Stop
<1>3. Graves' BY DEF IInv, TypeOK, Graves, Published, Intend, Goto, Stop
<1>4. CurrentClone' BY DEF IInv, TypeOK, CurrentClone, Intend, Goto, Stop
<1>5. CurrentWriter' BY DEF IInv, TypeOK, CurrentWriter, Published, Intend, Goto, Stop
<1>6. Through' BY DEF IInv, TypeOK, Through, Retired, Published, CurrentWriter, Intend, Goto, Stop
<1>7. Closed' BY DEF IInv, TypeOK, Closed, Intend, Goto, Stop
<1> QED BY <1>1, <1>2, <1>3, <1>4, <1>5, <1>6, <1>7 DEF IInv

LEMMA ProbeKeeps == ASSUME IInv, Probe PROVE IInv'
<1>1. TypeOK'
    <2>1. ScriptTyped' BY StopTyped DEF IInv, TypeOK, ScriptTyped, Probe, Goto, GotoIf
    <2>2. DiskTyped' BY DEF IInv, TypeOK, DiskTyped, Heads, Probe, Goto, GotoIf
    <2> QED BY <2>1, <2>2 DEF ScriptTyped, DiskTyped, TypeOK
<1>2. PublishedFacts' BY DEF IInv, TypeOK, PublishedFacts, Published, Probe, Goto, GotoIf, Stop
<1>3. Graves' BY DEF IInv, TypeOK, Graves, Published, Probe, Goto, GotoIf, Stop
<1>4. CurrentClone' BY DEF IInv, TypeOK, CurrentClone, Probe, Goto, GotoIf, Stop
<1>5. CurrentWriter' BY DEF IInv, TypeOK, CurrentWriter, Published, Probe, Goto, GotoIf, Stop
<1>6. Through' BY DEF IInv, TypeOK, Through, Retired, Published, Probe, Goto, GotoIf, Stop
<1>7. Closed' BY DEF IInv, TypeOK, Closed, Probe, Goto, GotoIf, Stop
<1> QED BY <1>1, <1>2, <1>3, <1>4, <1>5, <1>6, <1>7 DEF IInv

LEMMA PublishKeeps == ASSUME IInv, Publish PROVE IInv'
<1>1. TypeOK'
    <2>1. ScriptTyped' BY StopTyped DEF IInv, TypeOK, ScriptTyped, Publish, Goto
    <2>2. DiskTyped' BY DEF IInv, TypeOK, DiskTyped, Heads, Publish, Goto
    <2> QED BY <2>1, <2>2 DEF ScriptTyped, DiskTyped, TypeOK
<1>2. PublishedFacts' BY DEF IInv, TypeOK, PublishedFacts, Published, Publish, Goto, Stop
<1>3. Graves' BY DEF IInv, TypeOK, Graves, Published, Publish, Goto, Stop
<1>4. CurrentClone' BY DEF IInv, TypeOK, CurrentClone, Publish, Goto, Stop
<1>5. CurrentWriter' BY DEF IInv, TypeOK, CurrentWriter, Published, Publish, Goto, Stop
<1>6. Through' BY DEF IInv, TypeOK, Through, Retired, Published, Publish, Goto, Stop
<1>7. Closed' BY DEF IInv, TypeOK, Closed, Publish, Goto, Stop
<1> QED BY <1>1, <1>2, <1>3, <1>4, <1>5, <1>6, <1>7 DEF IInv

LEMMA ConfirmKeeps == ASSUME IInv, Confirm PROVE IInv'
<1>1. TypeOK'
    <2>1. ScriptTyped' BY StopTyped DEF IInv, TypeOK, ScriptTyped, Confirm, GotoIf, Goto
    <2>2. DiskTyped' BY DEF IInv, TypeOK, DiskTyped, Heads, Confirm, GotoIf, Goto
    <2> QED BY <2>1, <2>2 DEF ScriptTyped, DiskTyped, TypeOK
<1>2. PublishedFacts' BY DEF IInv, TypeOK, PublishedFacts, Published, Confirm, GotoIf, Goto, Stop
<1>3. Graves' BY DEF IInv, TypeOK, Graves, Published, Confirm, GotoIf, Goto, Stop
<1>4. CurrentClone' BY DEF IInv, TypeOK, CurrentClone, Confirm, GotoIf, Goto, Stop
<1>5. CurrentWriter' BY DEF IInv, TypeOK, CurrentWriter, Published, Confirm, GotoIf, Goto, Stop
<1>6. Through' BY DEF IInv, TypeOK, Through, Retired, Published, Confirm, GotoIf, Goto, Stop
<1>7. Closed' BY DEF IInv, TypeOK, Closed, Confirm, GotoIf, Goto, Stop
<1> QED BY <1>1, <1>2, <1>3, <1>4, <1>5, <1>6, <1>7 DEF IInv

LEMMA RecordFinalKeeps == ASSUME IInv, RecordFinal PROVE IInv'
<1>1. TypeOK' BY DEF IInv, TypeOK, RecordFinal, SetManifest, Goto, Manifests, Heads
<1>2. PublishedFacts'
    BY DEF IInv, TypeOK, PublishedFacts, Published, RecordFinal, SetManifest, Goto
<1>3. Graves' BY DEF IInv, TypeOK, Graves, Published, RecordFinal, SetManifest, Goto
<1>4. CurrentClone' BY DEF IInv, TypeOK, CurrentClone, RecordFinal, SetManifest, Goto
<1>5. CurrentWriter'
    BY DEF IInv, TypeOK, CurrentWriter, Published, Manifests, Heads, RecordFinal, SetManifest,
        Goto
<1>6. Through' BY DEF IInv, TypeOK, Through, Retired, Published, RecordFinal, SetManifest, Goto
<1>7. Closed' BY DEF IInv, TypeOK, Closed, RecordFinal, SetManifest, Goto
<1> QED BY <1>1, <1>2, <1>3, <1>4, <1>5, <1>6, <1>7 DEF IInv

LEMMA RecordShaKeeps == ASSUME IInv, RecordSha PROVE IInv'
<1>1. TypeOK' BY DEF IInv, TypeOK, RecordSha, SetManifest, Goto, Manifests, Heads
<1>2. PublishedFacts' BY DEF IInv, TypeOK, PublishedFacts, Published, RecordSha, SetManifest, Goto
<1>3. Graves' BY DEF IInv, TypeOK, Graves, Published, RecordSha, SetManifest, Goto
<1>4. CurrentClone' BY DEF IInv, TypeOK, CurrentClone, RecordSha, SetManifest, Goto
<1>5. CurrentWriter'
    BY DEF IInv, TypeOK, CurrentWriter, Published, Manifests, Heads, RecordSha, SetManifest,
        Goto
<1>6. Through' BY DEF IInv, TypeOK, Through, Retired, Published, RecordSha, SetManifest, Goto
<1>7. Closed' BY DEF IInv, TypeOK, Closed, RecordSha, SetManifest, Goto
<1> QED BY <1>1, <1>2, <1>3, <1>4, <1>5, <1>6, <1>7 DEF IInv

LEMMA RecordPublishedKeeps == ASSUME IInv, RecordPublished PROVE IInv'
<1>1. TypeOK' BY DEF IInv, TypeOK, RecordPublished, SetManifest, Goto, Manifests, Heads
<1>2. PublishedFacts'
    BY DEF IInv, TypeOK, PublishedFacts, Published, CurrentWriter, RecordPublished, SetManifest,
        Goto
<1>3. Graves' BY DEF IInv, TypeOK, Graves, Published, RecordPublished, SetManifest, Goto
<1>4. CurrentClone' BY DEF IInv, TypeOK, CurrentClone, RecordPublished, SetManifest, Goto
<1>5. CurrentWriter'
    BY DEF IInv, TypeOK, CurrentWriter, Published, Manifests, Heads, RecordPublished,
        SetManifest, Goto
<1>6. Through'
    BY DEF IInv, TypeOK, Through, Retired, Published, RecordPublished, SetManifest, Goto
<1>7. Closed' BY DEF IInv, TypeOK, Closed, RecordPublished, SetManifest, Goto
<1> QED BY <1>1, <1>2, <1>3, <1>4, <1>5, <1>6, <1>7 DEF IInv

LEMMA InspectKeeps == ASSUME IInv, Inspect PROVE IInv'
<1>1. TypeOK'
    <2>1. ScriptTyped' BY StopTyped DEF IInv, TypeOK, ScriptTyped, Inspect, GotoIf, Clean, Goto
    <2>2. DiskTyped' BY DEF IInv, TypeOK, DiskTyped, Heads, Inspect, GotoIf, Clean, Goto
    <2> QED BY <2>1, <2>2 DEF ScriptTyped, DiskTyped, TypeOK
<1>2. PublishedFacts'
    BY DEF IInv, TypeOK, PublishedFacts, Published, Inspect, GotoIf, Clean, Goto, Stop
<1>3. Graves' BY DEF IInv, TypeOK, Graves, Published, Inspect, GotoIf, Clean, Goto, Stop
<1>4. CurrentClone' BY DEF IInv, TypeOK, CurrentClone, Inspect, GotoIf, Clean, Goto, Stop
<1>5. CurrentWriter'
    BY DEF IInv, TypeOK, CurrentWriter, Published, Inspect, GotoIf, Clean, Goto, Stop
<1>6. Through'
    BY DEF IInv, TypeOK, Through, Retired, Published, Inspect, GotoIf, Clean, Goto, Stop
<1>7. Closed' BY DEF IInv, TypeOK, Closed, Inspect, GotoIf, Clean, Goto, Stop
<1> QED BY <1>1, <1>2, <1>3, <1>4, <1>5, <1>6, <1>7 DEF IInv

LEMMA BuryKeeps == ASSUME IInv, Bury PROVE IInv'
<1>1. TypeOK'
    <2>1. ScriptTyped' BY StopTyped DEF IInv, TypeOK, ScriptTyped, CurrentClone, Bury, Goto
    <2>2. DiskTyped' BY DEF IInv, TypeOK, DiskTyped, Heads, CurrentClone, Bury, Goto
    <2> QED BY <2>1, <2>2 DEF ScriptTyped, DiskTyped, TypeOK
<1>2. PublishedFacts' BY DEF IInv, TypeOK, PublishedFacts, Published, Bury, Stop, Goto
<1>3. Graves' BY DEF IInv, TypeOK, Graves, Published, CurrentWriter, Bury, Stop, Goto
<1>4. CurrentClone' BY DEF IInv, TypeOK, CurrentClone, Bury, Stop, Goto
<1>5. CurrentWriter' BY DEF IInv, TypeOK, CurrentWriter, Published, Bury, Stop, Goto
<1>6. Through' BY DEF IInv, TypeOK, Through, Retired, Published, Bury, Stop, Goto
<1>7. Closed' BY DEF IInv, TypeOK, Closed, Bury, Stop, Goto
<1> QED BY <1>1, <1>2, <1>3, <1>4, <1>5, <1>6, <1>7 DEF IInv

LEMMA RemoveKeeps == ASSUME IInv, Remove PROVE IInv'
<1>1. TypeOK' BY DEF IInv, TypeOK, Remove, Goto
<1>2. PublishedFacts' BY DEF IInv, TypeOK, PublishedFacts, Published, Remove, Goto
<1>3. Graves' BY DEF IInv, TypeOK, Graves, Published, Remove, Goto
<1>4. CurrentClone' BY DEF IInv, TypeOK, CurrentClone, Remove, Goto
<1>5. CurrentWriter' BY DEF IInv, TypeOK, CurrentWriter, Published, Remove, Goto
<1>6. Through' BY DEF IInv, TypeOK, Through, Retired, Published, Remove, Goto
<1>7. Closed' BY DEF IInv, TypeOK, Closed, Remove, Goto
<1> QED BY <1>1, <1>2, <1>3, <1>4, <1>5, <1>6, <1>7 DEF IInv

LEMMA RemoveLastKeeps == ASSUME IInv, RemoveLast PROVE IInv'
<1>1. TypeOK'
    <2>1. ScriptTyped' BY StopTyped DEF IInv, TypeOK, ScriptTyped, RemoveLast, Goto
    <2>2. DiskTyped' BY DEF IInv, TypeOK, DiskTyped, Heads, RemoveLast, Goto
    <2> QED BY <2>1, <2>2 DEF ScriptTyped, DiskTyped, TypeOK
<1>2. PublishedFacts' BY DEF IInv, TypeOK, PublishedFacts, Published, RemoveLast, Goto
<1>3. Graves' BY DEF IInv, TypeOK, Graves, Published, CurrentClone, RemoveLast, Goto
<1>4. CurrentClone' BY DEF IInv, TypeOK, CurrentClone, RemoveLast, Goto
<1>5. CurrentWriter' BY DEF IInv, TypeOK, CurrentWriter, Published, RemoveLast, Goto
<1>6. Through' BY DEF IInv, TypeOK, Through, Retired, Published, RemoveLast, Goto
<1>7. Closed' BY DEF IInv, TypeOK, Closed, RemoveLast, Goto
<1> QED BY <1>1, <1>2, <1>3, <1>4, <1>5, <1>6, <1>7 DEF IInv

LEMMA ClearIntentKeeps == ASSUME IInv, ClearIntent PROVE IInv'
<1>1. TypeOK'
    <2>1. ScriptTyped' BY StopTyped DEF IInv, TypeOK, ScriptTyped, ClearIntent, Goto
    <2>2. DiskTyped' BY DEF IInv, TypeOK, DiskTyped, Heads, ClearIntent, Goto
    <2> QED BY <2>1, <2>2 DEF ScriptTyped, DiskTyped, TypeOK
<1>2. PublishedFacts' BY DEF IInv, TypeOK, PublishedFacts, Published, ClearIntent, Goto, Stop
<1>3. Graves' BY DEF IInv, TypeOK, Graves, Published, ClearIntent, Goto, Stop
<1>4. CurrentClone' BY DEF IInv, TypeOK, CurrentClone, ClearIntent, Goto, Stop
<1>5. CurrentWriter' BY DEF IInv, TypeOK, CurrentWriter, Published, ClearIntent, Goto, Stop
<1>6. Through' BY DEF IInv, TypeOK, Through, Retired, Published, ClearIntent, Goto, Stop
<1>7. Closed' BY DEF IInv, TypeOK, Closed, ClearIntent, Goto, Stop
<1> QED BY <1>1, <1>2, <1>3, <1>4, <1>5, <1>6, <1>7 DEF IInv

LEMMA ClearTombKeeps == ASSUME IInv, ClearTomb PROVE IInv'
<1>1. TypeOK' BY DEF IInv, TypeOK, ClearTomb, Goto
<1>2. PublishedFacts' BY DEF IInv, TypeOK, PublishedFacts, Published, ClearTomb, Goto
<1>3. Graves' BY DEF IInv, TypeOK, Graves, Published, ClearTomb, Goto
<1>4. CurrentClone' BY DEF IInv, TypeOK, CurrentClone, ClearTomb, Goto
<1>5. CurrentWriter' BY DEF IInv, TypeOK, CurrentWriter, Published, ClearTomb, Goto
<1>6. Through' BY DEF IInv, TypeOK, Through, Retired, Published, ClearTomb, Goto
<1>7. Closed' BY DEF IInv, TypeOK, Closed, ClearTomb, Goto
<1> QED BY <1>1, <1>2, <1>3, <1>4, <1>5, <1>6, <1>7 DEF IInv

LEMMA ClearStageKeeps == ASSUME IInv, ClearStage PROVE IInv'
<1>1. TypeOK'
    <2>1. ScriptTyped' BY StopTyped DEF IInv, TypeOK, ScriptTyped, CurrentClone, ClearStage
    <2>2. DiskTyped' BY DEF IInv, TypeOK, DiskTyped, Heads, CurrentClone, ClearStage
    <2> QED BY <2>1, <2>2 DEF ScriptTyped, DiskTyped, TypeOK
<1>2. PublishedFacts' BY DEF IInv, TypeOK, PublishedFacts, Published, ClearStage
<1>3. Graves' BY DEF IInv, TypeOK, Graves, Published, ClearStage
<1>4. CurrentClone' BY DEF IInv, TypeOK, CurrentClone, ClearStage
<1>5. CurrentWriter' BY DEF IInv, TypeOK, CurrentWriter, Published, ClearStage
<1>6. Through'
    BY DEF IInv, TypeOK, Through, Retired, Published, CurrentClone, CurrentWriter, ClearStage
<1>7. Closed' BY DEF IInv, TypeOK, Closed, ClearStage
<1> QED BY <1>1, <1>2, <1>3, <1>4, <1>5, <1>6, <1>7 DEF IInv

LEMMA RecordQuiescedKeeps == ASSUME IInv, RecordQuiesced PROVE IInv'
<1>1. TypeOK'
    <2>1. ScriptTyped'
        BY StopTyped DEF IInv, TypeOK, ScriptTyped, RecordQuiesced, SetManifest, Goto
    <2>2. /\ [manifest EXCEPT !.quiesced = TRUE] \in Manifests
          /\ [manifest EXCEPT !.handoff = "quiesced"] \in Manifests
        BY DEF IInv, TypeOK, Manifests
    <2>3. manifest' \in Manifests BY <2>2 DEF RecordQuiesced, SetManifest
    <2>4. DiskTyped' BY <2>3 DEF IInv, TypeOK, DiskTyped, RecordQuiesced, SetManifest
    <2> QED BY <2>1, <2>4 DEF ScriptTyped, DiskTyped, TypeOK
<1>2. PublishedFacts'
    BY DEF IInv, TypeOK, PublishedFacts, Published, Manifests, Heads, RecordQuiesced,
        SetManifest, Goto, Stop
<1>3. Graves'
    BY DEF IInv, TypeOK, Graves, Published, Manifests, Heads, RecordQuiesced, SetManifest, Goto,
        Stop
<1>4. CurrentClone' BY DEF IInv, TypeOK, CurrentClone, RecordQuiesced, SetManifest, Goto, Stop
<1>5. CurrentWriter'
    BY DEF IInv, TypeOK, CurrentWriter, Published, RecordQuiesced, SetManifest, Goto, Stop
<1>6. Through'
    BY DEF IInv, TypeOK, Through, Retired, Published, Manifests, Heads, RecordQuiesced,
        SetManifest, Goto, Stop
<1>7. Closed'
    BY DEF IInv, TypeOK, Closed, Manifests, Heads, RecordQuiesced, SetManifest, Goto, Stop
<1> QED BY <1>1, <1>2, <1>3, <1>4, <1>5, <1>6, <1>7 DEF IInv

LEMMA FileMissionKeeps == ASSUME IInv, FileMission PROVE IInv'
<1>1. TypeOK'
    <2>1. ScriptTyped' BY StopTyped DEF IInv, TypeOK, ScriptTyped, FileMission, Goto
    <2>2. DiskTyped' BY DEF IInv, TypeOK, DiskTyped, Heads, FileMission, Goto
    <2> QED BY <2>1, <2>2 DEF ScriptTyped, DiskTyped, TypeOK
<1>2. PublishedFacts' BY DEF IInv, TypeOK, PublishedFacts, Published, FileMission, Goto, Stop
<1>3. Graves' BY DEF IInv, TypeOK, Graves, Published, FileMission, Goto, Stop
<1>4. CurrentClone' BY DEF IInv, TypeOK, CurrentClone, FileMission, Goto, Stop
<1>5. CurrentWriter' BY DEF IInv, TypeOK, CurrentWriter, Published, FileMission, Goto, Stop
<1>6. Through' BY DEF IInv, TypeOK, Through, Retired, Published, FileMission, Goto, Stop
<1>7. Closed' BY DEF IInv, TypeOK, Closed, FileMission, Goto, Stop
<1> QED BY <1>1, <1>2, <1>3, <1>4, <1>5, <1>6, <1>7 DEF IInv

LEMMA PrepareArchiveKeeps == ASSUME IInv, PrepareArchive PROVE IInv'
<1>1. TypeOK'
    <2>1. ScriptTyped' BY StopTyped DEF IInv, TypeOK, ScriptTyped, PrepareArchive, Goto
    <2>2. DiskTyped' BY DEF IInv, TypeOK, DiskTyped, Heads, PrepareArchive, Goto
    <2> QED BY <2>1, <2>2 DEF ScriptTyped, DiskTyped, TypeOK
<1>2. PublishedFacts' BY DEF IInv, TypeOK, PublishedFacts, Published, PrepareArchive, Goto, Stop
<1>3. Graves' BY DEF IInv, TypeOK, Graves, Published, PrepareArchive, Goto, Stop
<1>4. CurrentClone' BY DEF IInv, TypeOK, CurrentClone, PrepareArchive, Goto, Stop
<1>5. CurrentWriter' BY DEF IInv, TypeOK, CurrentWriter, Published, PrepareArchive, Goto, Stop
<1>6. Through' BY DEF IInv, TypeOK, Through, Retired, Published, PrepareArchive, Goto, Stop
<1>7. Closed' BY DEF IInv, TypeOK, Closed, PrepareArchive, Goto, Stop
<1> QED BY <1>1, <1>2, <1>3, <1>4, <1>5, <1>6, <1>7 DEF IInv

LEMMA MoveStateKeeps == ASSUME IInv, MoveState PROVE IInv'
<1>1. TypeOK' BY ZenonT(60) DEF IInv, TypeOK, MoveState, Goto
<1>2. PublishedFacts' BY DEF IInv, TypeOK, PublishedFacts, Published, MoveState, Goto
<1>3. Graves' BY DEF IInv, TypeOK, Graves, Published, MoveState, Goto
<1>4. CurrentClone' BY DEF IInv, TypeOK, CurrentClone, MoveState, Goto
<1>5. CurrentWriter' BY DEF IInv, TypeOK, CurrentWriter, Published, MoveState, Goto
<1>6. Through' BY DEF IInv, TypeOK, Through, Retired, Published, MoveState, Goto
<1>7. Closed' BY DEF IInv, TypeOK, Closed, MoveState, Goto
<1> QED BY <1>1, <1>2, <1>3, <1>4, <1>5, <1>6, <1>7 DEF IInv

LEMMA MoveManifestKeeps == ASSUME IInv, MoveManifest PROVE IInv'
<1>1. TypeOK' BY ZenonT(60) DEF IInv, TypeOK, MoveManifest
<1>2. PublishedFacts' BY DEF IInv, TypeOK, PublishedFacts, Published, MoveManifest
<1>3. Graves' BY DEF IInv, TypeOK, Graves, Published, MoveManifest
<1>4. CurrentClone' BY DEF IInv, TypeOK, CurrentClone, MoveManifest
<1>5. CurrentWriter' BY DEF IInv, TypeOK, CurrentWriter, Published, MoveManifest
<1>6. Through' BY DEF IInv, TypeOK, Through, Retired, Published, MoveManifest
<1>7. Closed' BY DEF IInv, TypeOK, Closed, MoveManifest
<1> QED BY <1>1, <1>2, <1>3, <1>4, <1>5, <1>6, <1>7 DEF IInv

LEMMA RecoverKeeps == ASSUME IInv, Recover PROVE IInv'
<1>1. TypeOK' BY DEF IInv, TypeOK, Recover
<1>2. PublishedFacts' BY DEF IInv, TypeOK, PublishedFacts, Published, Recover
<1>3. Graves' BY DEF IInv, TypeOK, Graves, Published, Recover
<1>4. CurrentClone' BY DEF IInv, TypeOK, CurrentClone, Recover
<1>5. CurrentWriter' BY DEF IInv, TypeOK, CurrentWriter, Published, Recover
<1>6. Through' BY DEF IInv, TypeOK, Through, Retired, Published, Recover
<1>7. Closed' BY DEF IInv, TypeOK, Closed, Recover
<1> QED BY <1>1, <1>2, <1>3, <1>4, <1>5, <1>6, <1>7 DEF IInv

LEMMA DropRefKeeps == ASSUME IInv, NEW w \in Writers, DropRef(w) PROVE IInv'
<1>1. TypeOK'
    <2>1. ScriptTyped' BY StopTyped DEF IInv, TypeOK, ScriptTyped, DropRef, Unneeded
    <2>2. DiskTyped' BY DEF IInv, TypeOK, DiskTyped, Heads, DropRef, Unneeded
    <2> QED BY <2>1, <2>2 DEF ScriptTyped, DiskTyped, TypeOK
<1>2. PublishedFacts' BY DEF IInv, TypeOK, PublishedFacts, Published, DropRef, Unneeded, Stop
<1>3. Graves' BY DEF IInv, TypeOK, Graves, Published, DropRef, Unneeded, Stop
<1>4. CurrentClone' BY DEF IInv, TypeOK, CurrentClone, DropRef, Unneeded, Stop
<1>5. CurrentWriter' BY DEF IInv, TypeOK, CurrentWriter, Published, DropRef, Unneeded, Stop
<1>6. Through' BY DEF IInv, TypeOK, Through, Retired, Published, DropRef, Unneeded, Stop
<1>7. Closed' BY DEF IInv, TypeOK, Closed, DropRef, Unneeded, Stop
<1> QED BY <1>1, <1>2, <1>3, <1>4, <1>5, <1>6, <1>7 DEF IInv

LEMMA ClearArchiveKeeps == ASSUME IInv, ClearArchive PROVE IInv'
<1>1. TypeOK' BY DEF IInv, TypeOK, ClearArchive, Stop
<1>2. PublishedFacts' BY DEF IInv, TypeOK, PublishedFacts, Published, ClearArchive, Stop
<1>3. Graves' BY DEF IInv, TypeOK, Graves, Published, ClearArchive, Stop
<1>4. CurrentClone' BY DEF IInv, TypeOK, CurrentClone, ClearArchive, Stop
<1>5. CurrentWriter' BY DEF IInv, TypeOK, CurrentWriter, Published, ClearArchive, Stop
<1>6. Through' BY DEF IInv, TypeOK, Through, Retired, Published, ClearArchive, Stop
<1>7. Closed' BY DEF IInv, TypeOK, Closed, ClearArchive, Stop
<1> QED BY <1>1, <1>2, <1>3, <1>4, <1>5, <1>6, <1>7 DEF IInv

LEMMA CrashKeeps == ASSUME IInv, Crash PROVE IInv'
<1>1. TypeOK'
    <2>1. ScriptTyped' BY StopTyped DEF IInv, TypeOK, ScriptTyped, Crash
    <2>2. DiskTyped' BY DEF IInv, TypeOK, DiskTyped, Heads, Crash
    <2> QED BY <2>1, <2>2 DEF ScriptTyped, DiskTyped, TypeOK
<1>2. PublishedFacts' BY DEF IInv, TypeOK, PublishedFacts, Published, Crash, Stop
<1>3. Graves' BY DEF IInv, TypeOK, Graves, Published, Crash, Stop
<1>4. CurrentClone' BY DEF IInv, TypeOK, CurrentClone, Crash, Stop
<1>5. CurrentWriter' BY DEF IInv, TypeOK, CurrentWriter, Published, Crash, Stop
<1>6. Through' BY DEF IInv, TypeOK, Through, Retired, Published, Crash, Stop
<1>7. Closed' BY DEF IInv, TypeOK, Closed, Crash, Stop
<1> QED BY <1>1, <1>2, <1>3, <1>4, <1>5, <1>6, <1>7 DEF IInv

LEMMA EditKeeps == ASSUME IInv, NEW w \in Writers, Edit(w) PROVE IInv'
<1>1. TypeOK' BY DEF IInv, TypeOK, Edit
<1>2. PublishedFacts' BY DEF IInv, TypeOK, PublishedFacts, Published, Edit
<1>3. Graves' BY DEF IInv, TypeOK, Graves, Published, Edit
<1>4. CurrentClone' BY DEF IInv, TypeOK, CurrentClone, Edit
<1>5. CurrentWriter' BY DEF IInv, TypeOK, CurrentWriter, Published, Edit
<1>6. Through' BY DEF IInv, TypeOK, Through, Retired, Published, Edit
<1>7. Closed' BY DEF IInv, TypeOK, Closed, Edit
<1> QED BY <1>1, <1>2, <1>3, <1>4, <1>5, <1>6, <1>7 DEF IInv

LEMMA TidyKeeps == ASSUME IInv, NEW w \in Writers, Tidy(w) PROVE IInv'
<1>1. TypeOK' BY DEF IInv, TypeOK, Heads, Tidy
<1>2. PublishedFacts' BY DEF IInv, TypeOK, PublishedFacts, Published, Tidy
<1>3. Graves' BY DEF IInv, TypeOK, Graves, Published, Tidy
<1>4. CurrentClone' BY DEF IInv, TypeOK, CurrentClone, Tidy
<1>5. CurrentWriter' BY DEF IInv, TypeOK, CurrentWriter, Published, Tidy
<1>6. Through' BY DEF IInv, TypeOK, Through, Retired, Published, Tidy
<1>7. Closed' BY DEF IInv, TypeOK, Closed, Tidy
<1> QED BY <1>1, <1>2, <1>3, <1>4, <1>5, <1>6, <1>7 DEF IInv

LEMMA CloseWorkspaceKeeps == ASSUME IInv, CloseWorkspace PROVE IInv'
<1>1. TypeOK'
    <2>1. ScriptTyped' BY StopTyped DEF IInv, TypeOK, ScriptTyped, CloseWorkspace
    <2>2. DiskTyped' BY DEF IInv, TypeOK, DiskTyped, Heads, CloseWorkspace
    <2> QED BY <2>1, <2>2 DEF ScriptTyped, DiskTyped, TypeOK
<1>2. PublishedFacts' BY DEF IInv, TypeOK, PublishedFacts, Published, CloseWorkspace
<1>3. Graves' BY DEF IInv, TypeOK, Graves, Published, CloseWorkspace
<1>4. CurrentClone' BY DEF IInv, TypeOK, CurrentClone, CloseWorkspace
<1>5. CurrentWriter' BY DEF IInv, TypeOK, CurrentWriter, Published, CloseWorkspace
<1>6. Through' BY DEF IInv, TypeOK, Through, Retired, Published, CloseWorkspace
<1>7. Closed' BY DEF IInv, TypeOK, Closed, CloseWorkspace
<1> QED BY <1>1, <1>2, <1>3, <1>4, <1>5, <1>6, <1>7 DEF IInv

LEMMA MeddleKeeps == ASSUME IInv, NEW w \in Writers, Meddle(w) PROVE IInv'
<1>1. TypeOK' BY DEF IInv, TypeOK, Heads, Meddle
<1>2. PublishedFacts' BY DEF IInv, TypeOK, PublishedFacts, Published, Meddle
<1>3. Graves' BY DEF IInv, TypeOK, Graves, Published, Meddle
<1>4. CurrentClone' BY DEF IInv, TypeOK, CurrentClone, Meddle
<1>5. CurrentWriter' BY DEF IInv, TypeOK, CurrentWriter, Published, Meddle
<1>6. Through' BY DEF IInv, TypeOK, Through, Retired, Published, Meddle
<1>7. Closed' BY DEF IInv, TypeOK, Closed, Meddle
<1> QED BY <1>1, <1>2, <1>3, <1>4, <1>5, <1>6, <1>7 DEF IInv

LEMMA EndMissionKeeps == ASSUME IInv, EndMission PROVE IInv'
<1>1. TypeOK' BY DEF IInv, TypeOK, EndMission
<1>2. PublishedFacts' BY DEF IInv, TypeOK, PublishedFacts, Published, EndMission
<1>3. Graves' BY DEF IInv, TypeOK, Graves, Published, EndMission
<1>4. CurrentClone' BY DEF IInv, TypeOK, CurrentClone, EndMission
<1>5. CurrentWriter' BY DEF IInv, TypeOK, CurrentWriter, Published, EndMission
<1>6. Through' BY DEF IInv, TypeOK, Through, Retired, Published, EndMission
<1>7. Closed' BY DEF IInv, TypeOK, Closed, EndMission
<1> QED BY <1>1, <1>2, <1>3, <1>4, <1>5, <1>6, <1>7 DEF IInv

-----------------------------------------------------------------------------
(* The first state satisfies the invariant. *)
THEOREM InitIInv == Init => IInv
<1> SUFFICES ASSUME Init PROVE IInv
    OBVIOUS
<1>1. manifest \in Manifests
    <2>1. /\ [w \in Writers |-> "base"] \in [Writers -> Heads]
          /\ [w \in Writers |-> None] \in [Writers -> Heads \cup {None}]
          /\ [w \in Writers |-> "private"] \in [Writers -> {"private", "published"}]
        BY DEF Heads
    <2> QED
        BY <2>1, Zenon DEF Init, Manifests
<1>2. TypeOK
    <2>1. ScriptTyped
        BY DEF Init, ScriptTyped
    <2>2. /\ place \in [Clones -> {"home", "staged", "partial", "gone"}]
          /\ intent \in [Writers -> Heads \cup {None}] /\ head \in [Writers -> Heads]
          /\ ref \in [Writers -> Heads \cup {"other", None}]
        BY DEF Init, Heads
    <2>3. /\ stage \in SUBSET Clones /\ tomb \in SUBSET Clones /\ dirty \in SUBSET Writers
          /\ plan \in Manifests \cup {None} /\ mission \in {"open", "completing", "ended"}
          /\ crashes \in 0..MaxCrashes /\ meddles \in 0..MaxMeddles
        BY DEF Init
    <2>4. /\ active \in BOOLEAN /\ state \in BOOLEAN /\ filed \in BOOLEAN /\ live \in BOOLEAN
        BY Zenon DEF Init
    <2> QED
        BY <1>1, <2>1, <2>2, <2>3, <2>4 DEF ScriptTyped, TypeOK
<1>3. PublishedFacts /\ Graves
    BY DEF Init, PublishedFacts, Graves, Published
<1>4. CurrentClone /\ CurrentWriter /\ Through /\ Closed
    BY DEF Init, CurrentClone, CurrentWriter, Through, Closed
<1> QED
    BY <1>2, <1>3, <1>4 DEF IInv

(* Every step preserves it: one case per action. *)
THEOREM NextIInv == IInv /\ [Next]_vars => IInv'
<1> SUFFICES ASSUME IInv, [Next]_vars PROVE IInv'
    OBVIOUS
<1>1. CASE Admit
    BY <1>1, StartKeeps DEF Admit
<1>2. CASE \E r \in Readers : CompleteMove(r)
    BY <1>2, CompleteMoveKeeps
<1>3. CASE Validate
    BY <1>3, ValidateKeeps
<1>4. CASE MarkClosing
    BY <1>4, MarkClosingKeeps
<1>5. CASE Shut
    BY <1>5, ShutKeeps
<1>6. CASE \E c \in Clones : NextClone(c)
    BY <1>6, NextCloneKeeps
<1>7. CASE Stage
    BY <1>7, StageKeeps
<1>8. CASE Move
    BY <1>8, MoveKeeps
<1>9. CASE Check
    BY <1>9, CheckKeeps
<1>10. CASE Intend
    BY <1>10, IntendKeeps
<1>11. CASE Probe
    BY <1>11, ProbeKeeps
<1>12. CASE Publish
    BY <1>12, PublishKeeps
<1>13. CASE Confirm
    BY <1>13, ConfirmKeeps
<1>14. CASE RecordFinal
    BY <1>14, RecordFinalKeeps
<1>15. CASE RecordSha
    BY <1>15, RecordShaKeeps
<1>16. CASE RecordPublished
    BY <1>16, RecordPublishedKeeps
<1>17. CASE Inspect
    BY <1>17, InspectKeeps
<1>18. CASE Bury
    BY <1>18, BuryKeeps
<1>19. CASE Remove
    BY <1>19, RemoveKeeps
<1>20. CASE RemoveLast
    BY <1>20, RemoveLastKeeps
<1>21. CASE ClearIntent
    BY <1>21, ClearIntentKeeps
<1>22. CASE ClearTomb
    BY <1>22, ClearTombKeeps
<1>23. CASE ClearStage
    BY <1>23, ClearStageKeeps
<1>24. CASE RecordQuiesced
    BY <1>24, RecordQuiescedKeeps
<1>25. CASE FileMission
    BY <1>25, FileMissionKeeps
<1>26. CASE PrepareArchive
    BY <1>26, PrepareArchiveKeeps
<1>27. CASE MoveState
    BY <1>27, MoveStateKeeps
<1>28. CASE MoveManifest
    BY <1>28, MoveManifestKeeps
<1>29. CASE Recover
    BY <1>29, RecoverKeeps
<1>30. CASE \E w \in Writers : DropRef(w)
    BY <1>30, DropRefKeeps
<1>31. CASE ClearArchive
    BY <1>31, ClearArchiveKeeps
<1>32. CASE Crash
    BY <1>32, CrashKeeps
<1>33. CASE \E w \in Writers : Edit(w)
    BY <1>33, EditKeeps
<1>34. CASE \E w \in Writers : Tidy(w)
    BY <1>34, TidyKeeps
<1>35. CASE CloseWorkspace
    BY <1>35, CloseWorkspaceKeeps
<1>36. CASE \E w \in Writers : Meddle(w)
    BY <1>36, MeddleKeeps
<1>37. CASE EndMission
    BY <1>37, EndMissionKeeps
<1>38. CASE UNCHANGED vars

        BY <1>38 DEF IInv, TypeOK, PublishedFacts, Graves, CurrentClone, CurrentWriter, Through,
            Closed,
        Published, Retired
<1> QED
    BY <1>1, <1>2, <1>3, <1>4, <1>5, <1>6, <1>7, <1>8, <1>9, <1>10, <1>11, <1>12, <1>13, <1>14,
        <1>15, <1>16, <1>17, <1>18, <1>19, <1>20, <1>21, <1>22, <1>23, <1>24, <1>25, <1>26,
        <1>27, <1>28, <1>29, <1>30, <1>31, <1>32, <1>33, <1>34, <1>35, <1>36, <1>37, <1>38
    DEF Next, Run, Retire, Archive, Others

(* The inductive invariant holds in every reachable state. *)
THEOREM InvariantTheorem == Spec => []IInv
BY InitIInv, NextIInv, PTL DEF Spec

(* Every variable keeps its type, for any writers, readers and number of crashes. *)
THEOREM TypeTheorem == Spec => []TypeOK
<1>1. IInv => TypeOK
    BY DEF IInv
<1> QED BY <1>1, InvariantTheorem, PTL

(* No work is deleted, wherever the script was killed and whatever was edited, closed or  *)
(* touched meanwhile: what is buried was clean, and its last commit is the published one. *)
THEOREM WorkKeptTheorem == Spec => []WorkKept
<1>1. IInv => WorkKept
    BY DEF IInv, TypeOK, PublishedFacts, Graves, WorkKept, Published
<1> QED BY <1>1, InvariantTheorem, PTL

(* The archive holds finished fleets only: every clone and intent is gone, every writer is *)
(* published, the mission is over and archived, the workspace is closed.                   *)
THEOREM ArchiveCompleteTheorem == Spec => []ArchiveComplete
<1>1. IInv => ArchiveComplete
    BY DEF IInv, Through, Closed, Retired, ArchiveComplete
<1> QED BY <1>1, InvariantTheorem, PTL

(* The branch is created at the commit the intent binds, of a clone nobody can reach. *)
LEMMA PublishCreates == ASSUME IInv, Publish, NEW w \in Writers, ref'[w] # ref[w] PROVE Creates(w)
<1>1. pc = "publish" /\ cur = w /\ ref[w] = None /\ ref'[w] = head[w]
    BY DEF IInv, TypeOK, CurrentClone, Publish
<1> QED BY <1>1 DEF IInv, CurrentWriter, Creates

(* A branch goes only when it still is at its base and the manifest in the archive. *)
LEMMA DropRefDrops ==
    ASSUME IInv, NEW v \in Writers, DropRef(v), NEW w \in Writers, ref'[w] # ref[w] PROVE Drops(w)
BY DEF IInv, TypeOK, Closed, DropRef, Unneeded, Drops

(* Of the branches in the target repository only those change that the teardown may   *)
(* create or drop, or somebody else touched.                                          *)
THEOREM RefsRespectedTheorem == Spec => RefsRespected
<1>1. ASSUME IInv, [Next]_vars, NEW w \in Writers, ref'[w] # ref[w]
      PROVE Creates(w) \/ Drops(w) \/ meddles' # meddles
    <2>1. CASE Publish
        BY <1>1, <2>1, PublishCreates
    <2>2. CASE \E v \in Writers : DropRef(v)
        BY <1>1, <2>2, DropRefDrops
    <2>3. CASE \E v \in Writers : Meddle(v)
        BY <2>3, <1>1 DEF Meddle, IInv, TypeOK
    <2>4. CASE ~Publish /\ (~\E v \in Writers : DropRef(v) \/ Meddle(v))
        BY <1>1, <2>4
        DEF Next, Admit, Start, Recover, Run, CompleteMove, Validate, MarkClosing, Shut, Retire,
            NextClone, Stage, Move, Check, Intend, Probe, Confirm, RecordFinal, RecordSha,
            RecordPublished, Inspect, Bury, Remove, RemoveLast, ClearIntent, ClearTomb, ClearStage,
            Archive, RecordQuiesced, FileMission, PrepareArchive, MoveState, MoveManifest,
            ClearArchive, Others, Crash, CloseWorkspace, EndMission, Edit, Tidy
    <2> QED BY <2>1, <2>2, <2>3, <2>4
<1>2. IInv /\ [Next]_vars => [\A w \in Writers : ref'[w] # ref[w] =>
                                 Creates(w) \/ Drops(w) \/ meddles' # meddles]_vars
    BY <1>1
<1> QED BY <1>2, InvariantTheorem, PTL DEF Spec, RefsRespected
=============================================================================
