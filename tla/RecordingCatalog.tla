-------------------------- MODULE RecordingCatalog --------------------------
(***************************************************************************)
(* The catalog of recordings (pkg/recordingcatalog) over one folder: the   *)
(* scan that reconciles its tables with the disk, the deletion of a        *)
(* recording, the mark of a file being recorded, and the stage             *)
(* prepare_playback that registers a product and the proof of it.          *)
(*                                                                         *)
(* The folder holds three names in the order of the walk: Src is recorded  *)
(* and prepared, Prod is the product of Src with its manifest beside it,   *)
(* Other is any name.  A file is its identity (inode and birth time) and   *)
(* the time of its last write, which stands for size and modification      *)
(* time; both are values of one clock, so the hash version() is the file   *)
(* itself, with identity 0 where the code hashes an empty identity.        *)
(* A recording id is its row number.  Products under the asset root (kinds *)
(* hls and compat) are left out, so every asset has kind main.             *)
(***************************************************************************)
EXTENDS Naturals, Sequences, FiniteSets

CONSTANTS
  Src, Prod, Other,  \* the names, in lexical order
  Faststart,         \* identities whose file can be played as it is
  MaxWrites,         \* bound of the clock: files created or written
  MaxMoves,          \* files renamed or removed from outside
  MaxDeletes,        \* deletion requests
  MaxPreparations,   \* runs of the stage
  MaxFaults,         \* crashes, and scans refused though no name was gone
  MaxEvents          \* of those four together

ASSUME CatalogAssumption ==
  /\ Src # Prod /\ Prod # Other /\ Src # Other
  /\ MaxWrites \in Nat \ {0}
  /\ \A n \in {MaxMoves, MaxDeletes, MaxPreparations, MaxFaults,
                MaxEvents} : n \in Nat

Paths == {Src, Prod, Other}

VARIABLES
  disk,        \* the file of each name
  side,        \* the manifest beside Prod: the stamps of source and target
  quarantine,  \* files left behind in .bilive-delete-* directories
  active,      \* activeSources.paths
  rename,      \* a rename that found its new name free
  writing,     \* the identity of the file a recorder has open, or 0
  version,     \* recordings: the source_version of each id
  alias,       \* recording_aliases
  asset,       \* media_assets
  proof,       \* prepared_verifications
  status,      \* catalog_meta 'status'
  stats,       \* room_statistics: the rows it counts and sums
  job,         \* playback_preparations, by recording and source version
  scan,        \* a Reconcile that holds s.mu
  prep,        \* the stage prepare_playback
  del,         \* DeleteRecording
  clock,
  budget,      \* what the bounds leave
  fresh,       \* this process has reconciled
  kept         \* history: identities nobody asked to be rid of

files    == <<disk, side, quarantine, rename, writing, clock, kept>>
tables   == <<version, alias, asset, proof>>
shown    == <<status, stats, fresh>>
vars == <<disk, side, quarantine, active, rename, writing, version, alias, asset,
          proof, status, stats, job, scan, prep, del, clock, budget, fresh, kept>>

Times  == 0..MaxWrites
File   == [id : Times, at : Times]
NoFile == [id |-> 0, at |-> 0]
NoSide == [source |-> 0, target |-> 0]
NoRename == <<>>
NoRow   == [rec |-> 0, file |-> NoFile, present |-> FALSE]
NoAsset == [rec |-> 0, src |-> NoFile, status |-> "none", at |-> 0]
NoProof == [rec |-> 0, src |-> NoFile, file |-> NoFile, valid |-> FALSE]
NoScan  == [by |-> "none", todo |-> {}, seen |-> [p \in Paths |-> NoFile],
            manifest |-> NoSide, clean |-> TRUE]
NoPrep  == [pc |-> "idle", src |-> NoFile, rec |-> 0, out |-> NoFile,
            candidate |-> FALSE]
NoDel   == [pc |-> "idle", rec |-> 0, src |-> NoFile, plan |-> [p \in {} |-> NoFile],
            left |-> {}, held |-> NoFile]

Locked == scan.by # "none" \/ del.pc \in {"check", "capture", "judge", "record", "finish"}

\* The order of the walk.
Position == [p \in Paths |-> IF p = Src THEN 1 ELSE IF p = Prod THEN 2 ELSE 3]
First(S) == CHOOSE p \in S : \A q \in S : Position[p] <= Position[q]
Last(S)  == CHOOSE p \in S : \A q \in S : Position[q] <= Position[p]

\* playbackasset.Load: the target is the one published, the source unchanged or gone.
Loaded == /\ side # NoSide /\ disk[Prod] # NoFile /\ disk[Prod].at = side.target
          /\ disk[Src] \in {NoFile} \cup {f \in File : f.at = side.source}

\* Store.PreparationEntry on name p with expected version e.
EntryOf(p, e) ==
  /\ p \notin active
  /\ e # NoFile /\ disk[p] = e
  /\ alias[p].present /\ version[alias[p].rec] = e

------------------------------------------------------------------------------
Init ==
  /\ disk = [p \in Paths |-> IF p = Src THEN [id |-> 1, at |-> 1] ELSE NoFile]
  /\ side = NoSide /\ quarantine = {} /\ active = {} /\ rename = NoRename /\ writing = 0
  /\ version = <<>>
  /\ alias = [p \in Paths |-> NoRow]
  /\ asset = [p \in Paths |-> NoAsset]
  /\ proof = [p \in Paths |-> NoProof]
  /\ status = "pending" /\ stats = {} /\ job = <<>>
  /\ scan = NoScan /\ prep = NoPrep /\ del = NoDel
  /\ clock = 1 /\ fresh = FALSE /\ kept = {1}
  /\ budget = [moves |-> MaxMoves, deletes |-> MaxDeletes,
               preparations |-> MaxPreparations, faults |-> MaxFaults, all |-> MaxEvents]

Spend(what) == /\ budget[what] > 0 /\ budget.all > 0
               /\ budget' = [budget EXCEPT ![what] = @ - 1, !.all = @ - 1]

\* A change on disk during a scan (history for ScanKeepsServed).
Disturb == scan' = IF scan.by = "none" THEN scan ELSE [scan EXCEPT !.clean = FALSE]

------------------------------------------------------------------------------
(***************************************************************************)
(* The disk: users of the file manager and of the machine, and recorders.  *)
(***************************************************************************)
\* The file manager removes the manifest beside a product it moves; a shell does not.
SideAfter(p) == {side} \cup (IF p = Prod THEN {NoSide} ELSE {})

\* renameFile looks whether the new name is taken ...
RenameCheck(p, q) ==
  /\ Spend("moves") /\ rename = NoRename
  /\ disk[p] # NoFile /\ disk[q] = NoFile
  /\ rename' = <<p, q>>
  /\ UNCHANGED <<disk, side, quarantine, writing, clock, kept, active, tables, shown, job,
                 scan, prep, del>>

\* ... and then renames what is there by now over whatever has come to that name.
\* Nothing asks whether a file is being recorded.
Rename ==
  /\ rename # NoRename
  /\ rename' = NoRename
  /\ LET p == rename[1]  q == rename[2]
     IN  IF disk[p] = NoFile
         THEN UNCHANGED <<disk, side, kept, scan>>
         ELSE /\ disk' = [disk EXCEPT ![q] = disk[p], ![p] = NoFile]
              /\ side' \in SideAfter(p)
              /\ kept' = kept \ {disk[q].id}
              /\ Disturb
  /\ UNCHANGED <<quarantine, writing, clock, active, tables, shown, job, prep, del, budget>>

Remove(p) ==
  /\ Spend("moves") /\ disk[p] # NoFile
  /\ disk' = [disk EXCEPT ![p] = NoFile]
  /\ side' \in SideAfter(p)
  /\ kept' = kept \ {disk[p].id}
  /\ Disturb
  /\ UNCHANGED <<quarantine, rename, writing, clock, active, tables, shown, job, prep, del>>

\* activeSources is locked while the deletion captures a file and judges it.
BeginRecording(p) ==
  /\ p \notin active /\ del.pc # "judge" /\ clock < MaxWrites
  /\ active' = active \cup {p}
  /\ UNCHANGED <<files, tables, shown, job, scan, prep, del, budget>>

\* The recorder opens the name, or creates a file there, when it first writes;
RecordOpen(p) ==
  /\ p \in active /\ writing = 0 /\ clock < MaxWrites
  /\ clock' = clock + 1
  /\ LET f == IF disk[p] = NoFile THEN [id |-> clock + 1, at |-> clock + 1]
                                  ELSE [disk[p] EXCEPT !.at = clock + 1]
     IN  /\ disk' = [disk EXCEPT ![p] = f]
         /\ writing' = f.id
         /\ kept' = kept \cup {f.id}
  /\ Disturb
  /\ UNCHANGED <<side, quarantine, rename, active, tables, shown, job, prep, del, budget>>

\* it goes on writing to that file, wherever it has been moved to since.
Written(f) == IF f.id = writing THEN [f EXCEPT !.at = clock + 1] ELSE f
RecordWrite ==
  /\ writing # 0 /\ clock < MaxWrites
  /\ clock' = clock + 1
  /\ disk' = [p \in Paths |-> Written(disk[p])]
  /\ quarantine' = {Written(f) : f \in quarantine}
  /\ del' = [del EXCEPT !.held = Written(@)]
  /\ Disturb
  /\ UNCHANGED <<side, rename, writing, kept, active, tables, shown, job, prep, budget>>

EndRecording(p) ==
  /\ p \in active /\ del.pc # "judge"
  /\ active' = active \ {p} /\ writing' = 0
  /\ UNCHANGED <<disk, side, quarantine, rename, clock, kept, tables, shown, job, scan, prep,
                 del, budget>>

------------------------------------------------------------------------------
(***************************************************************************)
(* Reconcile: the walk lists the names once, then looks at each.  It runs  *)
(* in Manager's loop, on every tick, and inside the stage.                 *)
(***************************************************************************)
ScanBegin(by) ==
  /\ ~Locked
  /\ scan' = [NoScan EXCEPT !.by = by, !.todo = {p \in Paths : disk[p] # NoFile}]
  /\ UNCHANGED <<files, active, tables, shown, job, prep, del, budget>>

LoopScan    == ScanBegin("loop")
PrepareScan == prep.pc = "reconcile" /\ ScanBegin("prepare")

ScanFile ==
  /\ scan.by # "none" /\ scan.todo # {}
  /\ disk[First(scan.todo)] # NoFile
  /\ LET p == First(scan.todo)
     IN  scan' = [scan EXCEPT !.todo = @ \ {p}, !.seen[p] = disk[p],
                    !.manifest = IF p = Prod /\ Loaded THEN side ELSE @]
  /\ UNCHANGED <<files, active, tables, shown, job, prep, del, budget>>

\* The snapshot is refused: a listed name is gone, or (a fault) a file changes while
\* it is looked at, the context ends, the transaction fails.
ScanRefused ==
  /\ scan.by # "none"
  /\ \/ scan.todo # {} /\ disk[First(scan.todo)] = NoFile /\ UNCHANGED budget
     \/ Spend("faults")
  /\ status' = "unavailable"
  /\ prep' = IF scan.by = "prepare" THEN [prep EXCEPT !.pc = "fail"] ELSE prep
  /\ scan' = NoScan
  /\ UNCHANGED <<files, active, tables, stats, fresh, job, del>>

Seen == {p \in Paths : scan.seen[p] # NoFile}

\* identityIDs: the map is saved before any row is written.
RowsLeft(i) ==                         \* mutant: rows are read after they are written
  {p \in Paths : /\ alias[p].rec # 0 /\ alias[p].file.id = i
                 /\ \A q \in Seen : scan.seen[q].id = i =>
                      ~(p \in Seen /\ Position[p] < Position[q])}
RowsOf(i) == {p \in Paths : alias[p].rec # 0 /\ alias[p].file.id = i}
NewIds == {scan.seen[p].id : p \in {q \in Seen : RowsOf(scan.seen[q].id) = {}}}
NameOf(i) == First({p \in Seen : scan.seen[p].id = i})
Rank(i) == Cardinality({j \in NewIds : Position[NameOf(j)] <= Position[NameOf(i)]})
RecordingOf(i) == IF RowsOf(i) # {} THEN alias[Last(RowsOf(i))].rec
                  ELSE Len(version) + Rank(i)

\* The first loop of apply: each file writes its recording and its name.
VersionSeen ==
  [r \in 1..Len(version) + Cardinality(NewIds) |->
     LET from == {p \in Seen : RecordingOf(scan.seen[p].id) = r}
     IN  IF from = {} THEN version[r] ELSE scan.seen[Last(from)]]
AliasSeenKept ==                       \* mutant: presence is not reset
  [p \in Paths |->
     IF p \in Seen THEN [rec |-> RecordingOf(scan.seen[p].id),
                         file |-> scan.seen[p], present |-> TRUE]
     ELSE alias[p]]
AliasSeen ==
  [p \in Paths |->
     IF p \in Seen THEN [rec |-> RecordingOf(scan.seen[p].id),
                         file |-> scan.seen[p], present |-> TRUE]
     ELSE [alias[p] EXCEPT !.present = FALSE]]
AssetSeen ==
  [p \in Paths |->
     IF asset[p].rec = 0 THEN NoAsset
     ELSE [asset[p] EXCEPT !.status =
             IF /\ p \in Seen
                /\ asset[p].rec = RecordingOf(scan.seen[p].id)
                /\ asset[p].src = scan.seen[p] /\ asset[p].at = scan.seen[p].at
             THEN "verified" ELSE "unverified"]]

(***************************************************************************)
(* The second loop: a manifest joins the product to its source's recording *)
(* if the source's row has the stamp of the manifest, and gives the        *)
(* recording the version of the source.                                    *)
(***************************************************************************)
Joins    == scan.manifest # NoSide
Matching == AliasSeen[Src].rec # 0 /\ AliasSeen[Src].file.at = scan.manifest.source
Owner    == IF Matching THEN AliasSeen[Src].rec ELSE AliasSeen[Prod].rec
SourceVersion == [id |-> AliasSeen[Src].file.id, at |-> scan.manifest.source]

VersionUnjoined == VersionSeen         \* mutant: the source's version is not restored
VersionJoined == IF Joins THEN [VersionSeen EXCEPT ![Owner] = SourceVersion] ELSE VersionSeen
AliasJoined ==
  IF ~Joins THEN AliasSeen
  ELSE [AliasSeen EXCEPT ![Prod].rec = Owner,
          ![Src] = IF @.rec # 0 THEN @
                   ELSE [rec |-> Owner, file |-> SourceVersion, present |-> FALSE]]
AssetJoined ==
  IF ~Joins THEN AssetSeen
  ELSE [AssetSeen EXCEPT ![Prod] = [rec |-> Owner, src |-> SourceVersion,
                                    status |-> "verified", at |-> scan.seen[Prod].at]]

\* Then missing products, and refreshPreparedVerifications.
Refreshed(p) ==
  LET a == AssetJoined[p]  q == proof[p]
  IN  IF a.rec = 0 THEN a
      ELSE IF ~AliasJoined[p].present THEN [a EXCEPT !.status = "missing"]
      ELSE IF q.rec # 0 /\ ~(/\ disk[p] = q.file /\ q.valid
                             /\ q.rec = a.rec /\ q.src = a.src)
           THEN [a EXCEPT !.status = "unverified"]
      ELSE a

CountedAny(rows) == {rows[p] : p \in Paths}   \* mutant: absent names are counted
Counted(rows) == {rows[p] : p \in {q \in Paths : rows[q].present}}
Present(rows) == {row.rec : row \in Counted(rows)}

Apply ==
  /\ scan.by # "none" /\ scan.todo = {}
  /\ version' = VersionJoined
  /\ alias' = AliasJoined
  /\ asset' = [p \in Paths |-> Refreshed(p)]
  /\ stats' = Counted(AliasJoined)
  /\ status' = "verified" /\ fresh' = TRUE
  /\ prep' = IF scan.by = "prepare" THEN [prep EXCEPT !.pc = "register"] ELSE prep
  /\ scan' = NoScan
  /\ UNCHANGED <<files, active, proof, job, del, budget>>

------------------------------------------------------------------------------
(***************************************************************************)
(* The stage prepare_playback.  What it produces, the recoding aside, is   *)
(* one new file beside its manifest: PlaybackPublication has the protocol. *)
(***************************************************************************)
Target == IF prep.src.id \in Faststart THEN Src ELSE Prod
Key    == <<prep.rec, prep.src>>
Enter(pc) == prep' = [prep EXCEPT !.pc = pc]
Ready(k)  == k \in DOMAIN job /\ job[k].status = "ready"
Record(k, s, out) ==
  job' = [x \in DOMAIN job \cup {k} |-> IF x = k THEN [status |-> s, out |-> out] ELSE job[x]]

\* preparationManifest, or nothing to check when the source is its own product.
Related == Target = Src \/ (Loaded /\ side.source = prep.src.at)

\* Manager.VerifyPreparedAsset of version f at name p.
Verified(p, rec, src, f) ==
  /\ proof[p].rec = rec /\ proof[p].src = src /\ proof[p].file = f /\ proof[p].valid
  /\ asset[p].rec = rec /\ asset[p].src = src /\ version[rec] = src
  /\ asset[p].status = "verified"
  /\ disk[p] = f /\ asset[p].at = f.at

\* Manager.InvalidatePreparedAsset.
Invalidate(p) ==
  /\ proof' = IF proof[p].rec = prep.rec /\ proof[p].src = prep.src
              THEN [proof EXCEPT ![p].valid = FALSE] ELSE proof
  /\ asset' = IF asset[p].rec = prep.rec /\ asset[p].src = prep.src
              THEN [asset EXCEPT ![p].status = "unverified"] ELSE asset

PrepareBegin ==
  /\ prep.pc = "idle" /\ disk[Src] # NoFile /\ Src \notin active
  /\ Spend("preparations")
  /\ prep' = [NoPrep EXCEPT !.pc = "enter", !.src = disk[Src]]
  /\ UNCHANGED <<files, active, tables, shown, job, scan, del>>

PrepareEnter ==
  /\ prep.pc = "enter"
  /\ IF EntryOf(Src, prep.src)
     THEN LET k == <<alias[Src].rec, prep.src>>
          IN  /\ prep' = [prep EXCEPT !.rec = alias[Src].rec,
                            !.pc = IF Ready(k) THEN "reuse" ELSE "transcode"]
              /\ IF Ready(k) THEN UNCHANGED job ELSE Record(k, "running", NoFile)
     ELSE prep' = NoPrep /\ UNCHANGED job
  /\ UNCHANGED <<files, active, tables, shown, scan, del, budget>>

PrepareReuse ==
  /\ prep.pc = "reuse"
  /\ prep' = NoPrep
  /\ IF /\ EntryOf(Src, prep.src) /\ Related
        /\ Verified(Target, prep.rec, prep.src, job[Key].out)
     THEN UNCHANGED <<job, proof, asset>>
     ELSE Record(Key, "stopped", job[Key].out) /\ Invalidate(Target)
  /\ UNCHANGED <<files, active, version, alias, shown, scan, del, budget>>

\* Directly playable, already published, or to be encoded.
PrepareTranscode ==
  /\ prep.pc = "transcode"
  /\ IF ~EntryOf(Src, prep.src) THEN Enter("fail")
     ELSE IF Target = Src
     THEN prep' = [prep EXCEPT !.pc = "recheck", !.out = prep.src, !.candidate = TRUE]
     ELSE IF disk[Prod] = NoFile
     THEN prep' = [prep EXCEPT !.pc = "publish", !.candidate = TRUE]
     ELSE prep' = [prep EXCEPT !.pc = IF Related THEN "recheck" ELSE "fail",
                     !.out = disk[Prod], !.candidate = TRUE]
  /\ UNCHANGED <<files, active, tables, shown, job, scan, del, budget>>

PreparePublish ==
  /\ prep.pc = "publish" /\ EntryOf(Src, prep.src) /\ disk[Prod] = NoFile
  /\ clock < MaxWrites
  /\ clock' = clock + 1
  /\ LET f == [id |-> clock + 1, at |-> clock + 1]
     IN  /\ disk' = [disk EXCEPT ![Prod] = f]
         /\ side' = [source |-> prep.src.at, target |-> f.at]
         /\ kept' = kept \cup {f.id}
         /\ prep' = [prep EXCEPT !.pc = "recheck", !.out = f]
  /\ Disturb
  /\ UNCHANGED <<quarantine, rename, writing, active, tables, shown, job, del, budget>>

\* The encoder or the checks around it fail, or the task is cancelled.
PrepareRefused ==
  /\ prep.pc = "publish"
  /\ Enter("fail")
  /\ UNCHANGED <<files, active, tables, shown, job, scan, del, budget>>

PrepareRecheck ==
  /\ prep.pc = "recheck"
  /\ Enter(IF EntryOf(Src, prep.src) /\ disk[Target] = prep.out /\ Related
           THEN "reconcile" ELSE "fail")
  /\ UNCHANGED <<files, active, tables, shown, job, scan, del, budget>>

\* RegisterPreparedMain, under s.mu.
PrepareRegister ==
  /\ prep.pc = "register" /\ ~Locked
  /\ LET a == alias[Target]
     IN  IF /\ version[prep.rec] = prep.src
            /\ a.present /\ a.rec = prep.rec /\ disk[Target] = a.file
         THEN /\ asset' = [asset EXCEPT ![Target] =
                   [rec |-> prep.rec, src |-> prep.src, status |-> "verified",
                    at |-> a.file.at]]
              /\ Enter("record")
         ELSE Enter("fail") /\ UNCHANGED asset
  /\ UNCHANGED <<files, active, version, alias, proof, shown, job, scan, del, budget>>

\* RecordPreparedVerification, which does not take s.mu.
PrepareRecord ==
  /\ prep.pc = "record"
  /\ IF /\ disk[Target] = prep.out /\ Related
        /\ asset[Target].rec = prep.rec /\ asset[Target].src = prep.src
        /\ version[prep.rec] = prep.src
     THEN /\ proof' = [proof EXCEPT ![Target] =
               [rec |-> prep.rec, src |-> prep.src, file |-> prep.out, valid |-> TRUE]]
          /\ asset' = [asset EXCEPT ![Target].status = "verified"]
          /\ Enter("verify")
     ELSE Enter("fail") /\ UNCHANGED <<proof, asset>>
  /\ UNCHANGED <<files, active, version, alias, shown, job, scan, del, budget>>

PrepareFinish ==
  /\ prep.pc = "verify"
  /\ IF Verified(Target, prep.rec, prep.src, prep.out) /\ EntryOf(Src, prep.src)
     THEN Record(Key, "ready", prep.out) /\ prep' = NoPrep
     ELSE Enter("fail") /\ UNCHANGED job
  /\ UNCHANGED <<files, active, tables, shown, scan, del, budget>>

PrepareFail ==
  /\ prep.pc = "fail"
  /\ IF prep.candidate THEN Invalidate(Target) ELSE UNCHANGED <<proof, asset>>
  /\ Record(Key, "stopped", NoFile)
  /\ prep' = NoPrep
  /\ UNCHANGED <<files, active, version, alias, shown, scan, del, budget>>

------------------------------------------------------------------------------
(***************************************************************************)
(* DeleteRecording.  The handler asks for a recording it listed while the  *)
(* status was verified; the rest runs under s.mu.                          *)
(***************************************************************************)
DeleteRequest(r) ==
  /\ del.pc = "idle" /\ status = "verified" /\ r \in Present(alias)
  /\ Spend("deletes")
  /\ del' = [NoDel EXCEPT !.pc = "waiting", !.rec = r, !.src = version[r]]
  /\ UNCHANGED <<files, active, tables, shown, job, scan, prep>>

Plan(r) ==
  [p \in {q \in Paths : alias[q].rec = r /\ alias[q].present} |-> alias[p].file]
InactiveSkipped(plan) == TRUE          \* mutant: no test of the active sources
Inactive(plan) == DOMAIN plan \cap active = {}
AsPlanned(plan, p) == Inactive(plan) /\ disk[p] = plan[p]

DeletePlan ==
  /\ del.pc = "waiting" /\ ~Locked
  /\ LET plan == Plan(del.rec)
     IN  del' = IF /\ DOMAIN plan # {} /\ version[del.rec] = del.src
                   /\ \A p \in DOMAIN plan : AsPlanned(plan, p)
                THEN [del EXCEPT !.pc = "check", !.plan = plan, !.left = DOMAIN plan]
                ELSE NoDel
  /\ UNCHANGED <<files, active, tables, shown, job, scan, prep, budget>>

Victim == First(del.left)

DeleteCheck ==
  /\ del.pc = "check"
  /\ del' = [del EXCEPT !.pc = IF AsPlanned(del.plan, Victim) THEN "capture" ELSE "finish"]
  /\ UNCHANGED <<files, active, tables, shown, job, scan, prep, budget>>

\* removePinnedFile under withInactiveSources: rename into the hidden directory,
DeleteCapture ==
  /\ del.pc = "capture"
  /\ IF Inactive(del.plan) /\ disk[Victim] # NoFile
     THEN /\ del' = [del EXCEPT !.pc = "judge", !.held = disk[Victim]]
          /\ disk' = [disk EXCEPT ![Victim] = NoFile]
     ELSE del' = [del EXCEPT !.pc = "finish"] /\ UNCHANGED disk
  /\ UNCHANGED <<side, quarantine, rename, writing, clock, kept, active, tables, shown, job,
                 scan, prep, budget>>

\* what was captured is what is judged,
ApprovedByCheck == TRUE                \* mutant: the check of the name is trusted
Approved        == del.held = del.plan[Victim]
\* and a file given back never replaces one that came in the meantime.
GivenBack     == IF disk[Victim] = NoFile
                 THEN [disk EXCEPT ![Victim] = del.held] ELSE disk
Unreturned == IF disk[Victim] = NoFile THEN {} ELSE {del.held}

DeleteJudge ==
  /\ del.pc = "judge"
  /\ IF Approved
     THEN /\ del' = [del EXCEPT !.pc = "record", !.held = NoFile]
          /\ UNCHANGED <<disk, quarantine>>
     ELSE /\ del' = [del EXCEPT !.pc = "finish", !.held = NoFile]
          /\ disk' = GivenBack
          /\ quarantine' = quarantine \cup Unreturned
  /\ kept' = IF del.held = del.plan[Victim] THEN kept \ {del.held.id} ELSE kept
  /\ UNCHANGED <<side, rename, writing, clock, active, tables, shown, job, scan, prep, budget>>

DeleteRecord ==
  /\ del.pc = "record"
  /\ LET p == Victim
         Of(row) == row[p].rec = del.rec /\ row[p].src = del.src
     IN  /\ alias' = IF alias[p].rec = del.rec
                     THEN [alias EXCEPT ![p].present = FALSE] ELSE alias
         /\ asset' = IF Of(asset)
                     THEN [asset EXCEPT ![p].status = "missing", ![p].at = 0] ELSE asset
         /\ proof' = IF Of(proof) THEN [proof EXCEPT ![p].valid = FALSE] ELSE proof
  /\ del' = [del EXCEPT !.pc = IF del.left = {Victim} THEN "finish" ELSE "check",
                        !.left = @ \ {Victim}]
  /\ UNCHANGED <<files, active, version, shown, job, scan, prep, budget>>

\* The transaction fails: the file has gone, and the tables do not know.
DeleteUnrecorded ==
  /\ del.pc = "record"
  /\ del' = [del EXCEPT !.pc = "finish", !.left = @ \ {Victim}]
  /\ UNCHANGED <<files, active, tables, shown, job, scan, prep, budget>>

\* The deferred function, and s.mu is released.
StatusAfterSuccess == IF del.left = {} THEN "pending" ELSE status  \* mutant
StatusAfter        == IF del.left # DOMAIN del.plan THEN "pending" ELSE status
DeleteFinish ==
  /\ del.pc = "finish"
  /\ status' = StatusAfter
  /\ del' = NoDel
  /\ UNCHANGED <<files, active, tables, stats, fresh, job, scan, prep, budget>>

------------------------------------------------------------------------------
\* The process dies and starts again: ResetRunningTasks requeues the jobs.
Crash ==
  /\ Spend("faults")
  /\ active' = {} /\ writing' = 0 /\ rename' = NoRename
  /\ scan' = NoScan /\ prep' = NoPrep /\ del' = NoDel
  /\ quarantine' = quarantine \cup ({del.held} \ {NoFile})
  /\ fresh' = FALSE
  /\ job' = [k \in DOMAIN job |->
               IF job[k].status = "running" THEN [job[k] EXCEPT !.status = "stopped"]
               ELSE job[k]]
  /\ UNCHANGED <<disk, side, clock, kept, tables, status, stats>>

Outside ==
  \/ \E p, q \in Paths : RenameCheck(p, q)
  \/ Rename
  \/ \E p \in Paths : Remove(p)
  \/ BeginRecording(Src) \/ RecordOpen(Src) \/ RecordWrite \/ EndRecording(Src)
Scanning  == LoopScan \/ PrepareScan \/ ScanFile \/ ScanRefused \/ Apply
Preparing ==
  \/ PrepareEnter \/ PrepareReuse \/ PrepareTranscode \/ PreparePublish
  \/ PrepareRefused \/ PrepareRecheck \/ PrepareRegister \/ PrepareRecord
  \/ PrepareFinish \/ PrepareFail
Deleting ==
  \/ DeletePlan \/ DeleteCheck \/ DeleteCapture \/ DeleteJudge \/ DeleteRecord
  \/ DeleteUnrecorded \/ DeleteFinish

Next ==
  \/ Outside \/ Scanning \/ Preparing \/ Deleting \/ Crash \/ PrepareBegin
  \/ \E r \in 1..Len(version) : DeleteRequest(r)

Spec == Init /\ [][Next]_vars

------------------------------------------------------------------------------
Stamps == [source : Times, target : Times]
Renames == {NoRename} \cup (Paths \X Paths)
Plans  == UNION {[S -> File] : S \in SUBSET Paths}

TypeOK ==
  /\ disk \in [Paths -> File] /\ side \in Stamps
  /\ quarantine \subseteq File \ {NoFile} /\ active \subseteq Paths
  /\ rename \in Renames /\ writing \in Times
  /\ version \in Seq(File)
  /\ alias \in [Paths -> [rec : 0..Len(version), file : File, present : BOOLEAN]]
  /\ asset \in [Paths -> [rec : 0..Len(version), src : File, at : Times,
                          status : {"none", "verified", "unverified", "missing"}]]
  /\ proof \in [Paths -> [rec : 0..Len(version), src : File, file : File, valid : BOOLEAN]]
  /\ status \in {"pending", "verified", "unavailable"}
  /\ stats \subseteq [rec : 1..Len(version), file : File, present : {TRUE}]
  /\ DOMAIN job \subseteq (1..Len(version)) \X File
  /\ \A k \in DOMAIN job :
       job[k] \in [status : {"running", "ready", "stopped"}, out : File]
  /\ scan \in [by : {"none", "loop", "prepare"}, todo : SUBSET Paths,
               seen : [Paths -> File], manifest : Stamps, clean : BOOLEAN]
  /\ prep \in [pc : {"idle", "enter", "reuse", "transcode", "publish", "recheck", "reconcile",
                     "register", "record", "verify", "fail"},
               src : File, rec : 0..Len(version), out : File, candidate : BOOLEAN]
  /\ del \in [pc : {"idle", "waiting", "check", "capture", "judge", "record", "finish"},
              rec : 0..Len(version), src : File, plan : Plans, left : SUBSET Paths,
              held : File]
  /\ clock \in Times /\ fresh \in BOOLEAN /\ kept \subseteq Times \ {0}

(***************************************************************************)
(* A deletion destroys only the version that is registered for the         *)
(* recording the client named: every file that came into being and that    *)
(* nobody removed is under some name, in the hands of a deletion, or in a  *)
(* quarantine directory -- whoever renames, swaps, creates or writes files *)
(* while the deletion is between its check, its capture and its judgement, *)
(* and wherever the process dies (delete.go, delete_pinned_unix.go).  This *)
(* is said of deletions only: the file manager's own rename replaces a     *)
(* file that came to the new name after it had looked (handler.go:2674),   *)
(* and what it replaced is taken off `kept' like a file removed by name.   *)
(***************************************************************************)
KeptSomewhere ==
  \A i \in kept : \/ \E p \in Paths : disk[p].id = i
                  \/ del.held.id = i
                  \/ \E f \in quarantine : f.id = i

(***************************************************************************)
(* A file is never captured from the name a recorder is writing to, even   *)
(* if the recording began after the deletion had checked every name        *)
(* (withInactiveSources keeps activeSources locked over the removal).      *)
(***************************************************************************)
RecordingUntouched ==
  del.pc = "judge" => DOMAIN del.plan \cap active = {}

(***************************************************************************)
(* Rooms() shows the counts only under status 'verified': whenever no      *)
(* deletion is at work they then count and sum exactly the files the       *)
(* aliases hold present, also after a deletion that stopped half-way.  A   *)
(* process that has not reconciled yet is excepted: a crash in a deletion  *)
(* leaves the counts of before it until the first scan.                    *)
(***************************************************************************)
StatsTrusted ==
  status = "verified" /\ fresh /\ del.pc \in {"idle", "waiting"} => stats = Counted(alias)

(***************************************************************************)
(* A file the catalog knows keeps its recording through renames and swaps, *)
(* whatever order the scan meets the names in (store.go:125, the map of    *)
(* old identities), unless a manifest gives it to its source's recording.  *)
(***************************************************************************)
IdentityKeepsRecording ==
  [][\A p, q \in Paths :
       /\ alias'[p].present /\ alias[q].rec # 0 /\ alias[q].file.id = alias'[p].file.id
       => \/ \E x \in Paths : alias[x].file.id = alias[q].file.id /\ alias[x].rec = alias'[p].rec
          \/ p = Prod /\ scan.manifest # NoSide]_vars

Reconciled == /\ scan.by # "none" /\ scan.todo = {} /\ scan'.by = "none"
              /\ status' = "verified" /\ fresh'

\* What VerifyPlaybackFile accepts for a prepared product at name p, HLSSource included.
Serves(p) ==
  LET q == proof[p]
      sources == {x \in Paths : alias[x].present /\ alias[x].rec = q.rec /\ alias[x].file = q.src}
  IN  /\ q.rec # 0 /\ Verified(p, q.rec, q.src, q.file)
      /\ alias[p].present /\ alias[p].rec = q.rec /\ alias[p].file = q.file
      /\ p \notin active
      /\ sources # {} => \E x \in sources : EntryOf(x, q.src)

(***************************************************************************)
(* Reconciling does not withdraw a product that can be played, if nothing  *)
(* changed on disk during the scan: source and product share one recording *)
(* whose version each of them writes, and the product's row is marked      *)
(* unverified and verified again in one transaction (Store.apply).         *)
(*                                                                         *)
(* What it depends on is that the catalog knows the source as one file of  *)
(* one recording.  The rows of its identity must agree on the recording    *)
(* (store.go:125 follows the last of them).  A product needs its manifest, *)
(* and the source's name must be known for the source: another file seen   *)
(* there gives the recording a version made of that file's identity        *)
(* (store.go:208), and a recorder that has opened the name must have found *)
(* there what the catalog knows.  A source that is its own product has no  *)
(* manifest, so no other file of its recording may be in the folder.       *)
(***************************************************************************)
Undivided(q) ==
  \A x \in Paths : alias[x].rec # 0 /\ alias[x].file.id = q.src.id => alias[x].rec = q.rec
ManifestHolds ==
  /\ Loaded /\ alias[Src].file.at = side.source
  /\ Src \in active => (alias[Src].present <=> disk[Src] # NoFile)
OnlyFile(q) ==
  \A x \in Paths \ {Src} : disk[x] # NoFile =>
    \A y \in Paths : alias[y].rec = q.rec => alias[y].file.id # disk[x].id
SourceKnown(p) ==
  /\ Undivided(proof[p])
  /\ IF p = Prod THEN ManifestHolds ELSE Loaded \/ OnlyFile(proof[p])
ScanKeepsServed ==
  [][Reconciled /\ scan.clean
     => \A p \in Paths : Serves(p) /\ SourceKnown(p) => Serves(p)']_vars

(***************************************************************************)
(* A scan during which the disk stood still leaves the catalog equal to    *)
(* the disk, whatever deletions that stopped half-way, refused scans and   *)
(* crashes left in its tables (Store.Reconcile).                           *)
(***************************************************************************)
InStep ==
  \A p \in Paths : /\ alias[p].present <=> disk[p] # NoFile
                   /\ alias[p].present => alias[p].file = disk[p]
QuietScanCatchesUp ==
  [][Reconciled /\ scan.clean
     => InStep']_vars
==============================================================================
