------------------------ MODULE CatalogServing_proof ------------------------
(***************************************************************************)
(* Why a scan keeps what is served (ScanKeepsServed of RecordingCatalog),  *)
(* for any number of writes, renames, deletions, preparations and faults.  *)
(* Rows, proofs and the stage refer to files by identity and time of the   *)
(* last write, manifests only by the time: what the proof needs is that a  *)
(* time stands for one file, and a manifest for one proof.                 *)
(***************************************************************************)
EXTENDS RecordingCatalog_proof

-----------------------------------------------------------------------------
(* The invariant. *)

\* Every file somebody has a record of, or holds.
Known ==
  {disk[p] : p \in Paths} \cup {alias[p].file : p \in Paths} \cup {scan.seen[p] : p \in Paths}
  \cup {proof[p].src : p \in Paths} \cup {proof[p].file : p \in Paths}
  \cup {prep.src, prep.out, del.held, NoFile}

\* No two files were last written at one time.
OneTime ==
  \A f, g \in Known : f.at <= clock /\ (f.at = g.at => f = g)

\* The source of a manifest has a row, and a product was proved under its manifest.
Manifested ==
  /\ side # NoSide => alias[Src].rec # 0
  /\ scan.manifest # NoSide => alias[Src].rec # 0
  /\ proof[Prod].rec # 0 =>
       /\ proof[Prod].file # NoFile
       /\ side.target = proof[Prod].file.at => side.source = proof[Prod].src.at

\* A source that can be played as it is is its own product.
Checked == {"recheck", "reconcile", "register", "record", "verify"}
Proved ==
  /\ proof[Src].file = proof[Src].src
  /\ proof[Other].rec = 0
  /\ prep.pc = "publish" => Target = Prod
  /\ prep.pc \in Checked /\ Target = Src => prep.out = prep.src

\* Rows that are present are of files, and only sources are recorded.
Placed ==
  /\ \A p \in Paths : alias[p].present => alias[p].file # NoFile
  /\ active \subseteq {Src}

\* A scan on a disk that stood still has seen the manifest if it holds.
SeenManifest ==
  scan.by # "none" /\ scan.clean =>
    /\ \A p \in scan.todo : scan.seen[p] = NoFile
    /\ scan.manifest = IF scan.seen[Prod] # NoFile /\ Loaded THEN side ELSE NoSide

-----------------------------------------------------------------------------
(* Files and times. *)

LEMMA KnownAre ==
  /\ \A p \in Paths : /\ disk[p] \in Known /\ alias[p].file \in Known /\ scan.seen[p] \in Known
                      /\ proof[p].src \in Known /\ proof[p].file \in Known
  /\ prep.src \in Known /\ prep.out \in Known /\ del.held \in Known /\ NoFile \in Known
BY DEF Known

LEMMA KnownBecome ==
  ASSUME NEW S,
         \A p \in Paths : disk'[p] \in S,
         \A p \in Paths : alias'[p].file \in S,
         \A p \in Paths : scan'.seen[p] \in S,
         \A p \in Paths : proof'[p].src \in S /\ proof'[p].file \in S,
         prep'.src \in S, prep'.out \in S, del'.held \in S, NoFile \in S
  PROVE  Known' \subseteq S
BY DEF Known

LEMMA KnownType ==
  ASSUME Good
  PROVE  /\ Known \subseteq File /\ clock \in Nat
         /\ \A f \in Known : f.at \in Nat
<1>1. clock \in Nat /\ \A f \in File : f.at \in Nat
  BY CatalogAssumption, FileType DEF Good, TypeOK, Times
<1>2. Known \subseteq File
  BY Parts, FileType DEF Good, Known, Names0, Scans, Proofs, Stages, Deletions
<1>3. QED BY <1>1, <1>2

\* A file that is new has a time that is.
LEMMA OneTimeStep ==
  ASSUME Good, OneTime, NEW new \in File,
         \/ Known' \subseteq Known /\ clock' = clock
         \/ Known' \subseteq Known \cup {new} /\ clock' = clock + 1 /\ new.at = clock'
  PROVE  OneTime'
<1>1. /\ \A f \in Known : f.at \in Nat /\ f.at <= clock
      /\ clock \in Nat
  BY KnownType DEF OneTime
<1>2. QED BY <1>1 DEF OneTime

\* Who touches proofs and rows: only RecordPreparedVerification makes a proof, and no deletion
\* moves a row.
LEMMA ProofsKept ==
  ASSUME Good, Preparing \/ PrepareBegin, ~PrepareRecord
  PROVE  \A p \in Paths : /\ proof'[p].rec = proof[p].rec /\ proof'[p].src = proof[p].src
                          /\ proof'[p].file = proof[p].file
<1> USE Parts DEF Good
<1>1. proof' = proof \/ \E x : proof' = [proof EXCEPT ![x].valid = FALSE]
  <2>1. CASE PrepareReuse \/ PrepareFail
    BY <2>1 DEF PrepareReuse, PrepareFail, Invalidate
  <2>2. CASE ~PrepareReuse /\ ~PrepareFail
    BY <2>2 DEF Preparing, PrepareBegin, PrepareEnter, PrepareTranscode, PreparePublish,
      PrepareRefused, PrepareRecheck, PrepareRegister, PrepareFinish, tables
  <2>3. QED BY <2>1, <2>2
<1> SUFFICES ASSUME NEW p \in Paths
             PROVE  /\ proof'[p].rec = proof[p].rec /\ proof'[p].src = proof[p].src
                    /\ proof'[p].file = proof[p].file
  OBVIOUS
<1>2. ASSUME NEW x, proof' = [proof EXCEPT ![x].valid = FALSE]
      PROVE  /\ proof'[p].rec = proof[p].rec /\ proof'[p].src = proof[p].src
             /\ proof'[p].file = proof[p].file
  <2>1. proof[p] \in Proofs
    OBVIOUS
  <2>2. proof'[p] \in {proof[p], [proof[p] EXCEPT !.valid = FALSE]}
    BY <1>2
  <2>3. QED BY <2>1, <2>2 DEF Proofs
<1>3. CASE proof' = proof
  BY <1>3
<1>4. CASE \E x : proof' = [proof EXCEPT ![x].valid = FALSE]
  BY <1>2, <1>4
<1>5. QED BY <1>1, <1>3, <1>4

LEMMA DeletionKeeps ==
  ASSUME Good, Deleting \/ \E r \in 1..Len(version) : DeleteRequest(r)
  PROVE  \A p \in Paths :
           /\ proof'[p].rec = proof[p].rec /\ proof'[p].src = proof[p].src
           /\ proof'[p].file = proof[p].file
           /\ alias'[p].rec = alias[p].rec /\ alias'[p].file = alias[p].file
           /\ alias'[p].present => alias[p].present
<1> USE Parts DEF Good
<1>1. CASE DeleteRecord
  <2>1. /\ proof' = proof \/ proof' = [proof EXCEPT ![Victim].valid = FALSE]
        /\ alias' = alias \/ alias' = [alias EXCEPT ![Victim].present = FALSE]
    BY <1>1 DEF DeleteRecord
  <2>2. ASSUME NEW p \in Paths
        PROVE  /\ proof'[p] \in {proof[p], [proof[p] EXCEPT !.valid = FALSE]}
               /\ alias'[p] \in {alias[p], [alias[p] EXCEPT !.present = FALSE]}
               /\ proof[p] \in Proofs /\ alias[p] \in Names0
    BY <2>1
  <2>3. QED BY <2>2 DEF Proofs, Names0
<1>2. CASE ~DeleteRecord
  BY <1>2 DEF Deleting, DeletePlan, DeleteCheck, DeleteCapture, DeleteJudge, DeleteUnrecorded,
    DeleteFinish, DeleteRequest, tables
<1>3. QED BY <1>1, <1>2

\* Who brings files, and from where.
LEMMA OutsideKnown ==
  ASSUME Good, OneTime, Outside
  PROVE  OneTime'
<1>0. TypeOK /\ disk \in [Paths -> File] /\ del.held \in File
  BY Parts DEF Good, Deletions
<1>1. /\ UNCHANGED <<alias, proof, prep>> /\ scan'.seen = scan.seen
      /\ UNCHANGED del \/ RecordWrite
  <2>1. /\ UNCHANGED <<alias, proof, prep>>
        /\ UNCHANGED scan \/ Disturb
        /\ UNCHANGED del \/ RecordWrite
    BY OutsideFrame DEF tables
  <2>2. scan \in Scans
    BY Parts DEF Good
  <2>3. scan'.seen = scan.seen
    BY <2>1, <2>2 DEF Disturb, Scans
  <2>4. QED BY <2>1, <2>3
<1>2. ASSUME NEW S, \A p \in Paths : disk'[p] \in S, del'.held \in S, Known \subseteq S
      PROVE  Known' \subseteq S
  BY <1>1, <1>2, KnownAre, KnownBecome
<1>3. ASSUME NEW new \in File, clock' = clock + 1, new.at = clock',
             \A p \in Paths : disk'[p] \in Known \cup {new}, del'.held \in Known \cup {new}
      PROVE  OneTime'
  <2>1. Known' \subseteq Known \cup {new}
    BY <1>2, <1>3
  <2>2. QED BY <1>3, <2>1, OneTimeStep
<1>4. CASE RecordOpen(Src)
  <2> DEFINE new == IF disk[Src] = NoFile THEN [id |-> clock + 1, at |-> clock + 1]
                    ELSE [disk[Src] EXCEPT !.at = clock + 1]
  <2>1. clock' = clock + 1 /\ disk' = [disk EXCEPT ![Src] = new] /\ UNCHANGED del
    BY <1>4, <1>1 DEF RecordOpen, RecordWrite
  <2>2. new \in File /\ new.at = clock'
    <3>1. clock' \in Times
      BY <1>0, <1>4, CatalogAssumption DEF RecordOpen, TypeOK, Times
    <3>2. disk[Src] \in File
      BY <1>0, Names
    <3>3. QED BY <2>1, <3>1, <3>2, FileType DEF File
  <2> HIDE DEF new
  <2>3. \A p \in Paths : disk'[p] \in Known \cup {new}
    BY <1>0, <2>1, KnownAre
  <2>4. del'.held \in Known \cup {new}
    BY <2>1, KnownAre
  <2>5. QED BY <1>3, <2>1, <2>2, <2>3, <2>4
<1>5. CASE RecordWrite
  <2> DEFINE new == [id |-> writing, at |-> clock + 1]
  <2>1. clock' = clock + 1 /\ clock + 1 \in Times /\ writing \in Times
    BY <1>0, <1>5, CatalogAssumption DEF RecordWrite, TypeOK, Times
  <2>2. new \in File /\ new.at = clock'
    BY <2>1, FileType
  <2>3. ASSUME NEW f \in File PROVE Written(f) \in {f, new}
    BY DEF Written, File
  <2> HIDE DEF new
  <2>4. ASSUME NEW p \in Paths PROVE disk'[p] \in Known \cup {new}
    <3>1. disk'[p] = Written(disk[p]) /\ disk[p] \in File /\ disk[p] \in Known
      BY <1>0, <1>5, KnownAre DEF RecordWrite
    <3>2. QED BY <2>3, <3>1
  <2>5. del'.held \in Known \cup {new}
    <3>1. del'.held = Written(del.held) /\ del.held \in Known
      BY <1>0, <1>5, WriteStep, KnownAre
    <3>2. QED BY <1>0, <2>3, <3>1
  <2>6. QED BY <1>3, <2>1, <2>2, <2>4, <2>5
<1>6. CASE ~RecordOpen(Src) /\ ~RecordWrite
  <2>1. clock' = clock /\ UNCHANGED del
    BY <1>1, <1>6 DEF Outside, RenameCheck, Rename, Remove, BeginRecording, EndRecording, files
  <2>2. \A p \in Paths : disk'[p] \in Known
    <3>1. CASE Rename
      <4>1. rename[1] \in Paths /\ rename[2] \in Paths
        BY <1>0, <3>1, RenameType DEF Rename, TypeOK
      <4>2. \/ disk' = disk
            \/ disk' = [disk EXCEPT ![rename[2]] = disk[rename[1]], ![rename[1]] = NoFile]
        BY <3>1 DEF Rename
      <4>3. QED BY <1>0, <4>1, <4>2, KnownAre
    <3>2. CASE ~Rename
      <4>1. disk' = disk \/ \E p \in Paths : disk' = [disk EXCEPT ![p] = NoFile]
        BY <1>6, <3>2 DEF Outside, RenameCheck, Remove, BeginRecording, EndRecording, files
      <4>2. QED BY <1>0, <4>1, KnownAre
    <3>3. QED BY <3>1, <3>2
  <2>3. Known' \subseteq Known
    BY <1>2, <2>1, <2>2, KnownAre
  <2>4. QED BY <2>1, <2>3, FileType, OneTimeStep
<1>7. QED BY <1>4, <1>5, <1>6

LEMMA ScanningKnown ==
  ASSUME Good, OneTime, Manifested, Scanning
  PROVE  OneTime'
<1> USE Parts DEF Good
<1>1. /\ UNCHANGED <<disk, clock, proof, del>>
  BY ScanningFrame DEF files
<1>2. prep'.src = prep.src /\ prep'.out = prep.out
  BY DEF Scanning, LoopScan, PrepareScan, ScanBegin, ScanFile, ScanRefused, Apply, Stages
<1>3. \A p \in Paths : NoScan.seen[p] = NoFile
  BY DEF NoScan
<1>4. \A p \in Paths : scan'.seen[p] \in Known
  <2>1. CASE ScanFile
    <3>1. PICK x \in Paths : \E m : scan' = [scan EXCEPT !.todo = @ \ {x}, !.seen[x] = disk[x],
                                                         !.manifest = m]
      <4> DEFINE x == First(scan.todo)
      <4>1. x \in Paths
        BY <2>1, Names DEF ScanFile, Scans
      <4>2. \E m : scan' = [scan EXCEPT !.todo = @ \ {x}, !.seen[x] = disk[x], !.manifest = m]
        BY <2>1 DEF ScanFile
      <4>3. QED BY <4>1, <4>2
    <3>2. scan'.seen = [scan.seen EXCEPT ![x] = disk[x]]
      BY <3>1 DEF Scans
    <3>3. QED BY <3>1, <3>2, KnownAre DEF Scans
  <2>2. CASE ScanRefused \/ Apply
    BY <1>3, <2>2, KnownAre DEF ScanRefused, Apply
  <2>3. CASE LoopScan \/ PrepareScan
    <3>1. scan'.seen = NoScan.seen
      BY <2>3 DEF LoopScan, PrepareScan, ScanBegin, NoScan
    <3>2. QED BY <1>3, <3>1, KnownAre
  <2>4. QED BY <2>1, <2>2, <2>3 DEF Scanning
<1>5. \A p \in Paths : alias'[p].file \in Known
  <2>1. CASE Apply
    <3> SUFFICES ASSUME NEW p \in Paths PROVE AliasJoined[p].file \in Known
      BY <2>1 DEF Apply
    <3>1. CASE p \in Seen
      BY <3>1, JoinedRows, KnownAre
    <3>2. CASE p \notin Seen
      <4>1. AliasSeen[p] = [alias[p] EXCEPT !.present = FALSE]
        BY <3>2 DEF AliasSeen
      <4>2. AliasSeen[p].file = alias[p].file /\ AliasSeen[p].rec = alias[p].rec
        BY <4>1 DEF Names0
      <4>3. CASE ~Joins
        BY <4>2, <4>3, KnownAre DEF AliasJoined
      <4>4. CASE Joins
        <5>1. alias[Src].rec # 0
          BY <4>4 DEF Joins, Manifested
        <5>2. p # Prod
          BY <3>2, <4>4, Names DEF Joins, Numbered, Seen
        <5>3. AliasJoined[p] = AliasSeen[p]
          <6>1. AliasSeen \in [Paths -> [rec : 0..Rows, file : File, present : BOOLEAN]]
            BY NameRows
          <6>2. p = Src => AliasSeen[Src].rec # 0
            BY <4>2, <5>1
          <6>3. QED BY <4>4, <5>2, <6>1, <6>2, CatalogAssumption DEF AliasJoined
        <5>4. QED BY <4>2, <5>3, KnownAre
      <4>5. QED BY <4>3, <4>4
    <3>3. QED BY <3>1, <3>2
  <2>2. CASE ~Apply
    BY <2>2, KnownAre DEF Scanning, LoopScan, PrepareScan, ScanBegin, ScanFile, ScanRefused, tables
  <2>3. QED BY <2>1, <2>2
<1>6. Known' \subseteq Known
  BY <1>1, <1>2, <1>4, <1>5, KnownAre, KnownBecome
<1>7. QED BY <1>1, <1>6, FileType, OneTimeStep

\* The stage makes one file; what it holds and proves are files of the folder.
LEMMA PreparingKnown ==
  ASSUME Good, OneTime, Preparing \/ PrepareBegin
  PROVE  OneTime'
<1> USE Parts DEF Good
<1> DEFINE new == [id |-> clock + 1, at |-> clock + 1]
<1>1. UNCHANGED <<alias, del>> /\ scan'.seen = scan.seen
  BY PreparingFrame DEF PreparePublish, Disturb, Scans
<1>2. ASSUME NEW S, Known \subseteq S, \A p \in Paths : disk'[p] \in S,
             prep'.src \in S, prep'.out \in S,
             \A p \in Paths : proof'[p].src \in S /\ proof'[p].file \in S
      PROVE  Known' \subseteq S
  BY <1>1, <1>2, KnownAre, KnownBecome
<1>3. CASE PreparePublish
  <2>1. /\ clock' = clock + 1 /\ disk' = [disk EXCEPT ![Prod] = new] /\ proof' = proof
        /\ prep' = [prep EXCEPT !.pc = "recheck", !.out = new]
    BY <1>3 DEF PreparePublish, tables
  <2>2. new \in File /\ new.at = clock'
    <3>1. clock' \in Times
      BY <1>3, CatalogAssumption DEF PreparePublish, TypeOK, Times
    <3>2. QED BY <2>1, <3>1, FileType
  <2> HIDE DEF new
  <2>3. Known' \subseteq Known \cup {new}
    <3> DEFINE S == Known \cup {new}
    <3>1. Known \subseteq S /\ new \in S
      OBVIOUS
    <3>2. \A p \in Paths : disk'[p] \in S /\ proof'[p].src \in S /\ proof'[p].file \in S
      BY <2>1, KnownAre
    <3>3. prep'.src \in S /\ prep'.out \in S
      BY <2>1, KnownAre DEF Stages
    <3> HIDE DEF S
    <3>4. Known' \subseteq S
      BY <1>2, <3>1, <3>2, <3>3
    <3>5. QED BY <3>4 DEF S
  <2>4. QED BY <2>1, <2>2, <2>3, OneTimeStep
<1>4. CASE ~PreparePublish
  <2>1. UNCHANGED <<disk, clock>>
    BY <1>4, PreparingFrame DEF files
  <2>2. prep'.src \in Known /\ prep'.out \in Known
    <3>1. Src \in Paths /\ Prod \in Paths
      BY Names
    <3>2. NoPrep.src = NoFile /\ NoPrep.out = NoFile
      BY DEF NoPrep
    <3>3. CASE PrepareBegin
      <4>1. prep' = [NoPrep EXCEPT !.pc = "enter", !.src = disk[Src]]
        BY <3>3 DEF PrepareBegin
      <4>2. prep'.src = disk[Src] /\ prep'.out = NoFile
        BY <4>1 DEF NoPrep
      <4>3. QED BY <3>1, <4>2, KnownAre
    <3>4. CASE prep' = NoPrep
      BY <3>2, <3>4, KnownAre
    <3>5. ASSUME prep'.src = prep.src, prep'.out \in {prep.out, prep.src, disk[Prod]}
          PROVE  prep'.src \in Known /\ prep'.out \in Known
      BY <3>1, <3>5, KnownAre
    <3>6. CASE PrepareEnter \/ PrepareReuse
      BY <3>4, <3>5, <3>6 DEF PrepareEnter, PrepareReuse, Stages
    <3>7. CASE PrepareTranscode
      BY <3>5, <3>7 DEF PrepareTranscode, Enter, Stages
    <3>8. CASE PrepareRefused \/ PrepareRecheck \/ PrepareRegister \/ PrepareRecord
      BY <3>5, <3>8 DEF PrepareRefused, PrepareRecheck, PrepareRegister, PrepareRecord, Enter,
        Stages
    <3>9. CASE PrepareFinish \/ PrepareFail
      BY <3>4, <3>5, <3>9 DEF PrepareFinish, PrepareFail, Enter, Stages
    <3>10. QED BY <1>4, <3>3, <3>6, <3>7, <3>8, <3>9 DEF Preparing
  <2>3. \A p \in Paths : proof'[p].src \in Known /\ proof'[p].file \in Known
    <3>1. CASE PrepareRecord
      <4>1. proof' = proof \/ proof' = [proof EXCEPT ![Target] =
               [rec |-> prep.rec, src |-> prep.src, file |-> prep.out, valid |-> TRUE]]
        BY <3>1 DEF PrepareRecord
      <4>2. QED BY <4>1, KnownAre
    <3>2. CASE ~PrepareRecord
      BY <1>4, <3>2, ProofsKept, KnownAre
    <3>3. QED BY <3>1, <3>2
  <2>4. Known' \subseteq Known
    BY <1>2, <2>1, <2>2, <2>3, KnownAre
  <2>5. QED BY <2>1, <2>4, FileType, OneTimeStep
<1>5. QED BY <1>3, <1>4

LEMMA DeletingKnown ==
  ASSUME Good, OneTime, Deleting \/ \E r \in 1..Len(version) : DeleteRequest(r)
  PROVE  OneTime'
<1> USE Parts DEF Good
<1>1. UNCHANGED <<scan, prep, clock>>
  BY DeletingFrame
<1>2. \A p \in Paths : /\ proof'[p].src = proof[p].src /\ proof'[p].file = proof[p].file
                       /\ alias'[p].file = alias[p].file
  BY DeletionKeeps
<1>3. del.pc \in {"capture", "judge"} => Victim \in Paths
  BY Names DEF Identified, Victim, Deletions
<1>4. \A p \in Paths : disk'[p] \in Known
  <2>1. disk' = disk \/ DeleteCapture \/ DeleteJudge
    BY DeletingFrame
  <2>2. CASE DeleteCapture
    <3>1. disk' \in {disk, [disk EXCEPT ![Victim] = NoFile]}
      BY <2>2 DEF DeleteCapture
    <3>2. QED BY <3>1, KnownAre
  <2>3. CASE DeleteJudge
    <3>1. disk' \in {disk, [disk EXCEPT ![Victim] = del.held]}
      BY <2>3 DEF DeleteJudge, GivenBack
    <3>2. QED BY <3>1, KnownAre
  <2>4. QED BY <2>1, <2>2, <2>3, KnownAre
<1>5. del'.held \in Known
  <2>1. ASSUME NEW r \in 1..Len(version), DeleteRequest(r) PROVE del'.held = NoFile
    BY <2>1 DEF DeleteRequest, NoDel
  <2>2. CASE DeletePlan \/ DeleteFinish
    <3>1. del' = NoDel \/ \E plan, left : del' = [del EXCEPT !.pc = "check", !.plan = plan,
                                                        !.left = left]
      BY <2>2 DEF DeletePlan, DeleteFinish
    <3>2. ASSUME NEW plan, NEW left,
                 del' = [del EXCEPT !.pc = "check", !.plan = plan, !.left = left]
          PROVE  del'.held = del.held
      BY <3>2 DEF Deletions
    <3>3. NoDel.held = NoFile
      BY DEF NoDel
    <3>4. QED BY <3>1, <3>2, <3>3, KnownAre
  <2>3. CASE DeleteCapture
    BY <1>3, <2>3, KnownAre DEF DeleteCapture, Deletions
  <2>4. CASE DeleteCheck \/ DeleteJudge \/ DeleteRecord \/ DeleteUnrecorded
    BY <2>4, KnownAre DEF DeleteCheck, DeleteJudge, DeleteRecord, DeleteUnrecorded, Deletions
  <2>5. QED BY <2>1, <2>2, <2>3, <2>4, KnownAre DEF Deleting
<1>6. Known' \subseteq Known
  BY <1>1, <1>2, <1>4, <1>5, KnownAre, KnownBecome
<1>7. QED BY <1>1, <1>6, FileType, OneTimeStep

LEMMA OneTimeKeeps ==
  ASSUME Good, OneTime, Manifested, [Next]_vars
  PROVE  OneTime'
<1>1. CASE Crash
  <2>1. /\ UNCHANGED <<disk, clock, alias, proof>>
        /\ scan' = NoScan /\ prep' = NoPrep /\ del' = NoDel
    BY <1>1 DEF Crash, tables
  <2>2. /\ \A p \in Paths : NoScan.seen[p] = NoFile
        /\ NoPrep.src = NoFile /\ NoPrep.out = NoFile /\ NoDel.held = NoFile
    BY DEF NoScan, NoPrep, NoDel
  <2>3. Known' \subseteq Known
    BY <2>1, <2>2, KnownAre, KnownBecome
  <2>4. QED BY <2>1, <2>3, FileType, OneTimeStep
<1>2. CASE UNCHANGED vars
  BY <1>2 DEF vars, OneTime, Known
<1>3. QED
  BY <1>1, <1>2, OutsideKnown, ScanningKnown, PreparingKnown, DeletingKnown DEF Next

-----------------------------------------------------------------------------
(* Manifests, proofs and rows. *)

\* A name that has a row keeps one; a row that is present is of a file.
LEMMA RowsStay ==
  ASSUME Good, Placed, [Next]_vars
  PROVE  /\ alias[Src].rec # 0 => alias'[Src].rec # 0
         /\ \A p \in Paths : alias'[p].present => alias'[p].file # NoFile
<1> USE Parts DEF Good
<1>1. CASE Apply
  <2>1. alias' = AliasJoined
    BY <1>1 DEF Apply
  <2>2. \A p \in Paths : AliasJoined[p].present => AliasJoined[p].file # NoFile
    BY JoinedRows DEF Seen
  <2>3. ASSUME alias[Src].rec # 0 PROVE AliasJoined[Src].rec # 0
    <3>1. CASE Src \in Seen
      BY <3>1, Names, JoinedRows
    <3>2. CASE Src \notin Seen
      <4>1. AliasSeen[Src] = [alias[Src] EXCEPT !.present = FALSE] /\ alias[Src] \in Names0
        BY <3>2, Names DEF AliasSeen
      <4>2. AliasSeen[Src].rec # 0
        BY <2>3, <4>1 DEF Names0
      <4>3. AliasSeen \in [Paths -> [rec : 0..Rows, file : File, present : BOOLEAN]]
        BY NameRows
      <4>4. AliasJoined[Src] = AliasSeen[Src]
        BY <4>2, <4>3, Names, CatalogAssumption DEF AliasJoined
      <4>5. QED BY <4>2, <4>4
    <3>3. QED BY <3>1, <3>2
  <2>4. QED BY <2>1, <2>2, <2>3
<1>2. CASE UNCHANGED alias
  BY <1>2 DEF Placed
<1>3. CASE Deleting \/ \E r \in 1..Len(version) : DeleteRequest(r)
  BY <1>3, DeletionKeeps, Names DEF Placed
<1>4. CASE Outside
  BY <1>2, <1>4, OutsideFrame DEF tables
<1>5. CASE Scanning
  BY <1>1, <1>2, <1>5 DEF Scanning, LoopScan, PrepareScan, ScanBegin, ScanFile, ScanRefused, tables
<1>6. CASE Preparing \/ PrepareBegin
  BY <1>2, <1>6, PreparingFrame
<1>7. CASE Crash \/ UNCHANGED vars
  BY <1>2, <1>7 DEF Crash, vars, tables
<1>8. QED BY <1>3, <1>4, <1>5, <1>6, <1>7 DEF Next

LEMMA ActiveSources ==
  ASSUME active \subseteq {Src}, [Next]_vars
  PROVE  active' \subseteq {Src}
<1>1. CASE Outside
  BY <1>1 DEF Outside, RenameCheck, Rename, Remove, BeginRecording, RecordOpen, RecordWrite,
    EndRecording
<1>2. CASE ~Outside
  BY <1>2, ScanningFrame, PreparingFrame, DeletingFrame DEF Next, Crash, vars
<1>3. QED BY <1>1, <1>2

\* Where manifests come from.
LEMMA SideGoes ==
  ASSUME Good, [Next]_vars
  PROVE  /\ side' \in {side, NoSide} \/ PreparePublish
         /\ scan'.manifest \in {scan.manifest, side, NoSide}
<1> USE Parts DEF Good
<1>1. CASE Outside
  <2>1. side' \in {side, NoSide}
    BY <1>1 DEF Outside, RenameCheck, Rename, Remove, BeginRecording, RecordOpen, RecordWrite,
      EndRecording, SideAfter, files
  <2>2. scan'.manifest = scan.manifest
    BY <1>1, OutsideFrame DEF Disturb, Scans
  <2>3. QED BY <2>1, <2>2
<1>2. CASE Scanning
  <2>1. UNCHANGED <<side, clock>>
    BY <1>2, ScanningFrame DEF files
  <2>2. NoScan.manifest = NoSide
    BY DEF NoScan
  <2>3. CASE ScanFile
    <3> DEFINE p == First(scan.todo)
               m == IF p = Prod /\ Loaded THEN side ELSE scan.manifest
    <3>1. scan' = [scan EXCEPT !.todo = @ \ {p}, !.seen[p] = disk[p], !.manifest = m]
      BY <2>3 DEF ScanFile
    <3> HIDE DEF m, p
    <3>2. scan'.manifest = m
      BY <3>1 DEF Scans
    <3> USE DEF m
    <3>3. QED BY <2>1, <3>2
  <2>4. CASE LoopScan \/ PrepareScan
    <3>1. scan'.manifest = NoSide
      BY <2>2, <2>4 DEF LoopScan, PrepareScan, ScanBegin, NoScan
    <3>2. QED BY <2>1, <3>1
  <2>5. CASE ScanRefused \/ Apply
    BY <2>1, <2>2, <2>5 DEF ScanRefused, Apply
  <2>6. QED BY <1>2, <2>3, <2>4, <2>5 DEF Scanning
<1>3. CASE Preparing \/ PrepareBegin
  BY <1>3, PreparingFrame DEF PreparePublish, files, Disturb, Scans
<1>4. CASE Deleting \/ \E r \in 1..Len(version) : DeleteRequest(r)
  BY <1>4, DeletingFrame
<1>5. CASE Crash \/ UNCHANGED vars
  BY <1>5 DEF Crash, vars, NoScan
<1>6. QED BY <1>1, <1>2, <1>3, <1>4, <1>5 DEF Next

\* Only a record of a verification makes a proof.
LEMMA ProofsFrom ==
  ASSUME Good, [Next]_vars, ~PrepareRecord
  PROVE  \A p \in Paths : /\ proof'[p].rec = proof[p].rec /\ proof'[p].src = proof[p].src
                          /\ proof'[p].file = proof[p].file
<1>1. CASE Preparing \/ PrepareBegin
  BY <1>1, ProofsKept
<1>2. CASE Deleting \/ \E r \in 1..Len(version) : DeleteRequest(r)
  BY <1>2, DeletionKeeps
<1>3. CASE Outside \/ Scanning \/ Crash \/ UNCHANGED vars
  BY <1>3, OutsideFrame, ScanningFrame DEF Crash, vars, tables
<1>4. QED BY <1>1, <1>2, <1>3 DEF Next

LEMMA ManifestedKeeps ==
  ASSUME Good, OneTime, Manifested, Placed, [Next]_vars
  PROVE  Manifested'
<1> USE Parts DEF Good
<1>0. Src \in Paths /\ Prod \in Paths /\ NoSide.target = 0 /\ NoFile.at = 0
  BY Names DEF NoSide, NoFile
<1>1. PreparePublish => /\ alias[Src].rec # 0 /\ UNCHANGED <<alias, proof>>
                        /\ side' = [source |-> prep.src.at, target |-> clock + 1]
  BY <1>0 DEF PreparePublish, EntryOf, Numbered, tables
<1>2. (side' # NoSide => alias'[Src].rec # 0) /\ (scan'.manifest # NoSide => alias'[Src].rec # 0)
  BY <1>1, RowsStay, SideGoes DEF Manifested
<1>3. ASSUME proof'[Prod].rec # 0
      PROVE  /\ proof'[Prod].file # NoFile
             /\ side'.target = proof'[Prod].file.at => side'.source = proof'[Prod].src.at
  <2>1. CASE PrepareRecord
    <3>1. CASE UNCHANGED proof
      BY <1>3, <2>1, <3>1 DEF PrepareRecord, files, Manifested
    <3>2. CASE ~UNCHANGED proof
      <4>1. /\ proof' = [proof EXCEPT ![Target] =
                   [rec |-> prep.rec, src |-> prep.src, file |-> prep.out, valid |-> TRUE]]
            /\ disk[Target] = prep.out /\ Related /\ side' = side
        BY <2>1, <3>2 DEF PrepareRecord, files
      <4>2. CASE Target = Src
        <5>1. proof'[Prod] = proof[Prod]
          BY <1>0, <4>1, <4>2, CatalogAssumption
        <5>2. QED BY <1>3, <4>1, <5>1 DEF Manifested
      <4>3. CASE Target = Prod
        <5>1. proof'[Prod].src = prep.src /\ proof'[Prod].file = prep.out
          BY <1>0, <4>1, <4>3
        <5>2. Loaded /\ side.source = prep.src.at
          BY <4>1, <4>3, CatalogAssumption DEF Related
        <5>3. disk[Prod] # NoFile
          BY <5>2 DEF Loaded
        <5>4. QED BY <4>1, <4>3, <5>1, <5>2, <5>3
      <4>4. QED BY <4>2, <4>3 DEF Target
    <3>3. QED BY <3>1, <3>2
  <2>2. CASE ~PrepareRecord
    <3>1. /\ proof'[Prod].rec = proof[Prod].rec /\ proof'[Prod].src = proof[Prod].src
          /\ proof'[Prod].file = proof[Prod].file
      BY <1>0, <2>2, ProofsFrom
    <3>2. proof[Prod].file \in Known /\ NoFile \in Known /\ clock \in Nat
          /\ proof[Prod].file.at \in Nat /\ proof[Prod].file.at <= clock
          /\ proof[Prod].file # NoFile
      BY <1>0, <1>3, <3>1, KnownAre, KnownType DEF OneTime, Manifested
    <3>3. proof[Prod].file.at # 0 /\ proof[Prod].file.at # clock + 1
      BY <1>0, <3>2 DEF OneTime
    <3>4. CASE side' = side
      BY <1>3, <3>1, <3>4 DEF Manifested
    <3>5. CASE side' = NoSide
      BY <1>0, <3>1, <3>2, <3>3, <3>5
    <3>6. CASE PreparePublish
      BY <1>1, <3>1, <3>2, <3>3, <3>6
    <3>7. QED BY <3>4, <3>5, <3>6, SideGoes
  <2>3. QED BY <2>1, <2>2
<1>4. QED BY <1>2, <1>3 DEF Manifested

\* The stage of a source that is its own product never publishes.
LEMMA ProvedKeeps ==
  ASSUME Good, Proved, [Next]_vars
  PROVE  Proved'
<1> USE Parts DEF Good
<1> DEFINE Kept == /\ prep'.pc = "publish" => Target' = Prod
                   /\ prep'.pc \in Checked /\ Target' = Src => prep'.out = prep'.src
<1>0. Src \in Paths /\ Prod \in Paths /\ Other \in Paths /\ NoPrep.pc = "idle"
  BY Names DEF NoPrep
<1>1. /\ proof'[Src].file = proof'[Src].src
      /\ proof'[Other].rec = 0
  <2>1. CASE PrepareRecord
    <3>1. proof' = proof \/ proof' = [proof EXCEPT ![Target] =
             [rec |-> prep.rec, src |-> prep.src, file |-> prep.out, valid |-> TRUE]]
      BY <2>1 DEF PrepareRecord
    <3>2. Target # Other /\ (Target = Src => prep.out = prep.src)
      BY <2>1, CatalogAssumption DEF PrepareRecord, Proved, Checked, Target
    <3>3. QED BY <1>0, <3>1, <3>2 DEF Proved
  <2>2. CASE ~PrepareRecord
    BY <1>0, <2>2, ProofsFrom DEF Proved
  <2>3. QED BY <2>1, <2>2
<1> SUFFICES Kept
  BY <1>1 DEF Proved, Checked
<1>2. ASSUME prep'.src = prep.src, prep'.out = prep.out,
             \/ prep'.pc \notin Checked \cup {"publish"}
             \/ prep'.pc = prep.pc
             \/ prep.pc \in Checked /\ prep'.pc # "publish"
      PROVE  Kept
  BY <1>2 DEF Proved, Checked, Target
<1>3. ASSUME prep'.pc \notin Checked \cup {"publish"} PROVE Kept
  BY <1>3
<1>4. CASE UNCHANGED prep
  BY <1>2, <1>4
<1>5. CASE Scanning
  <2>1. CASE ScanRefused
    <3>1. prep' = prep \/ prep' = [prep EXCEPT !.pc = "fail"]
      BY <2>1 DEF ScanRefused
    <3>2. prep' = prep \/ prep'.pc = "fail"
      BY <3>1 DEF Stages
    <3>3. QED BY <1>3, <1>4, <3>2 DEF Checked
  <2>2. CASE Apply
    <3>1. prep' = prep \/ (prep.pc = "reconcile" /\ prep' = [prep EXCEPT !.pc = "register"])
      BY <2>2 DEF Apply, Numbered
    <3>2. QED BY <1>2, <3>1 DEF Stages, Checked
  <2>3. CASE LoopScan \/ PrepareScan \/ ScanFile
    BY <1>4, <2>3 DEF LoopScan, PrepareScan, ScanBegin, ScanFile
  <2>4. QED BY <1>5, <2>1, <2>2, <2>3 DEF Scanning
<1>6. CASE PrepareBegin \/ PrepareEnter \/ PrepareReuse \/ PrepareFinish \/ PrepareFail
  <2>1. prep'.pc \in {"enter", "idle", "reuse", "transcode", "fail"}
    BY <1>0, <1>6 DEF PrepareBegin, PrepareEnter, PrepareReuse, PrepareFinish, PrepareFail, Enter,
      Stages, NoPrep
  <2>2. QED BY <1>3, <2>1 DEF Checked
<1>7. CASE PrepareTranscode
  <2>1. CASE Target = Src
    <3>1. \/ prep' = [prep EXCEPT !.pc = "fail"]
          \/ prep' = [prep EXCEPT !.pc = "recheck", !.out = prep.src, !.candidate = TRUE]
      BY <1>7, <2>1 DEF PrepareTranscode, Enter
    <3>2. prep'.pc = "fail" \/ (prep'.pc = "recheck" /\ prep'.out = prep'.src)
      BY <3>1 DEF Stages
    <3>3. QED BY <3>2 DEF Checked
  <2>2. CASE Target # Src
    <3>1. \/ prep' = [prep EXCEPT !.pc = "fail"]
          \/ prep' = [prep EXCEPT !.pc = "publish", !.candidate = TRUE]
          \/ prep' = [prep EXCEPT !.pc = IF Related THEN "recheck" ELSE "fail",
                             !.out = disk[Prod], !.candidate = TRUE]
      BY <1>7, <2>2 DEF PrepareTranscode, Enter
    <3>2. prep'.src = prep.src
      BY <3>1 DEF Stages
    <3>3. Target' = Target /\ Target = Prod
      BY <2>2, <3>2 DEF Target
    <3>4. QED BY <3>3, CatalogAssumption
  <2>3. QED BY <2>1, <2>2
<1>8. CASE PreparePublish
  <2>1. prep.pc = "publish" /\ prep'.src = prep.src /\ prep'.pc = "recheck"
    BY <1>8 DEF PreparePublish, Stages
  <2>2. Target' = Prod
    BY <2>1 DEF Proved, Target
  <2>3. QED BY <2>1, <2>2, CatalogAssumption
<1>9. CASE PrepareRefused \/ PrepareRecheck \/ PrepareRegister \/ PrepareRecord
  <2>1. PICK pc \in {"fail", "reconcile", "record", "verify"} : prep' = [prep EXCEPT !.pc = pc]
    BY <1>9 DEF PrepareRefused, PrepareRecheck, PrepareRegister, PrepareRecord, Enter
  <2>2. prep'.src = prep.src /\ prep'.out = prep.out /\ prep'.pc = pc
    BY <2>1 DEF Stages
  <2>3. prep.pc \in Checked \/ pc = "fail"
    BY <1>9, <2>2 DEF PrepareRefused, PrepareRecheck, PrepareRegister, PrepareRecord, Enter,
      Checked,
      Stages
  <2>4. QED BY <1>2, <2>1, <2>2, <2>3 DEF Checked
<1>10. CASE Outside \/ Deleting \/ \E r \in 1..Len(version) : DeleteRequest(r)
  BY <1>4, <1>10, OutsideFrame, DeletingFrame
<1>11. CASE Crash
  BY <1>0, <1>3, <1>11 DEF Crash, Checked
<1>12. CASE UNCHANGED vars
  BY <1>4, <1>12 DEF vars
<1>13. QED
  BY <1>5, <1>6, <1>7, <1>8, <1>9, <1>10, <1>11, <1>12 DEF Next, Preparing

LEMMA SeenManifestKeeps ==
  ASSUME Good, SeenIsDisk, SeenManifest, [Next]_vars
  PROVE  SeenManifest'
<1> USE Parts DEF Good
<1>1. CASE UNCHANGED <<disk, side, scan>>
  BY <1>1 DEF SeenManifest, Loaded
<1>2. CASE scan.by = "none" /\ scan' = scan
  BY <1>2 DEF SeenManifest
<1>3. CASE Disturb
  <2>1. scan.by # "none" => scan'.clean = FALSE
    BY <1>3 DEF Disturb, Scans
  <2>2. QED BY <1>2, <1>3, <2>1 DEF Disturb, SeenManifest
<1>4. CASE Outside
  <2>1. UNCHANGED <<disk, side, scan>> \/ Disturb
    BY <1>4 DEF Outside, RenameCheck, Rename, Remove, BeginRecording, RecordOpen, RecordWrite,
      EndRecording, files
  <2>2. QED BY <1>1, <1>3, <2>1
<1>5. CASE Scanning
  <2>1. disk' = disk /\ side' = side /\ Loaded' = Loaded
    BY <1>5, ScanningFrame DEF files, Loaded
  <2>2. CASE LoopScan \/ PrepareScan
    <3>1. scan'.seen = NoScan.seen /\ scan'.manifest = NoSide
      BY <2>2 DEF LoopScan, PrepareScan, ScanBegin, NoScan
    <3>2. \A p \in Paths : NoScan.seen[p] = NoFile
      BY DEF NoScan
    <3>3. scan'.todo \subseteq Paths
      BY <2>2 DEF LoopScan, PrepareScan, ScanBegin, NoScan
    <3>4. QED BY <3>1, <3>2, <3>3, Names DEF SeenManifest
  <2>3. CASE ScanFile
    <3> DEFINE p == First(scan.todo)
               m == IF p = Prod /\ Loaded THEN side ELSE scan.manifest
    <3>1. /\ scan' = [scan EXCEPT !.todo = @ \ {p}, !.seen[p] = disk[p], !.manifest = m]
          /\ scan.by # "none" /\ p \in scan.todo /\ p \in Paths /\ disk[p] # NoFile
      BY <2>3, Names DEF ScanFile, Scans
    <3> HIDE DEF p, m
    <3>2. /\ scan'.by = scan.by /\ scan'.clean = scan.clean /\ scan'.todo = scan.todo \ {p}
          /\ scan'.seen = [scan.seen EXCEPT ![p] = disk[p]] /\ scan'.manifest = m
      BY <3>1 DEF Scans
    <3> SUFFICES ASSUME scan.clean
                 PROVE  /\ \A x \in scan'.todo : scan'.seen[x] = NoFile
                        /\ scan'.manifest = IF scan'.seen[Prod] # NoFile /\ Loaded
                                            THEN side ELSE NoSide
      BY <2>1, <3>2 DEF SeenManifest
    <3>3. scan.todo \subseteq Paths /\ scan.seen \in [Paths -> File]
      BY DEF Scans
    <3>4. \A x \in Paths : scan'.seen[x] = IF x = p THEN disk[p] ELSE scan.seen[x]
      BY <3>1, <3>2, <3>3
    <3>5. /\ \A x \in scan.todo : scan.seen[x] = NoFile
          /\ scan.manifest = IF scan.seen[Prod] # NoFile /\ Loaded THEN side ELSE NoSide
      BY <3>1 DEF SeenManifest
    <3>6. CASE p = Prod
      BY <3>1, <3>2, <3>3, <3>4, <3>5, <3>6, Names DEF m
    <3>7. CASE p # Prod
      BY <3>1, <3>2, <3>3, <3>4, <3>5, <3>7, Names DEF m
    <3>8. QED BY <3>6, <3>7
  <2>4. CASE ScanRefused \/ Apply
    BY <2>4 DEF ScanRefused, Apply, SeenManifest, NoScan
  <2>5. QED BY <1>5, <2>2, <2>3, <2>4 DEF Scanning
<1>6. CASE Preparing \/ PrepareBegin
  BY <1>1, <1>3, <1>6, PreparingFrame DEF PreparePublish, files
<1>7. CASE Deleting \/ \E r \in 1..Len(version) : DeleteRequest(r)
  <2>1. UNCHANGED <<side, scan>>
    BY <1>7, DeletingFrame
  <2>2. CASE scan.by # "none"
    <3>1. del.pc \in {"idle", "waiting"}
      BY <2>2 DEF SeenIsDisk
    <3>2. disk' = disk
      BY <1>7, <3>1, DeletingFrame DEF DeleteCapture, DeleteJudge
    <3>3. QED BY <1>1, <2>1, <3>2
  <2>3. QED BY <1>2, <2>1, <2>2
<1>8. CASE Crash
  BY <1>8 DEF Crash, SeenManifest, NoScan
<1>9. CASE UNCHANGED vars
  BY <1>1, <1>9 DEF vars
<1>10. QED BY <1>4, <1>5, <1>6, <1>7, <1>8, <1>9 DEF Next

Serving == OneTime /\ Manifested /\ Proved /\ Placed /\ SeenManifest

LEMMA ServingCorrect == Spec => []Serving
<1>1. Init => Serving
  <2> SUFFICES ASSUME Init PROVE Serving
    OBVIOUS
  <2>1. /\ \A p \in Paths : /\ disk[p] \in {NoFile, [id |-> 1, at |-> 1]}
                            /\ alias[p] = NoRow /\ proof[p] = NoProof
                            /\ scan.seen[p] = NoFile
        /\ scan.by = "none" /\ scan.manifest = NoSide /\ prep = NoPrep /\ del = NoDel
        /\ side = NoSide /\ active = {} /\ clock = 1
    BY DEF Init, NoScan
  <2>2. /\ NoRow.file = NoFile /\ ~NoRow.present
        /\ NoProof.src = NoFile /\ NoProof.file = NoFile /\ NoProof.rec = 0
        /\ NoPrep.src = NoFile /\ NoPrep.out = NoFile /\ NoPrep.pc = "idle" /\ NoDel.held = NoFile
    BY DEF NoRow, NoProof, NoPrep, NoDel
  <2>3. Known \subseteq {NoFile, [id |-> 1, at |-> 1]}
    BY <2>1, <2>2 DEF Known
  <2>4. OneTime
    BY <2>1, <2>3 DEF OneTime, NoFile
  <2>5. QED
    BY <2>1, <2>2, <2>4, Names DEF Serving, Manifested, Proved, Placed, SeenManifest, Checked
<1>2. Good /\ SeenIsDisk /\ Serving /\ [Next]_vars => Serving'
  <2> SUFFICES ASSUME Good, SeenIsDisk, Serving, [Next]_vars PROVE Serving'
    OBVIOUS
  <2>1. Placed'
    BY RowsStay, ActiveSources DEF Serving, Placed
  <2>2. QED
    BY <2>1, OneTimeKeeps, ManifestedKeeps, ProvedKeeps, SeenManifestKeeps DEF Serving
<1>3. QED BY <1>1, <1>2, GoodCorrect, SeenIsDiskCorrect, PTL DEF Spec

-----------------------------------------------------------------------------
(* What a scan on a disk that stands still makes of what is served. *)

\* What the rows say of a file whose source is known as one file of one recording.
LEMMA SourceRow ==
  ASSUME Good, NEW p \in Paths, NEW x \in Paths, Undivided(proof[p]), proof[p].rec # 0,
         alias[x].rec # 0, alias[x].file = proof[p].src
  PROVE  /\ alias[x].rec = proof[p].rec
         /\ \A y \in Seen : scan.seen[y].id = proof[p].src.id =>
              RecordingOf(scan.seen[y].id) = proof[p].rec
<1>1. alias[x].rec = proof[p].rec /\ x \in RowsOf(proof[p].src.id)
  BY DEF Undivided, RowsOf
<1>2. ASSUME NEW y \in Seen, scan.seen[y].id = proof[p].src.id
      PROVE  RecordingOf(scan.seen[y].id) = proof[p].rec
  <2>1. /\ Last(RowsOf(scan.seen[y].id)) \in RowsOf(scan.seen[y].id)
        /\ RecordingOf(scan.seen[y].id) = alias[Last(RowsOf(scan.seen[y].id))].rec
    BY <1>1, <1>2, SeenRows DEF Good
  <2>2. QED BY <1>2, <2>1 DEF Undivided, RowsOf
<1>3. QED BY <1>1, <1>2

\* A scan that joins under a manifest of q's source gives its recording the version q knows.
LEMMA JoinedVersion ==
  ASSUME Good, NEW r \in 1..Len(version), NEW f \in File, Joins,
         AliasSeen[Src].rec = r, AliasSeen[Src].file = f, scan.manifest.source = f.at
  PROVE  Owner = r /\ SourceVersion = f /\ VersionJoined[r] = f
<1>1. Len(version) \in Nat /\ Rows \in Nat /\ Rows >= Len(version)
  BY NewRows DEF Good
<1>2. Matching /\ Owner = r
  BY <1>1 DEF Matching, Owner
<1>3. SourceVersion = f
  BY DEF SourceVersion, File
<1>4. r \in DOMAIN VersionSeen
  BY <1>1 DEF VersionSeen, Rows
<1>5. QED BY <1>2, <1>3, <1>4 DEF VersionJoined

\* A product under its manifest.
LEMMA ProductKept ==
  ASSUME Good, OneTime, Manifested, Placed, SeenManifest, scan.clean, scan.by # "none",
         \A x \in Paths : scan.seen[x] = disk[x], Serves(Prod), SourceKnown(Prod)
  PROVE  /\ VersionJoined[proof[Prod].rec] = proof[Prod].src
         /\ AliasJoined[Prod].rec = proof[Prod].rec
         /\ AssetJoined[Prod] = [rec |-> proof[Prod].rec, src |-> proof[Prod].src,
                                 status |-> "verified", at |-> proof[Prod].file.at]
         /\ alias[Src].rec = proof[Prod].rec /\ alias[Src].file = proof[Prod].src
<1> USE Parts DEF Good
<1> DEFINE q == proof[Prod]
<1>0. /\ Src \in Paths /\ Prod \in Paths /\ Src # Prod
      /\ q \in Proofs /\ q.src \in File /\ q.src.at \in Times
      /\ \A x \in Paths : alias[x] \in Names0
  BY Names, CatalogAssumption, FileType DEF Proofs
<1>1. /\ q.rec # 0 /\ disk[Prod] = q.file /\ alias[Prod].present /\ alias[Prod].file = q.file
      /\ Loaded /\ alias[Src].file.at = side.source /\ Undivided(q)
  BY DEF Serves, Verified, SourceKnown, ManifestHolds
<1>2. /\ side # NoSide /\ disk[Prod] # NoFile /\ disk[Prod].at = side.target
      /\ disk[Src] = NoFile \/ disk[Src].at = side.source
  BY <1>1 DEF Loaded
<1>3. scan.manifest = side /\ Joins /\ Prod \in Seen
  BY <1>0, <1>1, <1>2 DEF SeenManifest, Joins, Seen
<1>4. side.source = q.src.at /\ alias[Src].rec # 0
  BY <1>1, <1>2 DEF Manifested
<1>5. alias[Src].file = q.src
  BY <1>0, <1>1, <1>4, KnownAre DEF OneTime
<1>6. alias[Src].rec = q.rec
      /\ \A y \in Seen : scan.seen[y].id = q.src.id => RecordingOf(scan.seen[y].id) = q.rec
  BY <1>0, <1>1, <1>4, <1>5, SourceRow
<1>7. AliasSeen[Src].rec = q.rec /\ AliasSeen[Src].file = q.src
  <2>1. CASE Src \in Seen
    <3>1. disk[Src] = q.src /\ scan.seen[Src] = disk[Src]
      BY <1>0, <1>2, <1>4, <2>1, KnownAre DEF OneTime, Seen
    <3>2. AliasSeen[Src] = [rec |-> RecordingOf(scan.seen[Src].id), file |-> scan.seen[Src],
                            present |-> TRUE]
      BY <1>0, <2>1 DEF AliasSeen
    <3>3. QED BY <1>6, <2>1, <3>1, <3>2
  <2>2. CASE Src \notin Seen
    <3>1. AliasSeen[Src] = [alias[Src] EXCEPT !.present = FALSE]
      BY <1>0, <2>2 DEF AliasSeen
    <3>2. QED BY <1>0, <1>5, <1>6, <3>1 DEF Names0
  <2>3. QED BY <2>1, <2>2
<1>8. q.rec \in 1..Len(version)
  BY <1>0, <1>1 DEF Proofs
<1>9. Owner = q.rec /\ SourceVersion = q.src /\ VersionJoined[q.rec] = q.src
  BY <1>0, <1>3, <1>4, <1>7, <1>8, JoinedVersion
<1>10. AliasJoined[Prod].rec = q.rec
  <2>1. AliasSeen \in [Paths -> [rec : 0..Rows, file : File, present : BOOLEAN]]
    BY NameRows
  <2>2. AliasJoined[Prod] = [AliasSeen[Prod] EXCEPT !.rec = Owner]
    BY <1>0, <1>3, <2>1 DEF AliasJoined
  <2>3. AliasSeen[Prod] \in [rec : 0..Rows, file : File, present : BOOLEAN]
    BY <1>0, <2>1
  <2>4. QED BY <1>9, <2>2, <2>3
<1>11. AssetJoined[Prod] = [rec |-> q.rec, src |-> q.src, status |-> "verified", at |-> q.file.at]
  <2>1. AssetSeen \in [Paths -> [rec : 0..Rows, src : File, at : Times,
                                 status : {"none", "verified", "unverified", "missing"}]]
    BY NameRows
  <2>2. scan.seen[Prod].at = q.file.at
    BY <1>0, <1>1
  <2>3. AssetJoined[Prod] = [rec |-> Owner, src |-> SourceVersion, status |-> "verified",
                             at |-> scan.seen[Prod].at]
    BY <1>0, <1>3, <2>1 DEF AssetJoined
  <2>4. QED BY <1>9, <2>2, <2>3
<1>12. QED BY <1>5, <1>6, <1>9, <1>10, <1>11

\* A source that is its own product.
LEMMA SourceKept ==
  ASSUME Good, OneTime, Proved, Placed, SeenManifest, scan.clean, scan.by # "none",
         \A x \in Paths : scan.seen[x] = disk[x], Serves(Src), SourceKnown(Src)
  PROVE  /\ VersionJoined[proof[Src].rec] = proof[Src].src
         /\ AliasJoined[Src].rec = proof[Src].rec
         /\ AssetJoined[Src] = [rec |-> proof[Src].rec, src |-> proof[Src].src,
                                status |-> "verified", at |-> proof[Src].file.at]
<1> USE Parts DEF Good
<1> DEFINE q == proof[Src]
<1>0. /\ Src \in Paths /\ Prod \in Paths /\ Src # Prod
      /\ q \in Proofs /\ q.src \in File /\ q.src.at \in Times
      /\ \A x \in Paths : alias[x] \in Names0 /\ asset[x] \in Assets
  BY Names, CatalogAssumption, FileType DEF Proofs
<1>1. /\ q.rec # 0 /\ disk[Src] = q.file /\ alias[Src].present /\ alias[Src].file = q.file
      /\ alias[Src].rec = q.rec /\ q.file = q.src /\ q.file # NoFile /\ Undivided(q)
      /\ Loaded \/ OnlyFile(q)
      /\ asset[Src].rec = q.rec /\ asset[Src].src = q.src /\ asset[Src].at = q.file.at
  BY <1>0 DEF Serves, Verified, SourceKnown, Proved, Placed
<1>2. Src \in Seen /\ scan.seen[Src] = q.src
  BY <1>0, <1>1 DEF Seen
<1>3. RecordingOf(q.src.id) = q.rec
  BY <1>0, <1>1, <1>2, SourceRow
<1>4. AliasSeen[Src].rec = q.rec /\ AliasSeen[Src].file = q.src
  <2>1. AliasSeen[Src] = [rec |-> RecordingOf(scan.seen[Src].id), file |-> scan.seen[Src],
                          present |-> TRUE]
    BY <1>0, <1>2 DEF AliasSeen
  <2>2. QED BY <1>2, <1>3, <2>1
<1>5. AliasJoined[Src].rec = q.rec
  BY <1>0, <1>2, <1>3, JoinedRows
<1>6. AssetJoined[Src] = [rec |-> q.rec, src |-> q.src, status |-> "verified", at |-> q.file.at]
  <2>1. AssetSeen[Src] = [asset[Src] EXCEPT !.status = "verified"]
    BY <1>0, <1>1, <1>2, <1>3 DEF AssetSeen
  <2>2. AssetSeen \in [Paths -> [rec : 0..Rows, src : File, at : Times,
                                 status : {"none", "verified", "unverified", "missing"}]]
    BY NameRows
  <2>3. AssetJoined[Src] = AssetSeen[Src]
    BY <1>0, <2>2 DEF AssetJoined
  <2>4. QED BY <1>0, <1>1, <2>1, <2>3 DEF Assets
<1>7. q.rec \in 1..Len(version)
  BY <1>0, <1>1 DEF Proofs
<1>8. CASE Joins
  <2>1. Loaded /\ scan.manifest = side
    BY <1>8 DEF Joins, SeenManifest
  <2>2. scan.manifest.source = q.src.at
    BY <1>0, <1>1, <2>1 DEF Loaded
  <2>3. QED BY <1>0, <1>4, <1>5, <1>6, <1>7, <1>8, <2>2, JoinedVersion
<1>9. CASE ~Joins
  <2> DEFINE from == {x \in Seen : RecordingOf(scan.seen[x].id) = q.rec}
  <2>1. ~Loaded
    <3>1. SUFFICES ASSUME Loaded PROVE FALSE
      OBVIOUS
    <3>2. scan.seen[Prod] # NoFile /\ side # NoSide
      BY <1>0, <3>1 DEF Loaded
    <3>3. QED BY <1>9, <3>1, <3>2 DEF Joins, SeenManifest
  <2>2. OnlyFile(q)
    BY <1>1, <2>1
  <2>3. ASSUME NEW x \in from PROVE x = Src
    <3> SUFFICES ASSUME x # Src PROVE FALSE
      OBVIOUS
    <3>1. x \in Paths \ {Src} /\ disk[x] # NoFile /\ x \in Seen /\ scan.seen[x] = disk[x]
          /\ RecordingOf(disk[x].id) = q.rec
      BY DEF Seen
    <3>2. \A y \in Paths : alias[y].rec = q.rec => alias[y].file.id # disk[x].id
      BY <2>2, <3>1 DEF OnlyFile
    <3>3. CASE RowsOf(disk[x].id) # {}
      <4>1. /\ Last(RowsOf(disk[x].id)) \in RowsOf(disk[x].id)
            /\ alias[Last(RowsOf(disk[x].id))].rec = q.rec
        BY <3>1, <3>3, SeenRows
      <4>2. QED BY <3>2, <4>1 DEF RowsOf
    <3>4. CASE RowsOf(disk[x].id) = {}
      <4>1. disk[x].id \in NewIds
        BY <3>1, <3>4 DEF NewIds
      <4>2. Rank(disk[x].id) \in 1..Cardinality(NewIds) /\ Cardinality(NewIds) \in Nat
            /\ Len(version) \in Nat
        BY <4>1, NewRows
      <4>3. RecordingOf(disk[x].id) > Len(version)
        BY <3>4, <4>2 DEF RecordingOf
      <4>4. QED BY <1>7, <3>1, <4>2, <4>3
    <3>5. QED BY <3>3, <3>4
  <2>4. Src \in from
    BY <1>2, <1>3
  <2>5. from \subseteq Paths /\ Last(from) \in from
    BY <2>4, Names DEF Seen
  <2>6. VersionSeen[q.rec] = scan.seen[Last(from)]
    <3>1. q.rec \in 1..Len(version) + Cardinality(NewIds)
      BY <1>7, NewRows
    <3>2. QED BY <2>4, <3>1 DEF VersionSeen
  <2>7. Last(from) = Src
    BY <2>3, <2>5
  <2>8. VersionJoined[q.rec] = q.src
    BY <1>2, <1>9, <2>6, <2>7 DEF VersionJoined
  <2>9. QED BY <1>5, <1>6, <2>8
<1>10. QED BY <1>8, <1>9

\* Whatever was moved, deleted, rewritten and prepared before: a scan during which the disk
\* stands still withdraws nothing that can be played and whose source the catalog knows.
THEOREM ScanKeepsServedCorrect == Spec => ScanKeepsServed
<1>1. Good /\ SeenIsDisk /\ Serving /\ [Next]_vars
      => (Reconciled /\ scan.clean
          => \A p \in Paths : Serves(p) /\ SourceKnown(p) => Serves(p)')
  <2> SUFFICES ASSUME Good, SeenIsDisk, Serving, [Next]_vars, Reconciled, scan.clean,
                      NEW p \in Paths, Serves(p), SourceKnown(p)
               PROVE  Serves(p)'
    OBVIOUS
  <2> USE DEF Serving
  <2> DEFINE q == proof[p]
             from  == {x \in Paths : /\ alias[x].present /\ alias[x].rec = q.rec
                                     /\ alias[x].file = q.src}
             from1 == {x \in Paths : /\ AliasJoined[x].present /\ AliasJoined[x].rec = q.rec
                                     /\ AliasJoined[x].file = q.src}
  <2>0. Src \in Paths /\ Prod \in Paths /\ Src # Prod
    BY Names, CatalogAssumption
  <2>1. /\ UNCHANGED <<disk, active, proof, side>> /\ version' = VersionJoined
        /\ alias' = AliasJoined /\ asset' = [x \in Paths |-> Refreshed(x)]
    BY ReconciledApplies DEF Apply, files
  <2>2. \A x \in Paths : scan.seen[x] = disk[x]
    BY DEF SeenIsDisk, Reconciled
  <2>3. p \in {Src, Prod}
    BY DEF Serves, Proved, Paths
  <2>4. /\ VersionJoined[q.rec] = q.src /\ AliasJoined[p].rec = q.rec
        /\ AssetJoined[p] = [rec |-> q.rec, src |-> q.src, status |-> "verified",
                             at |-> q.file.at]
    BY <2>2, <2>3, ProductKept, SourceKept DEF Reconciled
  <2>5. /\ q.rec # 0 /\ q.valid /\ disk[p] = q.file /\ q.file # NoFile /\ p \notin active
        /\ from # {} => \E x \in from : EntryOf(x, q.src)
    BY DEF Serves, Verified, Placed
  <2>6. /\ \A x \in Paths : /\ AliasJoined[x].present <=> disk[x] # NoFile
                            /\ disk[x] # NoFile => AliasJoined[x].file = disk[x]
        /\ \A x \in Paths : disk[x] # NoFile /\ x # Prod =>
             AliasJoined[x].rec = RecordingOf(disk[x].id)
    BY <2>2, JoinedRows DEF Good, Seen
  <2>7. Refreshed(p) = AssetJoined[p]
    BY <2>4, <2>5, <2>6 DEF Refreshed
  <2>8. ASSUME NEW x \in from1 PROVE \E y \in from1 : y \notin active
    <3>1. disk[x] = q.src /\ q.src # NoFile
      BY <2>6
    <3>2. CASE x \notin active
      BY <3>2
    <3>3. CASE x \in active
      <4>1. x = Src /\ p = Prod
        BY <2>3, <2>5, <3>3 DEF Placed
      <4>2. alias[Src].rec = q.rec /\ alias[Src].file = q.src
        BY <2>2, <4>1, ProductKept DEF Reconciled
      <4>3. alias[Src].present
        BY <2>0, <3>1, <3>3, <4>1 DEF SourceKnown, ManifestHolds
      <4>4. PICK y \in from : EntryOf(y, q.src)
        BY <2>0, <2>5, <4>2, <4>3
      <4>5. y \in Paths /\ y \notin active /\ disk[y] = q.src
        BY <4>4 DEF EntryOf
      <4>6. AliasJoined[y].rec = q.rec
        <5>1. CASE y = Prod
          BY <2>4, <4>1, <5>1
        <5>2. CASE y # Prod
          <6>1. y \in Seen /\ scan.seen[y] = q.src
            BY <2>2, <3>1, <4>5 DEF Seen
          <6>2. RecordingOf(q.src.id) = q.rec
            BY <2>0, <2>5, <4>2, <6>1, SourceRow DEF SourceKnown
          <6>3. QED BY <2>6, <3>1, <4>5, <5>2, <6>2
        <5>3. QED BY <5>1, <5>2
      <4>7. y \in from1
        BY <2>6, <3>1, <4>5, <4>6
      <4>8. QED BY <4>5, <4>7
    <3>4. QED BY <3>2, <3>3
  <2>9. from1 # {} => \E x \in from1 : EntryOf(x, q.src)'
    <3>1. \A y \in from1 : y \notin active => EntryOf(y, q.src)'
      BY <2>1, <2>4, <2>6 DEF EntryOf
    <3>2. QED BY <2>8, <3>1
  <2>10. Verified(p, q.rec, q.src, q.file)'
    BY <2>1, <2>4, <2>5, <2>7 DEF Verified
  <2>11. QED BY <2>1, <2>4, <2>5, <2>6, <2>9, <2>10 DEF Serves
<1>2. QED BY <1>1, GoodCorrect, SeenIsDiskCorrect, ServingCorrect, PTL DEF Spec, ScanKeepsServed
=============================================================================
