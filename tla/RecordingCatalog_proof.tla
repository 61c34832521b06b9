----------------------- MODULE RecordingCatalog_proof -----------------------
(***************************************************************************)
(* Theorems about RecordingCatalog, for any number of writes, renames,     *)
(* deletions, preparations and faults.                                     *)
(***************************************************************************)
EXTENDS RecordingCatalog, FiniteSetTheorems, SequenceTheorems, TLAPS

-----------------------------------------------------------------------------
(* Names, and what a scan makes of them. *)

LEMMA Names ==
  /\ IsFiniteSet(Paths)
  /\ Src \in Paths /\ Prod \in Paths /\ Other \in Paths
  /\ Position \in [Paths -> 1..3]
  /\ \A p, q \in Paths : Position[p] = Position[q] => p = q
  /\ \A S \in SUBSET Paths : S # {} => First(S) \in S /\ Last(S) \in S
<1>1. IsFiniteSet(Paths)
  <2>1. Paths = {Src} \cup {Prod} \cup {Other}
    BY DEF Paths
  <2>2. QED BY <2>1, FS_Singleton, FS_Union
<1>2. /\ Src \in Paths /\ Prod \in Paths /\ Other \in Paths /\ Position \in [Paths -> 1..3]
      /\ Position[Src] = 1 /\ Position[Prod] = 2 /\ Position[Other] = 3
  BY CatalogAssumption DEF Paths, Position
<1>3. \A p, q \in Paths : Position[p] = Position[q] => p = q
  BY <1>2 DEF Paths
<1>4. ASSUME NEW S \in SUBSET Paths, S # {} PROVE First(S) \in S /\ Last(S) \in S
  <2>1. \E p \in S : \A q \in S : Position[p] <= Position[q]
    BY <1>2, <1>4 DEF Paths
  <2>2. \E p \in S : \A q \in S : Position[q] <= Position[p]
    BY <1>2, <1>4 DEF Paths
  <2>3. QED BY <2>1, <2>2 DEF First, Last
<1>5. QED BY <1>1, <1>2, <1>3, <1>4

\* How many rows of recordings there are after a scan.
Rows == Len(version) + Cardinality(NewIds)

\* What the types alone do not say: a row that is present belongs to a recording, a stage past
\* its entry has one, and a manifest is seen with its target.
Numbered ==
  /\ \A p \in Paths : alias[p].present => alias[p].rec # 0
  /\ prep.pc \notin {"idle", "enter"} => prep.rec # 0
  /\ prep.pc = "reuse" => Key \in DOMAIN job
  /\ scan.by = "prepare" => prep.pc = "reconcile"
  /\ scan.manifest # NoSide => scan.seen[Prod] # NoFile

\* Every file has an identity, also the one a deletion holds while it judges it; a deletion
\* at work has names left.
Identified ==
  /\ \A p \in Paths : disk[p] = NoFile \/ disk[p].id # 0
  /\ del.held = NoFile \/ del.held.id # 0
  /\ del.held # NoFile <=> del.pc = "judge"
  /\ del.pc \in {"check", "capture", "judge", "record"} => del.left # {}
  /\ del.pc \in {"idle", "waiting"} => del.left = {} /\ DOMAIN del.plan = {}

LEMMA RenameType ==
  /\ NoRename \in Renames
  /\ \A p, q \in Paths : <<p, q>> \in Renames
  /\ \A x \in Renames \ {NoRename} : x[1] \in Paths /\ x[2] \in Paths
BY DEF Renames

LEMMA FileType ==
  /\ 0 \in Times /\ NoFile \in File /\ NoSide \in Stamps
  /\ \A f \in File : f.id \in Times /\ f.at \in Times
  /\ \A i, t \in Times : [id |-> i, at |-> t] \in File
BY CatalogAssumption DEF Times, File, NoFile, NoSide, Stamps

\* Identities that no row has are numbered one after the other.
LEMMA NewRows ==
  ASSUME TypeOK
  PROVE  /\ IsFiniteSet(NewIds) /\ Cardinality(NewIds) \in Nat
         /\ \A i \in NewIds : Rank(i) \in 1..Cardinality(NewIds)
         /\ Len(version) \in Nat /\ Rows \in Nat /\ Rows >= Len(version)
<1>1. Seen \subseteq Paths /\ \A p \in Seen : scan.seen[p] \in File
  BY DEF Seen, TypeOK
<1>2. IsFiniteSet(NewIds)
  <2> DEFINE S == {scan.seen[Src].id} \cup {scan.seen[Prod].id} \cup {scan.seen[Other].id}
  <2>1. IsFiniteSet(S)
    BY FS_Singleton, FS_Union
  <2>2. NewIds \subseteq S
    BY <1>1 DEF NewIds, Paths
  <2>3. QED BY <2>1, <2>2, FS_Subset
<1>3. Cardinality(NewIds) \in Nat
  BY <1>2, FS_CardinalityType
<1>4. ASSUME NEW i \in NewIds PROVE Rank(i) \in 1..Cardinality(NewIds)
  <2> DEFINE S == {j \in NewIds : Position[NameOf(j)] <= Position[NameOf(i)]}
  <2>1. IsFiniteSet(S) /\ Cardinality(S) \in Nat /\ Cardinality(S) <= Cardinality(NewIds)
    BY <1>2, FS_Subset, FS_CardinalityType
  <2>2. {p \in Seen : scan.seen[p].id = i} # {}
    BY DEF NewIds
  <2>3. NameOf(i) \in Paths
    BY <1>1, <2>2, Names DEF NameOf
  <2>4. i \in S
    <3>1. Position[NameOf(i)] \in 1..3
      BY <2>3, Names
    <3>2. QED BY <3>1
  <2>5. Cardinality(S) # 0
    BY <2>1, <2>4, FS_EmptySet
  <2>6. QED BY <1>3, <2>1, <2>5 DEF Rank
<1>5. Len(version) \in Nat
  BY LenProperties DEF TypeOK
<1>6. QED BY <1>2, <1>3, <1>4, <1>5 DEF Rows

\* ... and each number is used.
LEMMA RanksUsed ==
  ASSUME TypeOK, NEW n \in 1..Cardinality(NewIds)
  PROVE  \E i \in NewIds : Rank(i) = n
<1> DEFINE S(i) == {j \in NewIds : Position[NameOf(j)] <= Position[NameOf(i)]}
           ranks == [i \in NewIds |-> Rank(i)]
           Range1 == 1..Cardinality(NewIds)
<1>0. IsFiniteSet(NewIds) /\ Cardinality(NewIds) \in Nat
  BY NewRows
<1>1. ASSUME NEW i \in NewIds
      PROVE  /\ NameOf(i) \in Paths /\ Position[NameOf(i)] \in 1..3
             /\ scan.seen[NameOf(i)].id = i
  <2>1. {p \in Seen : scan.seen[p].id = i} # {}
    BY DEF NewIds
  <2>2. {p \in Seen : scan.seen[p].id = i} \in SUBSET Paths
    BY DEF Seen
  <2>3. NameOf(i) \in {p \in Seen : scan.seen[p].id = i}
    BY <2>1, <2>2, Names DEF NameOf
  <2>4. QED BY <2>2, <2>3, Names
<1>2. ASSUME NEW i \in NewIds, NEW j \in NewIds, Position[NameOf(i)] < Position[NameOf(j)]
      PROVE  Rank(i) # Rank(j)
  <2>1. S(i) \subseteq S(j) /\ j \in S(j) /\ j \notin S(i) /\ S(j) \subseteq NewIds
    BY <1>1, <1>2
  <2>2. IsFiniteSet(S(j))
    BY <1>0, <2>1, FS_Subset
  <2>3. Cardinality(S(i)) # Cardinality(S(j))
    BY <2>1, <2>2, FS_Subset
  <2>4. QED BY <2>3 DEF Rank
<1>3. ASSUME NEW i \in NewIds, NEW j \in NewIds, i # j
      PROVE  Rank(i) # Rank(j)
  <2>1. Position[NameOf(i)] # Position[NameOf(j)]
    BY <1>1, <1>3, Names
  <2>2. Position[NameOf(i)] < Position[NameOf(j)] \/ Position[NameOf(j)] < Position[NameOf(i)]
    BY <1>1, <2>1
  <2>3. QED BY <1>2, <2>2
<1>4. ranks \in Injection(NewIds, Range1)
  <2>1. ranks \in [NewIds -> Range1]
    BY NewRows
  <2>2. QED BY <1>3, <2>1 DEF Injection, IsInjective
<1>5. IsFiniteSet(Range1) /\ Cardinality(Range1) = Cardinality(NewIds)
  BY <1>0, FS_Interval
<1>6. ranks \in Surjection(NewIds, Range1)
  BY <1>4, <1>5, FS_Injection
<1>7. QED BY <1>6 DEF Surjection

\* Every file a scan has seen gets a row of recordings: the one its identity had, or a new one.
LEMMA SeenRows ==
  ASSUME TypeOK, NEW p \in Seen
  PROVE  /\ RecordingOf(scan.seen[p].id) \in 1..Rows
         /\ RowsOf(scan.seen[p].id) # {} =>
              /\ Last(RowsOf(scan.seen[p].id)) \in RowsOf(scan.seen[p].id)
              /\ RecordingOf(scan.seen[p].id) = alias[Last(RowsOf(scan.seen[p].id))].rec
<1> DEFINE i == scan.seen[p].id
<1>0. Len(version) \in Nat /\ Cardinality(NewIds) \in Nat /\ Rows >= Len(version)
  BY NewRows
<1>1. CASE RowsOf(i) # {}
  <2>1. RowsOf(i) \subseteq Paths /\ Last(RowsOf(i)) \in RowsOf(i)
    BY <1>1, Names DEF RowsOf
  <2>2. alias[Last(RowsOf(i))].rec \in 1..Len(version)
    BY <1>0, <2>1 DEF RowsOf, TypeOK
  <2>3. QED BY <1>0, <1>1, <2>1, <2>2 DEF RecordingOf, Rows
<1>2. CASE RowsOf(i) = {}
  <2>1. i \in NewIds
    BY <1>2 DEF NewIds
  <2>2. Rank(i) \in 1..Cardinality(NewIds)
    BY <2>1, NewRows
  <2>3. QED BY <1>0, <1>2, <2>2 DEF RecordingOf, Rows
<1>3. QED BY <1>1, <1>2

LEMMA VersionRows ==
  ASSUME TypeOK
  PROVE  VersionSeen \in Seq(File) /\ Len(VersionSeen) = Rows
<1> DEFINE Of(r) == {p \in Seen : RecordingOf(scan.seen[p].id) = r}
           V(r)  == IF Of(r) = {} THEN version[r] ELSE scan.seen[Last(Of(r))]
<1>0. Rows \in Nat
  BY NewRows
<1>1. ASSUME NEW r \in 1..Rows PROVE V(r) \in File
  <2>1. CASE Of(r) # {}
    <3>1. Of(r) \subseteq Paths
      BY DEF Seen
    <3>2. Last(Of(r)) \in Paths
      BY <2>1, <3>1, Names
    <3>3. QED BY <2>1, <3>2 DEF TypeOK
  <2>2. CASE Of(r) = {}
    <3>1. r \in 1..Len(version)
      <4>1. SUFFICES ASSUME r \notin 1..Len(version) PROVE FALSE
        OBVIOUS
      <4>2. r - Len(version) \in 1..Cardinality(NewIds)
        BY <4>1, NewRows DEF Rows
      <4>3. PICK i \in NewIds : Rank(i) = r - Len(version)
        BY <4>2, RanksUsed
      <4>4. PICK p \in Seen : scan.seen[p].id = i /\ RowsOf(i) = {}
        BY DEF NewIds
      <4>5. RecordingOf(scan.seen[p].id) = r
        BY <4>3, <4>4, NewRows DEF RecordingOf
      <4>6. QED BY <2>2, <4>5
    <3>2. QED BY <2>2, <3>1 DEF TypeOK
  <2>3. QED BY <2>1, <2>2
<1>2. VersionSeen = [r \in 1..Rows |-> V(r)]
  BY DEF VersionSeen, Rows
<1> HIDE DEF V
<1>3. QED BY <1>0, <1>1, <1>2

\* The rows of names and assets after the first loop of apply.
LEMMA NameRows ==
  ASSUME TypeOK, Numbered
  PROVE  /\ AliasSeen \in [Paths -> [rec : 0..Rows, file : File, present : BOOLEAN]]
         /\ AssetSeen \in [Paths -> [rec : 0..Rows, src : File, at : Times,
                                     status : {"none", "verified", "unverified", "missing"}]]
         /\ \A p \in Paths : AliasSeen[p].present <=> p \in Seen
         /\ \A p \in Seen : AliasSeen[p].rec \in 1..Rows /\ AliasSeen[p].file = scan.seen[p]
<1>0. Len(version) \in Nat /\ Rows \in Nat /\ Rows >= Len(version)
  BY NewRows
<1>1. ASSUME NEW p \in Paths
      PROVE  /\ AliasSeen[p] \in [rec : 0..Rows, file : File, present : BOOLEAN]
             /\ AliasSeen[p].present <=> p \in Seen
             /\ p \in Seen => AliasSeen[p].rec \in 1..Rows /\ AliasSeen[p].file = scan.seen[p]
  <2>1. CASE p \in Seen
    <3>1. AliasSeen[p] = [rec |-> RecordingOf(scan.seen[p].id), file |-> scan.seen[p],
                          present |-> TRUE]
      BY <2>1 DEF AliasSeen
    <3>2. scan.seen[p] \in File
      BY DEF TypeOK
    <3>3. QED BY <1>0, <2>1, <3>1, <3>2, SeenRows
  <2>2. CASE p \notin Seen
    <3>1. AliasSeen[p] = [alias[p] EXCEPT !.present = FALSE]
      BY <2>2 DEF AliasSeen
    <3>2. alias[p] \in [rec : 0..Rows, file : File, present : BOOLEAN]
      BY <1>0 DEF TypeOK
    <3>3. QED BY <2>2, <3>1, <3>2
  <2>3. QED BY <2>1, <2>2
<1>2. ASSUME NEW p \in Paths
      PROVE  AssetSeen[p] \in [rec : 0..Rows, src : File, at : Times,
                               status : {"none", "verified", "unverified", "missing"}]
  <2>1. asset[p] \in [rec : 0..Rows, src : File, at : Times,
                      status : {"none", "verified", "unverified", "missing"}]
    BY <1>0 DEF TypeOK
  <2>2. CASE asset[p].rec = 0
    BY <1>0, <2>2, FileType DEF AssetSeen, NoAsset
  <2>3. CASE asset[p].rec # 0
    <3>1. PICK st \in {"verified", "unverified"} : AssetSeen[p] = [asset[p] EXCEPT !.status = st]
      BY <2>3 DEF AssetSeen
    <3>2. QED BY <2>1, <3>1
  <2>4. QED BY <2>2, <2>3
<1>3. AliasSeen = [p \in Paths |-> AliasSeen[p]] /\ AssetSeen = [p \in Paths |-> AssetSeen[p]]
  BY DEF AliasSeen, AssetSeen
<1>4. \A p \in Seen : p \in Paths
  BY DEF Seen
<1>5. QED BY <1>1, <1>2, <1>3, <1>4

\* ... and after the second: a manifest has been seen with its target, which has a row.
LEMMA JoinedRows ==
  ASSUME TypeOK, Numbered
  PROVE  /\ VersionJoined \in Seq(File) /\ Len(VersionJoined) = Rows
         /\ AliasJoined \in [Paths -> [rec : 0..Rows, file : File, present : BOOLEAN]]
         /\ \A p \in Paths : Refreshed(p) \in [rec : 0..Rows, src : File, at : Times,
                                  status : {"none", "verified", "unverified", "missing"}]
         /\ \A p \in Paths : /\ AliasJoined[p].present <=> p \in Seen
                             /\ p \in Seen => AliasJoined[p].rec \in 1..Rows
                                              /\ AliasJoined[p].file = scan.seen[p]
                             /\ p \in Seen /\ (p = Prod => ~Joins) =>
                                  AliasJoined[p].rec = RecordingOf(scan.seen[p].id)
<1>0. Rows \in Nat
  BY NewRows
<1>1. Joins => /\ Owner \in 1..Rows /\ SourceVersion \in File /\ Prod \in Seen
               /\ scan.seen[Prod].at \in Times
  <2> SUFFICES ASSUME Joins PROVE Owner \in 1..Rows /\ SourceVersion \in File /\ Prod \in Seen
                                  /\ scan.seen[Prod].at \in Times
    OBVIOUS
  <2>1. Prod \in Seen
    BY Names DEF Joins, Numbered, Seen
  <2>2. AliasSeen[Prod].rec \in 1..Rows /\ AliasSeen[Src].rec \in 0..Rows
        /\ AliasSeen[Src].file \in File
    BY <2>1, NameRows, Names
  <2>3. Owner \in 1..Rows
    BY <2>2 DEF Owner, Matching
  <2>4. scan.manifest.source \in Times /\ scan.seen[Prod] \in File
    BY Names DEF TypeOK, Stamps
  <2>5. QED BY <2>1, <2>2, <2>3, <2>4, FileType DEF SourceVersion
<1>2. VersionJoined \in Seq(File) /\ Len(VersionJoined) = Rows
  <2>1. CASE ~Joins
    BY <2>1, VersionRows DEF VersionJoined
  <2>2. CASE Joins
    BY <1>1, <2>2, VersionRows, ExceptSeq DEF VersionJoined
  <2>3. QED BY <2>1, <2>2
<1>3. CASE ~Joins
  <2>1. AliasJoined = AliasSeen /\ AssetJoined = AssetSeen
    BY <1>3 DEF AliasJoined, AssetJoined
  <2>2. \A p \in Seen : AliasSeen[p].rec = RecordingOf(scan.seen[p].id)
    BY DEF AliasSeen, Seen
  <2>3. ASSUME NEW p \in Paths
        PROVE  Refreshed(p) \in [rec : 0..Rows, src : File, at : Times,
                                 status : {"none", "verified", "unverified", "missing"}]
    BY <2>1, NameRows DEF Refreshed
  <2>4. QED BY <1>2, <2>1, <2>2, <2>3, NameRows
<1>4. CASE Joins
  <2>1. AliasSeen[Prod] \in [rec : 0..Rows, file : File, present : BOOLEAN]
        /\ AliasSeen[Src] \in [rec : 0..Rows, file : File, present : BOOLEAN]
    BY NameRows, Names
  <2>2. /\ AliasJoined[Prod] = [AliasSeen[Prod] EXCEPT !.rec = Owner]
        /\ AliasJoined[Src] = IF AliasSeen[Src].rec # 0 THEN AliasSeen[Src]
                              ELSE [rec |-> Owner, file |-> SourceVersion, present |-> FALSE]
        /\ \A p \in Paths \ {Src, Prod} : AliasJoined[p] = AliasSeen[p]
        /\ DOMAIN AliasJoined = Paths /\ AliasJoined = [p \in Paths |-> AliasJoined[p]]
    BY <1>4, CatalogAssumption, Names, NameRows DEF AliasJoined
  <2>3. ASSUME NEW p \in Paths
        PROVE  /\ AliasJoined[p] \in [rec : 0..Rows, file : File, present : BOOLEAN]
               /\ AliasJoined[p].present <=> p \in Seen
               /\ p \in Seen => AliasJoined[p].rec \in 1..Rows
                                /\ AliasJoined[p].file = scan.seen[p]
               /\ p \in Seen /\ (p = Prod => ~Joins) =>
                    AliasJoined[p].rec = RecordingOf(scan.seen[p].id)
    <3>1. p \in Seen => AliasSeen[p].rec = RecordingOf(scan.seen[p].id)
      BY DEF AliasSeen
    <3>2. CASE p = Prod
      BY <1>0, <1>1, <1>4, <2>1, <2>2, <3>2, NameRows
    <3>3. CASE p = Src
      <4>1. CASE AliasSeen[Src].rec # 0
        BY <2>2, <3>1, <3>3, <4>1, NameRows, CatalogAssumption
      <4>2. CASE AliasSeen[Src].rec = 0
        <5>1. Src \notin Seen
          BY <4>2, NameRows, <1>0
        <5>2. AliasJoined[p] = [rec |-> Owner, file |-> SourceVersion, present |-> FALSE]
          BY <2>2, <3>3, <4>2
        <5>3. Owner \in 0..Rows
          BY <1>0, <1>1, <1>4
        <5>4. AliasJoined[p] \in [rec : 0..Rows, file : File, present : BOOLEAN]
          BY <1>1, <1>4, <5>2, <5>3
        <5>5. QED BY <3>3, <5>1, <5>2, <5>4
      <4>3. QED BY <4>1, <4>2
    <3>4. CASE p \notin {Src, Prod}
      BY <2>2, <3>1, <3>4, NameRows
    <3>5. QED BY <3>2, <3>3, <3>4
  <2>4. ASSUME NEW p \in Paths
        PROVE  AssetJoined[p] \in [rec : 0..Rows, src : File, at : Times,
                                   status : {"none", "verified", "unverified", "missing"}]
    BY <1>0, <1>1, <1>4, NameRows, Names DEF AssetJoined
  <2>5. ASSUME NEW p \in Paths
        PROVE  Refreshed(p) \in [rec : 0..Rows, src : File, at : Times,
                                 status : {"none", "verified", "unverified", "missing"}]
    BY <2>4 DEF Refreshed
  <2>6. QED BY <1>2, <2>2, <2>3, <2>5
<1>5. QED BY <1>3, <1>4

-----------------------------------------------------------------------------
(* Types. *)

Good == TypeOK /\ Numbered /\ Identified

\* A row keeps its type when more recordings come, and a job keeps its key.
LEMMA ApplyGood ==
  ASSUME Good, Apply
  PROVE  Good'
<1> USE DEF Good
<1>0. Len(version) \in Nat /\ Rows \in Nat /\ Rows >= Len(version)
  BY NewRows
<1>1. version' \in Seq(File) /\ Len(version') = Rows
  BY JoinedRows DEF Apply
<1>2. alias' \in [Paths -> [rec : 0..Rows, file : File, present : BOOLEAN]]
      /\ \A p \in Paths : alias'[p].present => alias'[p].rec \in 1..Rows
  BY <1>0, JoinedRows DEF Apply
<1>3. asset' \in [Paths -> [rec : 0..Rows, src : File, at : Times,
                            status : {"none", "verified", "unverified", "missing"}]]
  BY JoinedRows DEF Apply
<1>4. stats' \subseteq [rec : 1..Rows, file : File, present : {TRUE}]
  <2>1. \A p \in Paths : alias'[p].present =>
          alias'[p] \in [rec : 1..Rows, file : File, present : {TRUE}]
    BY <1>2
  <2>2. stats' = Counted(alias')
    BY DEF Apply
  <2>3. QED BY <2>1, <2>2 DEF Counted
<1>5. /\ UNCHANGED <<files, active, proof, job, del, budget>>
      /\ status' = "verified" /\ fresh' = TRUE /\ scan' = NoScan
      /\ prep' = IF scan.by = "prepare" THEN [prep EXCEPT !.pc = "register"] ELSE prep
  BY DEF Apply
<1>6. proof' \in [Paths -> [rec : 0..Rows, src : File, file : File, valid : BOOLEAN]]
      /\ DOMAIN job' \subseteq (1..Rows) \X File
  BY <1>0, <1>5 DEF TypeOK
<1>7. prep' \in [pc : {"idle", "enter", "reuse", "transcode", "publish", "recheck", "reconcile",
                       "register", "record", "verify", "fail"},
                 src : File, rec : 0..Rows, out : File, candidate : BOOLEAN]
      /\ del' \in [pc : {"idle", "waiting", "check", "capture", "judge", "record", "finish"},
                   rec : 0..Rows, src : File, plan : Plans, left : SUBSET Paths, held : File]
  <2>1. prep \in [pc : {"idle", "enter", "reuse", "transcode", "publish", "recheck", "reconcile",
                       "register", "record", "verify", "fail"},
                 src : File, rec : 0..Rows, out : File, candidate : BOOLEAN]
        /\ del \in [pc : {"idle", "waiting", "check", "capture", "judge", "record", "finish"},
                   rec : 0..Rows, src : File, plan : Plans, left : SUBSET Paths, held : File]
    BY <1>0 DEF TypeOK
  <2>2. QED BY <1>5, <2>1
<1>8. scan' \in [by : {"none", "loop", "prepare"}, todo : SUBSET Paths,
                 seen : [Paths -> File], manifest : Stamps, clean : BOOLEAN]
  BY <1>5, FileType DEF NoScan
<1>9. TypeOK'
  BY <1>1, <1>2, <1>3, <1>4, <1>5, <1>6, <1>7, <1>8 DEF TypeOK, files
<1>10. Numbered'
  <2>1. prep'.rec = prep.rec /\ prep'.src = prep.src
        /\ prep'.pc \in {prep.pc, "register"} /\ (prep'.pc = "register" => prep.rec # 0)
    BY <1>5 DEF TypeOK, Numbered
  <2>2. prep'.pc = "reuse" => Key' \in DOMAIN job'
    BY <1>5, <2>1 DEF Key, Numbered
  <2>3. QED BY <1>0, <1>2, <1>5, <2>1, <2>2, FileType DEF Numbered, NoScan
<1>11. Identified'
  BY <1>5 DEF Identified, files
<1>12. QED BY <1>9, <1>10, <1>11

Scans == [by : {"none", "loop", "prepare"}, todo : SUBSET Paths,
          seen : [Paths -> File], manifest : Stamps, clean : BOOLEAN]
Stages == [pc : {"idle", "enter", "reuse", "transcode", "publish", "recheck", "reconcile",
                 "register", "record", "verify", "fail"},
           src : File, rec : 0..Len(version), out : File, candidate : BOOLEAN]
Deletions == [pc : {"idle", "waiting", "check", "capture", "judge", "record", "finish"},
              rec : 0..Len(version), src : File, plan : Plans, left : SUBSET Paths,
              held : File]
Names0 == [rec : 0..Len(version), file : File, present : BOOLEAN]
Assets == [rec : 0..Len(version), src : File, at : Times,
           status : {"none", "verified", "unverified", "missing"}]
Proofs == [rec : 0..Len(version), src : File, file : File, valid : BOOLEAN]

LEMMA Parts ==
  ASSUME TypeOK
  PROVE  /\ scan \in Scans /\ prep \in Stages /\ del \in Deletions
         /\ alias \in [Paths -> Names0] /\ asset \in [Paths -> Assets]
         /\ proof \in [Paths -> Proofs] /\ disk \in [Paths -> File]
         /\ Len(version) \in Nat
         /\ NoScan \in Scans /\ NoPrep \in Stages /\ NoDel \in Deletions
<1>1. Len(version) \in Nat
  BY LenProperties DEF TypeOK
<1>2. NoScan \in Scans /\ NoPrep \in Stages
  BY <1>1, FileType DEF NoScan, NoPrep, Scans, Stages
<1>3. NoDel \in Deletions
  <2>1. [p \in {} |-> NoFile] \in [{} -> File] /\ {} \in SUBSET Paths
    OBVIOUS
  <2>2. [p \in {} |-> NoFile] \in Plans
    BY <2>1 DEF Plans
  <2>3. QED BY <1>1, <2>2, FileType DEF NoDel, Deletions
<1>4. QED BY <1>1, <1>2, <1>3 DEF TypeOK, Scans, Stages, Deletions, Names0, Assets, Proofs

\* What a recorder does by writing to the file it has open: that file has a new time, and all
\* identities stay where they are.
LEMMA WrittenFile ==
  ASSUME TypeOK, RecordWrite, NEW f \in File
  PROVE  /\ Written(f) \in File /\ Written(f).id = f.id
         /\ Written(f) = f \/ Written(f) = [id |-> writing, at |-> clock + 1]
         /\ (Written(f) = NoFile <=> f = NoFile)
<1>1. clock + 1 \in Times /\ writing # 0 /\ writing \in Times
  BY CatalogAssumption DEF RecordWrite, TypeOK, Times
<1>2. CASE f.id = writing
  <2>1. Written(f) = [id |-> writing, at |-> clock + 1] /\ f.id = writing
    BY <1>2 DEF Written, File
  <2>2. QED BY <1>1, <2>1, FileType DEF NoFile
<1>3. CASE f.id # writing
  BY <1>3 DEF Written
<1>4. QED BY <1>2, <1>3

LEMMA WriteStep ==
  ASSUME TypeOK, RecordWrite
  PROVE  /\ clock' = clock + 1 /\ clock' \in Times
         /\ disk' \in [Paths -> File]
         /\ \A p \in Paths : disk[p] \in File /\ disk'[p] = Written(disk[p])
         /\ quarantine' \subseteq File \ {NoFile}
         /\ \A f \in quarantine : f \in File /\ Written(f) \in quarantine'
         /\ del' \in Deletions
         /\ del'.pc = del.pc /\ del'.rec = del.rec /\ del'.src = del.src
         /\ del'.plan = del.plan /\ del'.left = del.left
         /\ del.held \in File /\ del'.held = Written(del.held)
<1>1. clock' = clock + 1 /\ clock' \in Times
  BY CatalogAssumption DEF RecordWrite, TypeOK, Times
<1>2. /\ disk' = [p \in Paths |-> Written(disk[p])]
      /\ quarantine' = {Written(f) : f \in quarantine}
      /\ del' = [del EXCEPT !.held = Written(del.held)]
  BY DEF RecordWrite
<1>3. /\ \A p \in Paths : disk[p] \in File
      /\ quarantine \subseteq File \ {NoFile} /\ del \in Deletions
  BY Parts DEF TypeOK
<1>4. \A p \in Paths : disk'[p] = Written(disk[p])
  BY <1>2
<1>5. disk' \in [Paths -> File]
  BY <1>2, <1>3, WrittenFile
<1>6. \A f \in quarantine : f \in File /\ Written(f) \in quarantine'
  BY <1>2, <1>3
<1>7. quarantine' \subseteq File \ {NoFile}
  BY <1>2, <1>3, WrittenFile
<1>8. /\ del.held \in File /\ del'.held = Written(del.held)
      /\ del'.pc = del.pc /\ del'.rec = del.rec /\ del'.src = del.src
      /\ del'.plan = del.plan /\ del'.left = del.left
  BY <1>2, <1>3 DEF Deletions
<1>9. del' \in Deletions
  <2>1. Written(del.held) \in File
    BY <1>8, WrittenFile
  <2>2. QED BY <1>2, <1>3, <2>1 DEF Deletions
<1>10. QED BY <1>1, <1>3, <1>4, <1>5, <1>6, <1>7, <1>8, <1>9

LEMMA OutsideGood ==
  ASSUME Good, Outside
  PROVE  Good'
<1>w. ASSUME RecordWrite
      PROVE  /\ disk' \in [Paths -> File] /\ clock' \in Times
             /\ \A x \in Paths : /\ disk'[x].id = disk[x].id
                                 /\ disk'[x] = NoFile <=> disk[x] = NoFile
  <2>1. disk' \in [Paths -> File] /\ clock' \in Times
    BY <1>w, WriteStep DEF Good
  <2>2. \A x \in Paths : disk[x] \in File /\ disk'[x] = Written(disk[x])
    BY <1>w, WriteStep DEF Good
  <2>3. \A f \in File : Written(f).id = f.id /\ (Written(f) = NoFile <=> f = NoFile)
    BY <1>w, WrittenFile DEF Good
  <2>4. QED BY <2>1, <2>2, <2>3
<1> USE Parts DEF Good
<1>1. /\ UNCHANGED <<version, alias, asset, proof, status, stats, fresh, job, prep>>
      /\ scan' \in {scan, [scan EXCEPT !.clean = FALSE]}
      /\ UNCHANGED <<quarantine, del>> \/ RecordWrite
  BY DEF Outside, RenameCheck, Rename, Remove, BeginRecording, RecordOpen, RecordWrite,
         EndRecording, files, tables, shown, Disturb
<1> DEFINE Goal == /\ disk' \in [Paths -> File] /\ side' \in Stamps /\ active' \subseteq Paths
                   /\ rename' \in Renames /\ writing' \in Times
                   /\ clock' \in Times /\ kept' \subseteq Times \ {0}
                   /\ \A x \in Paths : disk'[x] = NoFile \/ disk'[x].id # 0
<1>0. /\ NoFile \in File /\ disk \in [Paths -> File] /\ side \in Stamps /\ NoSide \in Stamps
      /\ rename \in Renames /\ writing \in Times /\ 0 \in Times
      /\ \A x \in Paths : disk[x] = NoFile \/ disk[x].id # 0
      /\ active \subseteq Paths /\ clock \in Times /\ kept \subseteq Times \ {0}
  BY FileType DEF TypeOK, Identified
<1>a. ASSUME NEW p \in Paths, NEW q \in Paths, RenameCheck(p, q)
      PROVE  Goal
  BY <1>0, <1>a, RenameType DEF RenameCheck
<1>b. ASSUME Rename
      PROVE  Goal
  <2>1. rename' = NoRename /\ UNCHANGED <<writing, clock, active>> /\ kept' \subseteq kept
        /\ side' \in {side, NoSide}
    BY <1>b DEF Rename, SideAfter
  <2>2. disk' = disk \/ disk' = [disk EXCEPT ![rename[2]] = disk[rename[1]],
                                            ![rename[1]] = NoFile]
    BY <1>b DEF Rename
  <2>3. rename[1] \in Paths /\ rename[2] \in Paths
    BY <1>0, <1>b, RenameType DEF Rename
  <2>4. disk' \in [Paths -> File] /\ \A x \in Paths : disk'[x] = NoFile \/ disk'[x].id # 0
    BY <1>0, <2>2, <2>3
  <2>5. QED BY <1>0, <2>1, <2>4, RenameType
<1>c. ASSUME NEW p \in Paths, Remove(p)
      PROVE  Goal
  <2>1. disk' = [disk EXCEPT ![p] = NoFile]
        /\ UNCHANGED <<rename, writing, clock, active>> /\ kept' \subseteq kept
        /\ side' \in {side, NoSide}
    BY <1>c DEF Remove, SideAfter
  <2>2. disk' \in [Paths -> File] /\ \A x \in Paths : disk'[x] = NoFile \/ disk'[x].id # 0
    BY <1>0, <2>1
  <2>3. QED BY <1>0, <2>1, <2>2
<1>e. ASSUME RecordOpen(Src)
      PROVE  Goal
  <2> DEFINE f == IF disk[Src] = NoFile THEN [id |-> clock + 1, at |-> clock + 1]
                  ELSE [disk[Src] EXCEPT !.at = clock + 1]
  <2>1. clock' = clock + 1 /\ clock' \in Times \ {0}
    BY <1>e, CatalogAssumption DEF RecordOpen, TypeOK, Times
  <2>2. f \in File /\ f.id \in Times \ {0}
    <3>1. CASE disk[Src] = NoFile
      BY <2>1, <3>1, FileType
    <3>2. CASE disk[Src] # NoFile
      <4>1. disk[Src] \in File /\ disk[Src].id # 0
        BY <3>2, Names DEF TypeOK, Identified
      <4>2. f = [disk[Src] EXCEPT !.at = clock']
        BY <2>1, <3>2
      <4>3. QED BY <2>1, <4>1, <4>2 DEF File
    <3>3. QED BY <3>1, <3>2
  <2>3. disk' = [disk EXCEPT ![Src] = f] /\ kept' = kept \cup {f.id} /\ writing' = f.id
        /\ UNCHANGED <<side, rename, active>>
    BY <1>e DEF RecordOpen
  <2> HIDE DEF f
  <2>4. QED BY <1>0, <2>1, <2>2, <2>3, Names
<1>f. ASSUME RecordWrite
      PROVE  Goal
  <2>1. UNCHANGED <<side, rename, writing, kept, active>>
    BY <1>f DEF RecordWrite
  <2>2. QED BY <1>0, <1>f, <1>w, <2>1
<1>4. scan' \in Scans
      /\ scan'.by = scan.by /\ scan'.manifest = scan.manifest /\ scan'.seen = scan.seen
  BY <1>1 DEF Scans
<1>5. Goal
  <2>1. BeginRecording(Src) \/ EndRecording(Src) => Goal
    BY <1>0, Names DEF BeginRecording, EndRecording, files
  <2> HIDE DEF Goal
  <2>2. QED BY <1>a, <1>b, <1>c, <1>e, <1>f, <2>1 DEF Outside
<1>6. /\ quarantine' \subseteq File \ {NoFile} /\ del' \in Deletions
      /\ del'.pc = del.pc /\ del'.plan = del.plan /\ del'.left = del.left
      /\ del'.held = NoFile <=> del.held = NoFile
      /\ del'.held.id = del.held.id
  <2>1. CASE RecordWrite
    <3>1. /\ quarantine' \subseteq File \ {NoFile} /\ del' \in Deletions
          /\ del'.pc = del.pc /\ del'.plan = del.plan /\ del'.left = del.left
          /\ del.held \in File /\ del'.held = Written(del.held)
      BY <2>1, WriteStep
    <3>2. QED BY <2>1, <3>1, WrittenFile
  <2>2. CASE UNCHANGED <<quarantine, del>>
    BY <2>2 DEF TypeOK
  <2>3. QED BY <1>1, <2>1, <2>2
<1>7. TypeOK'
  BY <1>1, <1>4, <1>5, <1>6 DEF TypeOK, Scans, Deletions
<1>8. Numbered' /\ Identified'
  BY <1>1, <1>4, <1>5, <1>6 DEF Numbered, Identified, Key
<1>9. QED BY <1>7, <1>8

LEMMA ScanGood ==
  ASSUME Good, LoopScan \/ PrepareScan \/ ScanFile \/ ScanRefused
  PROVE  Good'
<1> USE Parts DEF Good
<1>1. /\ UNCHANGED <<files, active, version, alias, asset, proof, stats, fresh, job, del>>
      /\ status' \in {"pending", "verified", "unavailable"}
  BY DEF LoopScan, PrepareScan, ScanBegin, ScanFile, ScanRefused, files, tables, shown, TypeOK
<1>2. CASE LoopScan \/ PrepareScan
  <2>1. PICK by \in {"loop", "prepare"} :
          /\ scan' = [NoScan EXCEPT !.by = by, !.todo = {p \in Paths : disk[p] # NoFile}]
          /\ by = "prepare" => prep.pc = "reconcile"
          /\ prep' = prep
    BY <1>2 DEF LoopScan, PrepareScan, ScanBegin
  <2>2. scan' \in Scans /\ scan'.by = by /\ scan'.manifest = NoSide
    BY <2>1 DEF Scans, NoScan
  <2>3. TypeOK'
    BY <1>1, <2>1, <2>2 DEF TypeOK, Scans, files
  <2>4. Numbered' /\ Identified'
    BY <1>1, <2>1, <2>2 DEF Numbered, Identified, Key, files
  <2>5. QED BY <2>3, <2>4
<1>3. CASE ScanFile
  <2> DEFINE p == First(scan.todo)
             m == IF p = Prod /\ Loaded THEN side ELSE scan.manifest
  <2>1. p \in Paths /\ disk[p] \in File /\ m \in Stamps
    BY <1>3, Names DEF ScanFile, TypeOK, Scans
  <2>2. /\ scan' = [scan EXCEPT !.todo = @ \ {p}, !.seen[p] = disk[p], !.manifest = m]
        /\ prep' = prep
    BY <1>3 DEF ScanFile
  <2>3. disk[p] # NoFile /\ (m = scan.manifest \/ p = Prod)
    BY <1>3 DEF ScanFile
  <2> HIDE DEF p, m
  <2>4. scan' \in Scans /\ scan'.by = scan.by /\ scan'.manifest = m
        /\ scan'.seen = [scan.seen EXCEPT ![p] = disk[p]]
    BY <2>1, <2>2 DEF Scans
  <2>5. TypeOK'
    BY <1>1, <2>2, <2>4 DEF TypeOK, Scans, files
  <2>6. m # NoSide => scan'.seen[Prod] # NoFile
    BY <2>1, <2>3, <2>4, Names DEF Numbered, Scans
  <2>7. Numbered' /\ Identified'
    BY <1>1, <2>2, <2>4, <2>6 DEF Numbered, Identified, Key, files
  <2>8. QED BY <2>5, <2>7
<1>4. CASE ScanRefused
  <2>1. scan' = NoScan
        /\ prep' = IF scan.by = "prepare" THEN [prep EXCEPT !.pc = "fail"] ELSE prep
    BY <1>4 DEF ScanRefused
  <2>2. prep' \in Stages /\ prep'.rec = prep.rec /\ prep'.src = prep.src
        /\ (prep' = prep \/ (prep'.pc = "fail" /\ prep.rec # 0))
    BY <2>1 DEF Stages, Numbered
  <2>3. TypeOK'
    BY <1>1, <2>1, <2>2 DEF TypeOK, Scans, Stages, files
  <2>4. Numbered' /\ Identified'
    BY <1>1, <2>1, <2>2 DEF Numbered, Identified, Key, NoScan, files
  <2>5. QED BY <2>3, <2>4
<1>5. QED BY <1>2, <1>3, <1>4

\* What a step of the stage may change, and what follows.
StageStep ==
  /\ prep' \in Stages
  /\ UNCHANGED <<quarantine, rename, writing, active, version, alias, status, stats, fresh, del>>
  /\ asset' \in [Paths -> Assets] /\ proof' \in [Paths -> Proofs]
  /\ scan' = scan \/ scan' = [scan EXCEPT !.clean = FALSE]
  /\ scan.by # "prepare" \/ prep'.pc = "reconcile"
  /\ prep'.pc \in {"idle", "enter"} \/ prep'.rec # 0
  /\ prep'.pc # "reuse" \/ Key' \in DOMAIN job'
JobsGood ==
  /\ DOMAIN job \subseteq (1..Len(version)) \X File
  /\ \A k \in DOMAIN job :
       job[k] \in [status : {"running", "ready", "stopped"}, out : File]
DiskGood ==
  /\ disk \in [Paths -> File] /\ \A p \in Paths : disk[p] = NoFile \/ disk[p].id # 0
  /\ side \in Stamps /\ clock \in Times /\ kept \subseteq Times \ {0}

LEMMA StageGood ==
  ASSUME Good, StageStep, JobsGood', DiskGood'
  PROVE  Good'
<1> USE Parts DEF Good, StageStep
<1>1. scan' \in Scans /\ scan'.by = scan.by /\ scan'.manifest = scan.manifest
      /\ scan'.seen = scan.seen
  BY DEF Scans
<1>2. TypeOK'
  BY <1>1 DEF TypeOK, Scans, Stages, Assets, Proofs, JobsGood, DiskGood
<1>3. Numbered' /\ Identified'
  BY <1>1 DEF Numbered, Identified, DiskGood
<1>4. QED BY <1>2, <1>3

LEMMA SameGood ==
  ASSUME Good
  PROVE  /\ JobsGood /\ DiskGood
         /\ UNCHANGED job /\ UNCHANGED version => JobsGood'
         /\ UNCHANGED files => DiskGood'
BY DEF Good, TypeOK, Identified, JobsGood, DiskGood, files

\* Jobs are recorded under a recording and a version.
LEMMA RecordGood ==
  ASSUME Good, NEW k \in (1..Len(version)) \X File, NEW s \in {"running", "ready", "stopped"},
         NEW out \in File, Record(k, s, out)
  PROVE  k \in DOMAIN job' /\ (version' = version => JobsGood')
BY DEF Record, Good, TypeOK, JobsGood

LEMMA InvalidateGood ==
  ASSUME Good, NEW p \in Paths, Invalidate(p)
  PROVE  asset' \in [Paths -> Assets] /\ proof' \in [Paths -> Proofs]
BY Parts DEF Good, Invalidate, Assets, Proofs

LEMMA PrepareGood ==
  ASSUME Good, Preparing \/ PrepareBegin
  PROVE  Good'
<1> USE Parts DEF Good
<1>0. Target \in Paths /\ prep.src \in File /\ prep.out \in File /\ prep.rec \in 0..Len(version)
  BY Names DEF Target, Stages
<1>1. prep.pc \notin {"idle", "enter"} => Key \in (1..Len(version)) \X File
  BY <1>0 DEF Numbered, Key
<1>2. /\ \A k \in DOMAIN job :
           job[k] \in [status : {"running", "ready", "stopped"}, out : File]
      /\ side \in Stamps /\ clock \in Times /\ kept \subseteq Times \ {0}
  BY DEF TypeOK
<1>3. CASE PrepareBegin
  <2>1. prep' = [NoPrep EXCEPT !.pc = "enter", !.src = disk[Src]] /\ prep.pc = "idle"
        /\ UNCHANGED <<files, active, tables, shown, job, scan, del>>
    BY <1>3 DEF PrepareBegin
  <2>2. prep' \in Stages /\ prep'.pc = "enter"
    BY <2>1, Names DEF Stages, NoPrep
  <2>3. scan.by # "prepare"
    BY <2>1 DEF Numbered
  <2>4. QED BY <1>2, <2>1, <2>2, <2>3, SameGood, StageGood DEF StageStep, files, tables, shown
<1>4. CASE PrepareEnter
  <2>1. UNCHANGED <<files, active, tables, shown, scan, del>> /\ prep.pc = "enter"
    BY <1>4 DEF PrepareEnter
  <2>2. scan.by # "prepare"
    BY <2>1 DEF Numbered
  <2>3. CASE EntryOf(Src, prep.src)
    <3> DEFINE k == <<alias[Src].rec, prep.src>>
    <3>1. alias[Src].rec \in 1..Len(version)
      BY <2>3, Names DEF EntryOf, Numbered, Names0
    <3>2. k \in (1..Len(version)) \X File
      BY <1>0, <3>1
    <3>3. prep' = [prep EXCEPT !.rec = alias[Src].rec,
                     !.pc = IF Ready(k) THEN "reuse" ELSE "transcode"]
          /\ IF Ready(k) THEN UNCHANGED job ELSE Record(k, "running", NoFile)
      BY <1>4, <2>3 DEF PrepareEnter
    <3>4. prep' \in Stages /\ prep'.rec # 0 /\ prep'.pc \in {"reuse", "transcode"}
          /\ Key' = k /\ (prep'.pc = "reuse" => Ready(k))
      <4>1. PICK pc \in {"reuse", "transcode"} :
              prep' = [prep EXCEPT !.rec = alias[Src].rec, !.pc = pc]
              /\ (pc = "reuse" => Ready(k))
        BY <3>3
      <4>2. prep' \in Stages /\ prep'.rec = alias[Src].rec /\ prep'.pc = pc
            /\ prep'.src = prep.src
        <5>1. alias[Src].rec \in 0..Len(version)
          BY Names DEF Names0
        <5>2. QED BY <4>1, <5>1 DEF Stages
      <4>3. QED BY <3>1, <4>1, <4>2 DEF Key
    <3>5. JobsGood' /\ (Ready(k) => k \in DOMAIN job')
      <4>0. UNCHANGED version
        BY <2>1 DEF tables
      <4>1. CASE Ready(k)
        BY <3>3, <4>0, <4>1, SameGood DEF Ready
      <4>2. CASE ~Ready(k)
        <5>1. Record(k, "running", NoFile)
          BY <3>3, <4>2
        <5> HIDE DEF k
        <5>2. QED BY <3>2, <4>0, <4>2, <5>1, FileType, RecordGood
      <4>3. QED BY <4>1, <4>2
    <3> HIDE DEF k
    <3>6. QED
      BY <1>2, <2>1, <2>2, <3>4, <3>5, SameGood, StageGood DEF StageStep, files, tables, shown
  <2>4. CASE ~EntryOf(Src, prep.src)
    <3>1. prep' = NoPrep /\ UNCHANGED job
      BY <1>4, <2>4 DEF PrepareEnter
    <3>2. prep' \in Stages /\ prep'.pc = "idle"
      BY <3>1 DEF NoPrep
    <3>3. QED
      BY <1>2, <2>1, <2>2, <3>1, <3>2, SameGood, StageGood DEF StageStep, files, tables, shown
  <2>5. QED BY <2>3, <2>4
<1>5. CASE PrepareReuse
  <2>1. /\ prep' = NoPrep /\ prep.pc = "reuse"
        /\ UNCHANGED <<files, active, version, alias, shown, scan, del>>
        /\ \/ UNCHANGED <<job, proof, asset>>
           \/ Record(Key, "stopped", job[Key].out) /\ Invalidate(Target)
    BY <1>5 DEF PrepareReuse
  <2>2. scan.by # "prepare" /\ Key \in DOMAIN job /\ job[Key].out \in File
    BY <1>2, <2>1 DEF Numbered
  <2>3. JobsGood'
        /\ asset' \in [Paths -> Assets] /\ proof' \in [Paths -> Proofs]
    <3>1. CASE UNCHANGED <<job, proof, asset>>
      BY <2>1, <3>1, SameGood
    <3>2. CASE Record(Key, "stopped", job[Key].out) /\ Invalidate(Target)
      <4>1. Key \in (1..Len(version)) \X File
        BY <1>1, <2>1
      <4>2. QED BY <1>0, <2>1, <2>2, <3>2, <4>1, RecordGood, InvalidateGood
    <3>3. QED BY <2>1, <3>1, <3>2
  <2>4. prep' \in Stages /\ prep'.pc = "idle"
    BY <2>1 DEF NoPrep
  <2>5. QED BY <1>2, <2>1, <2>2, <2>3, <2>4, SameGood, StageGood DEF StageStep, files, shown
<1>6. ASSUME prep.pc \notin {"idle", "enter", "reuse"}, scan.by # "prepare",
             NEW st \in Stages, prep' = st,
             st.pc \notin {"idle", "enter", "reuse"}, st.rec = prep.rec,
             UNCHANGED <<files, active, tables, shown, job, scan, del>>
      PROVE  Good'
  <2>1. prep'.rec # 0
    BY <1>6 DEF Numbered
  <2>2. QED BY <1>2, <1>6, <2>1, SameGood, StageGood DEF StageStep, files, tables, shown
<1>7. ASSUME NEW pc \in {"transcode", "publish", "recheck", "reconcile", "register", "record",
                         "verify", "fail"}
      PROVE  [prep EXCEPT !.pc = pc] \in Stages
  BY DEF Stages
<1>8. CASE PrepareTranscode \/ PrepareRefused \/ PrepareRecheck
  <2>1. /\ prep.pc \in {"transcode", "publish", "recheck"}
        /\ UNCHANGED <<files, active, tables, shown, job, scan, del>>
    BY <1>8 DEF PrepareTranscode, PrepareRefused, PrepareRecheck
  <2>2. scan.by # "prepare"
    BY <2>1 DEF Numbered
  <2>3. PICK st \in Stages : prep' = st /\ st.pc \in {"recheck", "publish", "fail", "reconcile"}
                             /\ st.rec = prep.rec
    <3>1. CASE PrepareRefused \/ PrepareRecheck
      <4>1. PICK pc \in {"fail", "reconcile"} : prep' = [prep EXCEPT !.pc = pc]
        BY <3>1 DEF PrepareRefused, PrepareRecheck, Enter
      <4>2. prep' \in Stages /\ prep'.pc = pc /\ prep'.rec = prep.rec
        BY <4>1 DEF Stages
      <4>3. QED BY <4>2
    <3>2. CASE PrepareTranscode
      <4>1. disk[Prod] \in File
        BY Names
      <4>2. PICK pc \in {"recheck", "publish", "fail"}, out \in File :
              \/ prep' = [prep EXCEPT !.pc = pc]
              \/ prep' = [prep EXCEPT !.pc = pc, !.candidate = TRUE]
              \/ prep' = [prep EXCEPT !.pc = pc, !.out = out, !.candidate = TRUE]
        <5>1. CASE ~EntryOf(Src, prep.src)
          BY <1>0, <3>2, <5>1 DEF PrepareTranscode, Enter
        <5>2. CASE EntryOf(Src, prep.src) /\ Target = Src
          BY <1>0, <3>2, <5>2 DEF PrepareTranscode
        <5>3. CASE EntryOf(Src, prep.src) /\ Target # Src /\ disk[Prod] = NoFile
          BY <1>0, <3>2, <5>3 DEF PrepareTranscode
        <5>4. CASE EntryOf(Src, prep.src) /\ Target # Src /\ disk[Prod] # NoFile
          BY <4>1, <3>2, <5>4 DEF PrepareTranscode
        <5>5. QED BY <5>1, <5>2, <5>3, <5>4
      <4>3. prep' \in Stages /\ prep'.pc = pc /\ prep'.rec = prep.rec
        BY <4>2 DEF Stages
      <4>4. QED BY <4>3
    <3>3. QED BY <1>8, <3>1, <3>2
  <2>4. QED BY <1>6, <2>1, <2>2, <2>3
<1>9. CASE PreparePublish
  <2> DEFINE f == [id |-> clock + 1, at |-> clock + 1]
  <2>1. /\ prep.pc = "publish" /\ clock < MaxWrites /\ clock' = clock + 1
        /\ disk' = [disk EXCEPT ![Prod] = f]
        /\ side' = [source |-> prep.src.at, target |-> f.at]
        /\ kept' = kept \cup {f.id}
        /\ prep' = [prep EXCEPT !.pc = "recheck", !.out = f]
        /\ UNCHANGED <<quarantine, rename, writing, active, tables, shown, job, del>> /\ Disturb
    BY <1>9 DEF PreparePublish
  <2>2. clock' \in Times /\ clock' # 0 /\ f \in File /\ f.id \in Times \ {0}
        /\ prep.src.at \in Times /\ f.at \in Times
    <3>1. clock + 1 \in Times /\ clock + 1 # 0
      BY <1>2, <2>1, CatalogAssumption DEF Times
    <3>2. QED BY <1>0, <2>1, <3>1, FileType
  <2> HIDE DEF f
  <2>3. disk' \in [Paths -> File] /\ \A p \in Paths : disk'[p] = NoFile \/ disk'[p].id # 0
    BY <2>1, <2>2 DEF Identified
  <2>4. side' \in Stamps /\ kept' \subseteq Times \ {0}
    BY <1>2, <2>1, <2>2 DEF Stamps
  <2>5. prep' \in Stages /\ prep'.pc = "recheck" /\ prep'.rec # 0 /\ scan.by # "prepare"
    BY <2>1, <2>2 DEF Stages, Numbered
  <2>6. QED
    BY <1>2, <2>1, <2>2, <2>3, <2>4, <2>5, SameGood, StageGood
    DEF StageStep, DiskGood, tables, shown, Disturb
<1>10. CASE PrepareRegister \/ PrepareRecord
  <2>1. /\ prep.pc \in {"register", "record"}
        /\ UNCHANGED <<files, active, version, alias, shown, job, scan, del>>
        /\ \E pc \in {"record", "verify", "fail"} : prep' = [prep EXCEPT !.pc = pc]
    BY <1>10 DEF PrepareRegister, PrepareRecord, Enter
  <2>2. prep' \in Stages /\ prep'.rec # 0 /\ prep'.pc \in {"record", "verify", "fail"}
        /\ scan.by # "prepare"
    BY <2>1 DEF Stages, Numbered
  <2>3. asset' \in [Paths -> Assets] /\ proof' \in [Paths -> Proofs]
    <3>1. CASE PrepareRegister
      <4>1. alias[Target].file.at \in Times
        BY <1>0, FileType DEF Names0
      <4>2. [rec |-> prep.rec, src |-> prep.src, status |-> "verified",
             at |-> alias[Target].file.at] \in Assets
        BY <1>0, <4>1 DEF Assets
      <4>3. QED BY <3>1, <4>2 DEF PrepareRegister
    <3>2. CASE PrepareRecord
      <4>1. [rec |-> prep.rec, src |-> prep.src, file |-> prep.out, valid |-> TRUE] \in Proofs
        BY <1>0 DEF Proofs
      <4>2. [asset EXCEPT ![Target].status = "verified"] \in [Paths -> Assets]
        BY DEF Assets
      <4>3. QED BY <3>2, <4>1, <4>2 DEF PrepareRecord
    <3>3. QED BY <1>10, <3>1, <3>2
  <2>4. QED BY <1>2, <2>1, <2>2, <2>3, SameGood, StageGood DEF StageStep, files, shown
<1>11. CASE PrepareFinish
  <2>1. /\ prep.pc = "verify" /\ UNCHANGED <<files, active, tables, shown, scan, del>>
        /\ \/ Record(Key, "ready", prep.out) /\ prep' = NoPrep
           \/ prep' = [prep EXCEPT !.pc = "fail"] /\ UNCHANGED job
    BY <1>11 DEF PrepareFinish, Enter
  <2>2. prep' \in Stages /\ scan.by # "prepare" /\ prep'.pc \in {"idle", "fail"}
        /\ (prep'.pc = "fail" => prep'.rec # 0)
    BY <2>1 DEF Stages, Numbered, NoPrep
  <2>3. JobsGood'
    <3>1. Key \in (1..Len(version)) \X File /\ UNCHANGED version
      BY <1>1, <2>1 DEF tables
    <3>2. QED BY <1>0, <2>1, <3>1, SameGood, RecordGood
  <2>4. QED BY <1>2, <2>1, <2>2, <2>3, SameGood, StageGood DEF StageStep, files, tables, shown
<1>12. CASE PrepareFail
  <2>1. /\ prep.pc = "fail" /\ UNCHANGED <<files, active, version, alias, shown, scan, del>>
        /\ prep' = NoPrep /\ Record(Key, "stopped", NoFile)
        /\ Invalidate(Target) \/ UNCHANGED <<proof, asset>>
    BY <1>12 DEF PrepareFail
  <2>2. prep' \in Stages /\ scan.by # "prepare" /\ prep'.pc = "idle"
    BY <2>1 DEF Numbered, NoPrep
  <2>3. JobsGood'
        /\ asset' \in [Paths -> Assets] /\ proof' \in [Paths -> Proofs]
    <3>1. Key \in (1..Len(version)) \X File
      BY <1>1, <2>1
    <3>2. QED BY <1>0, <2>1, <3>1, FileType, RecordGood, InvalidateGood
  <2>4. QED BY <1>2, <2>1, <2>2, <2>3, SameGood, StageGood DEF StageStep, files, shown
<1>13. QED
  BY <1>3, <1>4, <1>5, <1>8, <1>9, <1>10, <1>11, <1>12 DEF Preparing

\* What a step of the deletion may change, and what follows.
DeletionStep ==
  /\ del' \in Deletions
  /\ UNCHANGED <<side, rename, writing, active, version, stats, fresh, job, scan, prep, clock>>
  /\ disk' \in [Paths -> File] /\ \A p \in Paths : disk'[p] = NoFile \/ disk'[p].id # 0
  /\ quarantine' \subseteq File \ {NoFile} /\ kept' \subseteq kept
  /\ status' \in {"pending", "verified", "unavailable"}
  /\ alias' \in [Paths -> Names0] /\ asset' \in [Paths -> Assets] /\ proof' \in [Paths -> Proofs]
  /\ \A p \in Paths : alias'[p].present => alias[p].present /\ alias'[p].rec = alias[p].rec
HeldGood ==
  /\ del.held = NoFile \/ del.held.id # 0
  /\ del.held # NoFile <=> del.pc = "judge"
  /\ del.pc \in {"check", "capture", "judge", "record"} => del.left # {}
  /\ del.pc \in {"idle", "waiting"} => del.left = {} /\ DOMAIN del.plan = {}

LEMMA DeletionGood ==
  ASSUME Good, DeletionStep, HeldGood'
  PROVE  Good'
<1> USE Parts DEF Good, DeletionStep
<1>1. TypeOK'
  BY DEF TypeOK, Deletions, Names0, Assets, Proofs
<1>2. Numbered'
  BY DEF Numbered, Key
<1>3. Identified'
  BY DEF Identified, HeldGood
<1>4. QED BY <1>1, <1>2, <1>3

\* A step that leaves disk and tables alone.
LEMMA QuietDeletionGood ==
  ASSUME Good, del' \in Deletions, HeldGood', UNCHANGED <<files, active, tables, shown>>,
         UNCHANGED <<job, scan, prep>>
  PROVE  Good'
<1>1. DeletionStep
  BY Parts DEF Good, DeletionStep, TypeOK, Identified, files, tables, shown
<1>2. QED BY <1>1, DeletionGood

LEMMA PlanType ==
  ASSUME TypeOK, NEW r
  PROVE  Plan(r) \in Plans /\ DOMAIN Plan(r) \in SUBSET Paths
<1>1. PICK S \in SUBSET Paths : Plan(r) = [p \in S |-> alias[p].file]
  BY DEF Plan
<1>2. \A p \in S : alias[p].file \in File
  BY Parts DEF Names0
<1>3. Plan(r) \in [S -> File]
  BY <1>1, <1>2
<1>4. QED BY <1>1, <1>3 DEF Plans

LEMMA DeletingGood ==
  ASSUME Good, Deleting \/ \E r \in 1..Len(version) : DeleteRequest(r)
  PROVE  Good'
<1> USE Parts DEF Good
<1>0. /\ del.pc \in {"check", "capture", "judge", "record"} =>
           Victim \in Paths /\ Victim \in del.left
      /\ del.held \in File
  BY Names DEF Identified, Victim, Deletions
<1>1. ASSUME NEW r \in 1..Len(version), DeleteRequest(r) PROVE Good'
  <2>1. del' = [NoDel EXCEPT !.pc = "waiting", !.rec = r, !.src = version[r]]
        /\ UNCHANGED <<files, active, tables, shown>> /\ UNCHANGED <<job, scan, prep>>
    BY <1>1 DEF DeleteRequest
  <2>2. version[r] \in File /\ r \in 0..Len(version)
    BY DEF TypeOK
  <2>3. del' \in Deletions
    BY <2>1, <2>2 DEF Deletions
  <2>4. HeldGood'
    BY <2>1 DEF HeldGood, NoDel
  <2>5. QED BY <2>1, <2>3, <2>4, QuietDeletionGood
<1>2. CASE DeletePlan
  <2> DEFINE plan == Plan(del.rec)
  <2>1. /\ del.pc = "waiting" /\ UNCHANGED <<files, active, tables, shown>>
        /\ UNCHANGED <<job, scan, prep>>
        /\ \/ del' = NoDel
           \/ /\ del' = [del EXCEPT !.pc = "check", !.plan = plan, !.left = DOMAIN plan]
              /\ DOMAIN plan # {}
    BY <1>2 DEF DeletePlan
  <2>2. plan \in Plans /\ DOMAIN plan \in SUBSET Paths
    BY PlanType
  <2>3. del.held = NoFile
    BY <2>1 DEF Identified
  <2> HIDE DEF plan
  <2>4. CASE del' = NoDel
    <3>1. HeldGood'
      BY <2>4 DEF HeldGood, NoDel
    <3>2. QED BY <2>1, <2>4, <3>1, QuietDeletionGood
  <2>5. CASE del' # NoDel
    <3>1. del' \in Deletions /\ del'.held = NoFile /\ del'.pc = "check" /\ del'.left # {}
      BY <2>1, <2>2, <2>3, <2>5 DEF Deletions
    <3>2. HeldGood'
      BY <3>1 DEF HeldGood
    <3>3. QED BY <2>1, <3>1, <3>2, QuietDeletionGood
  <2>6. QED BY <2>4, <2>5
<1>3. CASE DeleteCheck
  <2>1. /\ del.pc = "check" /\ UNCHANGED <<files, active, tables, shown>>
        /\ UNCHANGED <<job, scan, prep>>
        /\ \E pc \in {"capture", "finish"} : del' = [del EXCEPT !.pc = pc]
    BY <1>3 DEF DeleteCheck
  <2>2. del' \in Deletions /\ del'.pc \in {"capture", "finish"} /\ del'.held = NoFile
        /\ del'.left = del.left /\ del.left # {}
    BY <2>1 DEF Deletions, Identified
  <2>3. HeldGood'
    BY <2>2 DEF HeldGood
  <2>4. QED BY <2>1, <2>2, <2>3, QuietDeletionGood
<1>4. CASE DeleteCapture
  <2>1. /\ del.pc = "capture"
        /\ UNCHANGED <<side, quarantine, rename, writing, clock, kept, active, tables, shown>>
        /\ UNCHANGED <<job, scan, prep>>
    BY <1>4 DEF DeleteCapture
  <2>2. del.held = NoFile /\ del.left # {} /\ Victim \in Paths
    BY <1>0, <2>1 DEF Identified
  <2>3. \/ /\ del' = [del EXCEPT !.pc = "judge", !.held = disk[Victim]]
           /\ disk' = [disk EXCEPT ![Victim] = NoFile] /\ disk[Victim] # NoFile
        \/ del' = [del EXCEPT !.pc = "finish"] /\ UNCHANGED disk
    BY <1>4 DEF DeleteCapture
  <2>4. disk[Victim] \in File /\ (disk[Victim] = NoFile \/ disk[Victim].id # 0)
    BY <2>2 DEF Identified
  <2>5. del' \in Deletions /\ HeldGood'
    BY <2>2, <2>3, <2>4 DEF Deletions, HeldGood
  <2>6. disk' \in [Paths -> File] /\ \A p \in Paths : disk'[p] = NoFile \/ disk'[p].id # 0
    BY <2>2, <2>3, FileType DEF Identified
  <2>7. DeletionStep
    BY <2>1, <2>5, <2>6 DEF DeletionStep, TypeOK, tables, shown
  <2>8. QED BY <2>5, <2>7, DeletionGood
<1>5. CASE DeleteJudge
  <2>1. /\ del.pc = "judge"
        /\ UNCHANGED <<side, rename, writing, active, tables, shown, job, scan, prep, clock>>
        /\ kept' \subseteq kept
    BY <1>5 DEF DeleteJudge
  <2>2. del.held # NoFile /\ del.held.id # 0 /\ del.left # {} /\ Victim \in Paths
    BY <1>0, <2>1 DEF Identified
  <2>3. PICK pc \in {"record", "finish"} : del' = [del EXCEPT !.pc = pc, !.held = NoFile]
    BY <1>5 DEF DeleteJudge
  <2>4. disk' \in {disk, GivenBack} /\ quarantine' \in {quarantine, quarantine \cup Unreturned}
    BY <1>5 DEF DeleteJudge
  <2>5. del' \in Deletions /\ HeldGood'
    BY <2>2, <2>3, FileType DEF Deletions, HeldGood
  <2>6. disk' \in [Paths -> File] /\ \A p \in Paths : disk'[p] = NoFile \/ disk'[p].id # 0
    BY <1>0, <2>2, <2>4 DEF Identified, GivenBack
  <2>7. quarantine' \subseteq File \ {NoFile}
    BY <1>0, <2>2, <2>4 DEF Unreturned, TypeOK
  <2>8. DeletionStep
    BY <2>1, <2>5, <2>6, <2>7 DEF DeletionStep, TypeOK, tables, shown
  <2>9. QED BY <2>5, <2>8, DeletionGood
<1>6. CASE DeleteRecord \/ DeleteUnrecorded
  <2>1. /\ del.pc = "record" /\ UNCHANGED <<files, active, version, shown, job, scan, prep>>
    BY <1>6 DEF DeleteRecord, DeleteUnrecorded, tables
  <2>2. PICK pc \in {"check", "finish"} :
          del' = [del EXCEPT !.pc = pc, !.left = @ \ {Victim}]
          /\ (pc = "check" => del.left # {Victim})
    BY <1>6 DEF DeleteRecord, DeleteUnrecorded
  <2>3. del.held = NoFile /\ del.left # {} /\ Victim \in del.left /\ Victim \in Paths
    BY <1>0, <2>1 DEF Identified
  <2>4. del' \in Deletions /\ del'.pc = pc /\ del'.held = NoFile /\ del'.left = del.left \ {Victim}
    BY <2>2, <2>3 DEF Deletions
  <2>5. HeldGood'
    BY <2>2, <2>3, <2>4 DEF HeldGood
  <2>6. alias' \in [Paths -> Names0] /\ asset' \in [Paths -> Assets] /\ proof' \in [Paths -> Proofs]
        /\ \A p \in Paths : alias'[p].present => alias[p].present /\ alias'[p].rec = alias[p].rec
    <3>1. CASE DeleteUnrecorded
      BY <3>1 DEF DeleteUnrecorded, tables
    <3>2. CASE DeleteRecord
      <4>1. alias' \in {alias, [alias EXCEPT ![Victim].present = FALSE]}
            /\ asset' \in {asset, [asset EXCEPT ![Victim].status = "missing", ![Victim].at = 0]}
            /\ proof' \in {proof, [proof EXCEPT ![Victim].valid = FALSE]}
        BY <3>2 DEF DeleteRecord
      <4>2. ASSUME NEW p \in Paths
            PROVE  /\ alias'[p] \in {alias[p], [alias[p] EXCEPT !.present = FALSE]}
                   /\ asset'[p] \in {asset[p], [asset[p] EXCEPT !.status = "missing", !.at = 0]}
                   /\ proof'[p] \in {proof[p], [proof[p] EXCEPT !.valid = FALSE]}
        <5>1. CASE p = Victim
          BY <2>3, <4>1, <5>1
        <5>2. CASE p # Victim
          BY <2>3, <4>1, <5>2
        <5>3. QED BY <5>1, <5>2
      <4>3. ASSUME NEW p \in Paths
            PROVE  /\ alias'[p] \in Names0 /\ asset'[p] \in Assets /\ proof'[p] \in Proofs
                   /\ alias'[p].present => alias[p].present /\ alias'[p].rec = alias[p].rec
        <5>1. alias[p] \in Names0 /\ asset[p] \in Assets /\ proof[p] \in Proofs
          OBVIOUS
        <5>2. [alias[p] EXCEPT !.present = FALSE] \in Names0
          BY <5>1 DEF Names0
        <5>3. [asset[p] EXCEPT !.status = "missing", !.at = 0] \in Assets
          BY <5>1, FileType DEF Assets
        <5>4. [proof[p] EXCEPT !.valid = FALSE] \in Proofs
          BY <5>1 DEF Proofs
        <5>5. alias'[p].present => alias[p].present /\ alias'[p].rec = alias[p].rec
          BY <4>2, <5>1 DEF Names0
        <5>6. QED BY <4>2, <5>1, <5>2, <5>3, <5>4, <5>5
      <4>4. /\ alias' = [p \in Paths |-> alias'[p]] /\ asset' = [p \in Paths |-> asset'[p]]
            /\ proof' = [p \in Paths |-> proof'[p]]
        BY <4>1
      <4>5. QED BY <4>3, <4>4
    <3>3. QED BY <1>6, <3>1, <3>2
  <2>7. DeletionStep
    BY <2>1, <2>4, <2>6 DEF DeletionStep, TypeOK, Identified, files, shown
  <2>8. QED BY <2>5, <2>7, DeletionGood
<1>7. CASE DeleteFinish
  <2>1. del' = NoDel /\ status' \in {"pending", status}
        /\ UNCHANGED <<files, active, tables, stats, fresh, job, scan, prep>>
    BY <1>7 DEF DeleteFinish, StatusAfter
  <2>2. del' \in Deletions /\ HeldGood'
    BY <2>1 DEF HeldGood, NoDel
  <2>3. DeletionStep
    BY <2>1, <2>2 DEF DeletionStep, TypeOK, Identified, files, tables
  <2>4. QED BY <2>2, <2>3, DeletionGood
<1>8. QED BY <1>1, <1>2, <1>3, <1>4, <1>5, <1>6, <1>7 DEF Deleting

\* TypeOK by its parts.
Typed ==
  /\ disk \in [Paths -> File] /\ side \in Stamps
  /\ quarantine \subseteq File \ {NoFile} /\ active \subseteq Paths
  /\ rename \in Renames /\ writing \in Times
  /\ version \in Seq(File)
  /\ alias \in [Paths -> Names0] /\ asset \in [Paths -> Assets] /\ proof \in [Paths -> Proofs]
  /\ status \in {"pending", "verified", "unavailable"}
  /\ stats \subseteq [rec : 1..Len(version), file : File, present : {TRUE}]
  /\ JobsGood
  /\ scan \in Scans /\ prep \in Stages /\ del \in Deletions
  /\ clock \in Times /\ fresh \in BOOLEAN /\ kept \subseteq Times \ {0}

LEMMA Typing == TypeOK <=> Typed
BY DEF TypeOK, Typed, JobsGood, Names0, Assets, Proofs, Scans, Stages, Deletions

LEMMA CrashGood ==
  ASSUME Good, Crash
  PROVE  Good'
<1> USE Parts DEF Good
<1>1. /\ active' = {} /\ scan' = NoScan /\ prep' = NoPrep /\ del' = NoDel /\ fresh' = FALSE
      /\ rename' = NoRename /\ writing' = 0
      /\ quarantine' = quarantine \cup ({del.held} \ {NoFile})
      /\ UNCHANGED <<disk, side, clock, kept, version, alias, asset, proof, status, stats>>
  BY DEF Crash, tables
<1>2. JobsGood'
  <2>1. DOMAIN job' = DOMAIN job
    BY DEF Crash
  <2>2. ASSUME NEW k \in DOMAIN job
        PROVE  job'[k] \in [status : {"running", "ready", "stopped"}, out : File]
    <3>1. job'[k] \in {job[k], [job[k] EXCEPT !.status = "stopped"]}
      BY DEF Crash
    <3>2. QED BY <3>1 DEF TypeOK
  <2>3. QED BY <1>1, <2>1, <2>2 DEF JobsGood, TypeOK
<1>3. quarantine' \subseteq File \ {NoFile}
  BY <1>1 DEF TypeOK, Deletions
<1>4. TypeOK'
  <2>1. NoScan \in Scans /\ NoPrep \in Stages /\ NoDel \in Deletions
    OBVIOUS
  <2>2. Typed
    BY Typing
  <2>3. scan' \in Scans' /\ prep' \in Stages' /\ del' \in Deletions'
    BY <1>1, <2>1 DEF Scans, Stages, Deletions
  <2>4. Typed'
    BY <1>1, <1>2, <1>3, <2>2, <2>3, RenameType, FileType DEF Typed, Names0, Assets, Proofs
  <2>5. QED BY <2>4, Typing, PTL
<1>5. Numbered'
  BY <1>1 DEF Numbered, NoScan, NoPrep
<1>6. Identified'
  BY <1>1 DEF Identified, NoDel
<1>7. QED BY <1>4, <1>5, <1>6

LEMMA GoodCorrect == Spec => []Good
<1>1. Init => Good
  <2> SUFFICES ASSUME Init PROVE Good
    OBVIOUS
  <2>1. 1 \in Times /\ [id |-> 1, at |-> 1] \in File
    BY CatalogAssumption, FileType DEF Times
  <2>2. version = <<>> /\ version \in Seq(File) /\ Len(version) = 0
    BY DEF Init
  <2>3. disk \in [Paths -> File] /\ \A p \in Paths : disk[p] = NoFile \/ disk[p].id # 0
    BY <2>1, FileType DEF Init
  <2>4. /\ NoRow \in Names0 /\ NoAsset \in Assets /\ NoProof \in Proofs
        /\ NoScan \in Scans /\ NoPrep \in Stages
    BY <2>2, FileType
    DEF NoRow, NoAsset, NoProof, NoScan, NoPrep, Names0, Assets, Proofs, Scans, Stages
  <2>5. NoDel \in Deletions
    <3>1. [p \in {} |-> NoFile] \in [{} -> File] /\ {} \in SUBSET Paths
      OBVIOUS
    <3>2. [p \in {} |-> NoFile] \in Plans
      BY <3>1 DEF Plans
    <3>3. QED BY <2>2, <3>2, FileType DEF NoDel, Deletions
  <2>6. DOMAIN job = {}
    BY DEF Init
  <2>7. TypeOK
    <3>1. /\ alias \in [Paths -> Names0] /\ asset \in [Paths -> Assets]
          /\ proof \in [Paths -> Proofs]
      BY <2>4 DEF Init
    <3>2. scan \in Scans /\ prep \in Stages /\ del \in Deletions
      BY <2>4, <2>5 DEF Init
    <3>3. /\ side \in Stamps /\ quarantine = {} /\ active = {} /\ status = "pending" /\ stats = {}
          /\ clock \in Times /\ fresh = FALSE /\ kept \subseteq Times \ {0}
          /\ rename \in Renames /\ writing \in Times
      BY <2>1, FileType, RenameType DEF Init
    <3>4. QED
      BY <2>2, <2>3, <2>6, <3>1, <3>2, <3>3
      DEF TypeOK, Names0, Assets, Proofs, Scans, Stages, Deletions
  <2>8. Numbered /\ Identified
    BY <2>3 DEF Init, Numbered, Identified, NoRow, NoPrep, NoScan, NoDel
  <2>9. QED BY <2>7, <2>8 DEF Good
<1>2. Good /\ [Next]_vars => Good'
  <2> SUFFICES ASSUME Good, [Next]_vars PROVE Good'
    OBVIOUS
  <2>1. CASE UNCHANGED vars
    <3>1. /\ UNCHANGED <<files, quarantine, active, tables, status, stats, fresh>>
          /\ UNCHANGED <<job, scan, prep, del>>
      BY <2>1 DEF vars, files, tables
    <3>2. Typed /\ UNCHANGED <<disk, side, quarantine, clock, kept, version, alias, asset, proof>>
      BY <3>1, Typing DEF files, tables, Good
    <3>3. Typed'
      <4>1. /\ scan' \in Scans' /\ prep' \in Stages' /\ del' \in Deletions'
            /\ alias' \in [Paths -> Names0'] /\ asset' \in [Paths -> Assets']
            /\ proof' \in [Paths -> Proofs']
        BY <3>1, <3>2 DEF Typed, Names0, Assets, Proofs, Scans, Stages, Deletions
      <4>2. JobsGood'
        BY <3>1, <3>2, SameGood
      <4>3. /\ status' = status /\ stats' = stats /\ quarantine' = quarantine /\ active' = active
            /\ version' = version /\ fresh' = fresh /\ disk' = disk /\ side' = side
            /\ clock' = clock /\ kept' = kept /\ rename' = rename /\ writing' = writing
        BY <2>1, <3>2 DEF vars, shown
      <4>4. QED BY <3>2, <4>1, <4>2, <4>3 DEF Typed
    <3>4. TypeOK'
      BY <3>3, Typing, PTL
    <3>5. Numbered' /\ Identified'
      BY <3>1 DEF files, tables, Good, Numbered, Identified, Key
    <3>6. QED BY <3>4, <3>5 DEF Good
  <2>2. CASE Scanning
    BY <2>2, ScanGood, ApplyGood DEF Scanning
  <2>3. QED BY <2>1, <2>2, OutsideGood, PrepareGood, DeletingGood, CrashGood DEF Next
<1>3. QED BY <1>1, <1>2, PTL DEF Spec

\* Scans, deletions, recorders, the stage and crashes keep every row, job and procedure
\* of its type: in particular no row refers to a recording that does not exist.
THEOREM TypeCorrect == Spec => []TypeOK
BY GoodCorrect, PTL DEF Good

-----------------------------------------------------------------------------
(* What each actor leaves alone. *)

LEMMA OutsideFrame ==
  ASSUME Good, Outside
  PROVE  /\ UNCHANGED <<tables, shown, job, prep>>
         /\ UNCHANGED <<quarantine, del>> \/ RecordWrite
         /\ del'.pc = del.pc /\ del'.plan = del.plan /\ del'.left = del.left
         /\ (UNCHANGED disk /\ UNCHANGED scan) \/ Disturb
         /\ UNCHANGED active \/ BeginRecording(Src) \/ EndRecording(Src)
<1>1. /\ UNCHANGED <<tables, shown, job, prep>>
      /\ UNCHANGED <<quarantine, del>> \/ RecordWrite
      /\ (UNCHANGED disk /\ UNCHANGED scan) \/ Disturb
      /\ UNCHANGED active \/ BeginRecording(Src) \/ EndRecording(Src)
  BY DEF Outside, RenameCheck, Rename, Remove, BeginRecording, RecordOpen, RecordWrite,
         EndRecording, files, tables, shown
<1>2. del'.pc = del.pc /\ del'.plan = del.plan /\ del'.left = del.left
  BY <1>1, WriteStep DEF Good
<1>3. QED BY <1>1, <1>2

LEMMA ScanningFrame ==
  ASSUME Scanning
  PROVE  UNCHANGED <<files, active, proof, job, del>>
BY DEF Scanning, LoopScan, PrepareScan, ScanBegin, ScanFile, ScanRefused, Apply, tables

LEMMA PreparingFrame ==
  ASSUME Preparing \/ PrepareBegin
  PROVE  /\ UNCHANGED <<quarantine, active, version, alias, shown, del>>
         /\ UNCHANGED <<files, scan>> \/ PreparePublish
<1>1. CASE PrepareBegin
  BY <1>1 DEF PrepareBegin, files, tables
<1>2. CASE PrepareEnter \/ PrepareReuse \/ PrepareTranscode
  BY <1>2 DEF PrepareEnter, PrepareReuse, PrepareTranscode, files, tables
<1>3. CASE PreparePublish
  BY <1>3 DEF PreparePublish, tables
<1>4. CASE PrepareRefused \/ PrepareRecheck \/ PrepareRegister
  BY <1>4 DEF PrepareRefused, PrepareRecheck, PrepareRegister, files, tables
<1>5. CASE PrepareRecord \/ PrepareFinish \/ PrepareFail
  BY <1>5 DEF PrepareRecord, PrepareFinish, PrepareFail, files, tables
<1>6. QED BY <1>1, <1>2, <1>3, <1>4, <1>5 DEF Preparing

LEMMA DeletingFrame ==
  ASSUME Deleting \/ \E r \in 1..Len(version) : DeleteRequest(r)
  PROVE  /\ UNCHANGED <<side, active, version, stats, fresh, job, scan, prep, clock>>
         /\ UNCHANGED <<disk, quarantine, kept>> \/ DeleteCapture \/ DeleteJudge
         /\ UNCHANGED <<alias, status>> \/ DeleteRecord \/ DeleteFinish
<1>1. CASE \E r \in 1..Len(version) : DeleteRequest(r)
  BY <1>1 DEF DeleteRequest, files, tables, shown
<1>2. CASE DeletePlan \/ DeleteCheck
  BY <1>2 DEF DeletePlan, DeleteCheck, files, tables, shown
<1>3. CASE DeleteCapture \/ DeleteJudge
  BY <1>3 DEF DeleteCapture, DeleteJudge, tables, shown
<1>4. CASE DeleteRecord \/ DeleteUnrecorded \/ DeleteFinish
  BY <1>4 DEF DeleteRecord, DeleteUnrecorded, DeleteFinish, files, tables, shown
<1>5. QED BY <1>1, <1>2, <1>3, <1>4 DEF Deleting

\* Where the procedure of a deletion goes.
LEMMA DeletionGoes ==
  ASSUME Good, Deleting \/ \E r \in 1..Len(version) : DeleteRequest(r)
  PROVE  /\ del'.pc = "judge" => DeleteCapture
         /\ del'.pc \notin {"idle", "waiting"} => ~Locked \/ del.pc \notin {"idle", "waiting"}
         /\ del'.plan = del.plan \/ del'.left = DOMAIN del'.plan
         /\ del'.left = DOMAIN del'.plan \/ del'.left = del.left
            \/ (del.pc = "record" /\ del'.left = del.left \ {Victim})
<1> USE Parts DEF Good
<1>1. ASSUME NEW r \in 1..Len(version), DeleteRequest(r)
      PROVE  del'.pc = "waiting" /\ del'.left = DOMAIN del'.plan
  BY <1>1 DEF DeleteRequest, NoDel
<1>2. CASE DeletePlan
  BY <1>2 DEF DeletePlan, NoDel, Deletions
<1>3. CASE DeleteCheck
  BY <1>3 DEF DeleteCheck, Deletions
<1>4. CASE DeleteCapture
  BY <1>4 DEF DeleteCapture, Deletions
<1>5. CASE DeleteJudge
  BY <1>5 DEF DeleteJudge, Deletions
<1>6. CASE DeleteRecord
  BY <1>6 DEF DeleteRecord, Deletions
<1>7. CASE DeleteUnrecorded
  BY <1>7 DEF DeleteUnrecorded, Deletions
<1>8. CASE DeleteFinish
  BY <1>8 DEF DeleteFinish, NoDel
<1>9. QED BY <1>1, <1>2, <1>3, <1>4, <1>5, <1>6, <1>7, <1>8 DEF Deleting

-----------------------------------------------------------------------------
\* A file is never captured from the name a recorder is writing to: the capture tests the
\* names while activeSources is locked, and no recording begins until it is judged.
THEOREM RecordingUntouchedCorrect == Spec => []RecordingUntouched
<1>1. Init => RecordingUntouched
  BY DEF Init, RecordingUntouched, NoDel
<1>2. Good /\ RecordingUntouched /\ [Next]_vars => RecordingUntouched'
  <2> SUFFICES ASSUME Good, RecordingUntouched, [Next]_vars, del'.pc = "judge"
               PROVE  DOMAIN del'.plan \cap active' = {}
    BY DEF RecordingUntouched
  <2>1. CASE Outside
    <3>1. del'.pc = del.pc /\ del'.plan = del.plan
      BY <2>1, OutsideFrame
    <3>2. active' \subseteq active
      BY <2>1, <3>1, OutsideFrame DEF BeginRecording, EndRecording
    <3>3. QED BY <3>1, <3>2 DEF RecordingUntouched
  <2>2. CASE Scanning
    BY <2>2, ScanningFrame DEF RecordingUntouched
  <2>3. CASE Preparing \/ PrepareBegin
    BY <2>3, PreparingFrame DEF RecordingUntouched
  <2>4. CASE Deleting \/ \E r \in 1..Len(version) : DeleteRequest(r)
    <3>1. DeleteCapture
      BY <2>4, DeletionGoes
    <3>2. Inactive(del.plan) /\ del'.plan = del.plan /\ active' = active
      BY <3>1, Parts DEF DeleteCapture, Deletions, Good
    <3>3. QED BY <3>2 DEF Inactive
  <2>5. CASE Crash
    BY <2>5 DEF Crash, NoDel
  <2>6. CASE UNCHANGED vars
    BY <2>6 DEF vars, RecordingUntouched
  <2>7. QED BY <2>1, <2>2, <2>3, <2>4, <2>5, <2>6 DEF Next
<1>3. QED BY <1>1, <1>2, GoodCorrect, PTL DEF Spec

\* A file that nobody asked to be rid of is under a name, in the hands of a deletion, or in a
\* quarantine directory.
THEOREM KeptSomewhereCorrect == Spec => []KeptSomewhere
<1>1. Init => KeptSomewhere
  BY Names DEF Init, KeptSomewhere
<1>2. Good /\ KeptSomewhere /\ [Next]_vars => KeptSomewhere'
  <2> SUFFICES ASSUME Good, KeptSomewhere, [Next]_vars, NEW i \in kept'
               PROVE  \/ \E p \in Paths : disk'[p].id = i
                      \/ del'.held.id = i
                      \/ \E f \in quarantine' : f.id = i
    BY DEF KeptSomewhere
  <2>0. ASSUME RecordWrite
        PROVE  /\ \A p \in Paths : disk'[p].id = disk[p].id
               /\ del'.held.id = del.held.id
               /\ \A f \in quarantine : \E g \in quarantine' : g.id = f.id
    <3>1. \A f \in File : Written(f).id = f.id
      BY <2>0, WrittenFile DEF Good
    <3>2. \A p \in Paths : disk[p] \in File /\ disk'[p] = Written(disk[p])
      BY <2>0, WriteStep DEF Good
    <3>3. \A f \in quarantine : f \in File /\ Written(f) \in quarantine'
      BY <2>0, WriteStep DEF Good
    <3>4. del.held \in File /\ del'.held = Written(del.held)
      BY <2>0, WriteStep DEF Good
    <3>5. QED BY <3>1, <3>2, <3>3, <3>4
  <2> USE Parts DEF Good
  <2>1. ASSUME i \in kept
        PROVE  i # 0 /\ \/ \E p \in Paths : disk[p].id = i
                        \/ del.held.id = i
                        \/ \E f \in quarantine : f.id = i
    BY <2>1 DEF KeptSomewhere, TypeOK
  <2>2. CASE UNCHANGED <<disk, quarantine, kept>> /\ del'.held = del.held
    BY <2>1, <2>2
  <2>3. CASE Outside
    <3>1. UNCHANGED <<quarantine, del>> \/ RecordWrite
      BY <2>3, OutsideFrame
    <3>2. CASE RecordWrite
      <4>1. kept' = kept
        BY <3>2 DEF RecordWrite
      <4>2. QED BY <2>0, <2>1, <3>2, <4>1
    <3>3. ASSUME NEW p \in Paths, NEW q \in Paths, RenameCheck(p, q)
          PROVE  UNCHANGED <<disk, kept>>
      BY <3>3 DEF RenameCheck
    <3>4. CASE Rename
      <4>1. CASE UNCHANGED <<disk, kept>>
        BY <2>1, <3>1, <3>4, <4>1 DEF Rename
      <4>2. CASE disk[rename[1]] # NoFile
        <5> DEFINE p == rename[1]
                   q == rename[2]
        <5>1. p \in Paths /\ q \in Paths
          BY <3>4, RenameType DEF Rename, TypeOK
        <5>2. /\ disk' = [disk EXCEPT ![q] = disk[p], ![p] = NoFile]
              /\ kept' = kept \ {disk[q].id} /\ del' = del /\ quarantine' = quarantine
          BY <3>4, <4>2 DEF Rename
        <5> HIDE DEF p, q
        <5>3. CASE p = q
          BY <2>1, <5>1, <5>2, <5>3
        <5>4. CASE p # q
          <6>1. disk'[q] = disk[p] /\ \A x \in Paths \ {p, q} : disk'[x] = disk[x]
            BY <5>1, <5>2, <5>4
          <6>2. QED BY <2>1, <5>1, <5>2, <6>1
        <5>5. QED BY <5>3, <5>4
      <4>3. QED BY <3>4, <4>1, <4>2 DEF Rename
    <3>5. ASSUME NEW p \in Paths, Remove(p)
          PROVE  /\ kept' = kept \ {disk[p].id} /\ del' = del /\ quarantine' = quarantine
                 /\ \A x \in Paths \ {p} : disk'[x] = disk[x]
      BY <3>5 DEF Remove
    <3>6. CASE RecordOpen(Src)
      <4> DEFINE f == IF disk[Src] = NoFile THEN [id |-> clock + 1, at |-> clock + 1]
                                            ELSE [disk[Src] EXCEPT !.at = clock + 1]
      <4>1. /\ disk' = [disk EXCEPT ![Src] = f] /\ kept' = kept \cup {f.id}
            /\ f.id = disk[Src].id \/ disk[Src] = NoFile
            /\ del' = del /\ quarantine' = quarantine
        <5>1. disk' = [disk EXCEPT ![Src] = f] /\ kept' = kept \cup {f.id}
              /\ del' = del /\ quarantine' = quarantine
          BY <3>6 DEF RecordOpen
        <5>2. disk[Src] # NoFile => f.id = disk[Src].id
          BY Names DEF TypeOK, File
        <5>3. QED BY <5>1, <5>2
      <4> HIDE DEF f
      <4>2. disk'[Src] = f /\ \A x \in Paths \ {Src} : disk'[x] = disk[x]
        BY <4>1, Names
      <4>3. disk[Src] = NoFile => disk[Src].id = 0
        BY DEF NoFile
      <4>4. QED BY <2>1, <4>1, <4>2, <4>3, Names
    <3>7. CASE BeginRecording(Src) \/ EndRecording(Src)
      BY <2>2, <3>7 DEF BeginRecording, EndRecording, files
    <3>8. (\E p, q \in Paths : RenameCheck(p, q)) => del' = del /\ quarantine' = quarantine
      BY DEF RenameCheck
    <3>9. CASE \E p, q \in Paths : RenameCheck(p, q)
      BY <2>2, <3>3, <3>8, <3>9
    <3>10. CASE \E p \in Paths : Remove(p)
      BY <2>1, <3>5, <3>10
    <3>11. QED BY <2>3, <3>2, <3>4, <3>6, <3>7, <3>9, <3>10 DEF Outside
  <2>4. CASE Scanning
    BY <2>2, <2>4, ScanningFrame DEF files
  <2>5. CASE Preparing \/ PrepareBegin
    <3>1. CASE PreparePublish
      <4>1. PICK f : disk' = [disk EXCEPT ![Prod] = f] /\ kept' = kept \cup {f.id}
        BY <3>1 DEF PreparePublish
      <4>2. disk[Prod] = NoFile /\ del' = del /\ quarantine' = quarantine
        BY <2>5, <3>1, PreparingFrame DEF PreparePublish
      <4>3. disk'[Prod] = f /\ \A x \in Paths \ {Prod} : disk'[x] = disk[x]
        BY <4>1, Names
      <4>4. disk[Prod].id = 0
        BY <4>2 DEF NoFile
      <4>5. QED BY <2>1, <4>1, <4>2, <4>3, <4>4, Names
    <3>2. QED BY <2>2, <2>5, <3>1, PreparingFrame DEF files
  <2>6. CASE Deleting \/ \E r \in 1..Len(version) : DeleteRequest(r)
    <3>1. Victim \in Paths \/ ~(DeleteCapture \/ DeleteJudge)
      BY Names DEF DeleteCapture, DeleteJudge, Identified, Victim, Deletions
    <3>2. CASE DeleteCapture
      <4>1. kept' = kept /\ quarantine' = quarantine /\ del.held.id = 0
        BY <3>2 DEF DeleteCapture, Identified, NoFile
      <4>2. \/ del'.held = disk[Victim] /\ disk' = [disk EXCEPT ![Victim] = NoFile]
            \/ disk' = disk
        BY <3>2 DEF DeleteCapture, Deletions
      <4>3. QED BY <2>1, <3>1, <3>2, <4>1, <4>2
    <3>3. CASE DeleteJudge
      <4>1. CASE Approved
        BY <2>1, <3>3, <4>1 DEF DeleteJudge, Approved
      <4>2. CASE ~Approved
        <5>1. /\ disk' = GivenBack /\ quarantine' = quarantine \cup Unreturned /\ kept' = kept
          BY <3>3, <4>2 DEF DeleteJudge, Approved
        <5>2. \A x \in Paths : disk[x].id # 0 => disk'[x] = disk[x]
          BY <3>1, <3>3, <5>1 DEF GivenBack, NoFile
        <5>3. disk'[Victim] = del.held \/ del.held \in quarantine'
          BY <3>1, <3>3, <5>1 DEF GivenBack, Unreturned
        <5>4. QED BY <2>1, <3>1, <3>3, <5>1, <5>2, <5>3
      <4>3. QED BY <4>1, <4>2
    <3>4. CASE UNCHANGED <<disk, quarantine, kept>> /\ ~DeleteCapture /\ ~DeleteJudge
      <4>1. del.pc # "judge" /\ del'.pc # "judge"
        BY <2>6, <3>4, DeletionGoes
        DEF Deleting, DeletePlan, DeleteCheck, DeleteRecord, DeleteUnrecorded, DeleteFinish,
            DeleteRequest
      <4>2. Good'
        BY <2>6, DeletingGood
      <4>3. del.held = NoFile /\ del'.held = NoFile
        BY <4>1, <4>2 DEF Identified
      <4>4. QED BY <2>2, <3>4, <4>3
    <3>5. QED BY <2>6, <3>2, <3>3, <3>4, DeletingFrame
  <2>7. CASE Crash
    <3>1. /\ UNCHANGED <<disk, kept>>
          /\ quarantine' = quarantine \cup ({del.held} \ {NoFile})
      BY <2>7 DEF Crash
    <3>2. QED BY <2>1, <3>1 DEF NoFile
  <2>8. CASE UNCHANGED vars
    BY <2>2, <2>8 DEF vars
  <2>9. QED BY <2>3, <2>4, <2>5, <2>6, <2>7, <2>8 DEF Next
<1>3. QED BY <1>1, <1>2, GoodCorrect, PTL DEF Spec

\* While the catalog shows its counts, they are those of the rows that are present, until the
\* first name of a deletion is gone.
Counts ==
  /\ del.left \subseteq DOMAIN del.plan
  /\ status = "verified" /\ fresh /\ del.left = DOMAIN del.plan => stats = Counted(alias)

\* The counts shown under the status 'verified' are those of the rows that are present.
THEOREM StatsTrustedCorrect == Spec => []StatsTrusted
<1>1. Init => Counts
  BY DEF Init, Counts, NoDel
<1>2. Good /\ Counts /\ [Next]_vars => Counts'
  <2> SUFFICES ASSUME Good, Counts, [Next]_vars PROVE Counts'
    OBVIOUS
  <2>1. CASE UNCHANGED <<status, fresh, stats, alias>> /\ del'.plan = del.plan
                                                       /\ del'.left = del.left
    BY <2>1 DEF Counts, Counted
  <2>2. CASE Outside
    BY <2>1, <2>2, OutsideFrame DEF shown, tables
  <2>3. CASE Scanning
    <3>1. del' = del
      BY <2>3, ScanningFrame
    <3>2. CASE Apply
      BY <3>1, <3>2 DEF Apply, Counts, Counted
    <3>3. CASE ScanRefused
      BY <3>1, <3>3 DEF ScanRefused, Counts
    <3>4. CASE LoopScan \/ PrepareScan \/ ScanFile
      BY <2>1, <3>1, <3>4 DEF LoopScan, PrepareScan, ScanBegin, ScanFile, shown, tables
    <3>5. QED BY <2>3, <3>2, <3>3, <3>4 DEF Scanning
  <2>4. CASE Preparing \/ PrepareBegin
    BY <2>1, <2>4, PreparingFrame DEF shown
  <2>5. CASE Deleting \/ \E r \in 1..Len(version) : DeleteRequest(r)
    <3>1. stats' = stats /\ fresh' = fresh
      BY <2>5, DeletingFrame
    <3>2. CASE DeleteRecord
      <4>1. Victim \in del.left /\ status' = status
        BY <3>2, Names, Parts DEF DeleteRecord, Good, Identified, Victim, Deletions, shown
      <4>2. del'.left = del.left \ {Victim} /\ del'.plan = del.plan
        BY <3>2, Parts DEF DeleteRecord, Good, Deletions
      <4>3. QED BY <4>1, <4>2 DEF Counts
    <3>3. CASE DeleteFinish
      <4>1. /\ alias' = alias /\ status' = StatusAfter /\ del' = NoDel
        BY <3>3 DEF DeleteFinish, tables
      <4>2. DOMAIN NoDel.plan = {} /\ NoDel.left = {}
        BY DEF NoDel
      <4>3. QED BY <3>1, <4>1, <4>2 DEF StatusAfter, Counts, Counted
    <3>4. CASE DeleteRequest(del'.rec) \/ DeletePlan
      <4>1. /\ del.pc \in {"idle", "waiting"} /\ del'.left = DOMAIN del'.plan
            /\ UNCHANGED <<alias, status>>
        <5>1. CASE DeleteRequest(del'.rec)
          BY <3>4, <5>1 DEF DeleteRequest, NoDel, tables, shown
        <5>2. CASE DeletePlan
          <6>1. /\ del.pc = "waiting" /\ UNCHANGED <<alias, status>>
                /\ \/ del' = NoDel
                   \/ del' = [del EXCEPT !.pc = "check", !.plan = Plan(del.rec),
                                !.left = DOMAIN Plan(del.rec)]
            BY <5>2 DEF DeletePlan, tables, shown
          <6>2. del'.left = DOMAIN del'.plan
            <7>1. CASE del' = NoDel
              BY <7>1 DEF NoDel
            <7>2. ASSUME NEW plan, del' = [del EXCEPT !.pc = "check", !.plan = plan,
                                             !.left = DOMAIN plan]
                  PROVE  del'.left = DOMAIN del'.plan
              BY <7>2, Parts DEF Good, Deletions
            <7>3. QED BY <6>1, <7>1, <7>2
          <6>3. QED BY <6>1, <6>2
        <5>3. QED BY <3>4, <5>1, <5>2
      <4>2. del.left = DOMAIN del.plan
        BY <4>1 DEF Good, Identified
      <4>3. QED BY <3>1, <4>1, <4>2 DEF Counts, Counted
    <3>5. CASE DeleteCheck \/ DeleteCapture \/ DeleteJudge
      <4>1. /\ UNCHANGED <<alias, status>> /\ del'.left = del.left /\ del'.plan = del.plan
        BY <3>5, Parts DEF DeleteCheck, DeleteCapture, DeleteJudge, tables, shown, Good, Deletions
      <4>2. QED BY <3>1, <4>1 DEF Counts, Counted
    <3>6. CASE DeleteUnrecorded
      <4>1. Victim \in del.left
        BY <3>6, Names, Parts DEF DeleteUnrecorded, Good, Identified, Victim, Deletions
      <4>2. del'.left = del.left \ {Victim} /\ del'.plan = del.plan
        BY <3>6, Parts DEF DeleteUnrecorded, Good, Deletions
      <4>3. QED BY <4>1, <4>2 DEF Counts
    <3>7. ASSUME NEW r \in 1..Len(version), DeleteRequest(r) PROVE DeleteRequest(del'.rec)
      <4>1. del'.rec = r
        BY <3>7 DEF DeleteRequest, NoDel
      <4>2. QED BY <3>7, <4>1
    <3>8. QED BY <2>5, <3>2, <3>3, <3>4, <3>5, <3>6, <3>7 DEF Deleting
  <2>6. CASE Crash
    BY <2>6 DEF Crash, Counts, NoDel
  <2>7. CASE UNCHANGED vars
    BY <2>1, <2>7 DEF vars
  <2>8. QED BY <2>2, <2>3, <2>4, <2>5, <2>6, <2>7 DEF Next
<1>3. Good /\ Counts => StatsTrusted
  BY DEF Good, Identified, Counts, StatsTrusted
<1>4. QED BY <1>1, <1>2, <1>3, GoodCorrect, PTL DEF Spec

\* A file the catalog knows keeps its recording when a scan sees it under another name, unless
\* a manifest gives it to its source's recording; no other step moves a row.
THEOREM IdentityKeepsRecordingCorrect == Spec => IdentityKeepsRecording
<1> DEFINE KeptRows ==
             \A p, q \in Paths :
               /\ alias'[p].present /\ alias[q].rec # 0 /\ alias[q].file.id = alias'[p].file.id
               => \/ \E x \in Paths :
                       alias[x].file.id = alias[q].file.id /\ alias[x].rec = alias'[p].rec
                  \/ p = Prod /\ scan.manifest # NoSide
<1>1. Good /\ [Next]_vars => KeptRows
  <2> SUFFICES ASSUME Good, [Next]_vars PROVE KeptRows
    OBVIOUS
  <2> USE Parts DEF Good
  <2>1. ASSUME \A p \in Paths : alias'[p].present => alias'[p].file = alias[p].file
                                                     /\ alias'[p].rec = alias[p].rec
        PROVE  KeptRows
    BY <2>1
  <2>2. CASE Apply
    <3> SUFFICES ASSUME NEW p \in Paths, NEW q \in Paths, alias'[p].present,
                        alias[q].rec # 0, alias[q].file.id = alias'[p].file.id,
                        p = Prod => ~Joins
                 PROVE  \E x \in Paths : /\ alias[x].file.id = alias[q].file.id
                                         /\ alias[x].rec = alias'[p].rec
      BY DEF Joins
    <3> DEFINE i == scan.seen[p].id
    <3>1. /\ p \in Seen /\ alias'[p].file = scan.seen[p]
          /\ alias'[p].rec = RecordingOf(i)
      BY <2>2, JoinedRows DEF Apply
    <3>2. q \in RowsOf(i)
      BY <3>1 DEF RowsOf
    <3>3. Last(RowsOf(i)) \in RowsOf(i) /\ RecordingOf(i) = alias[Last(RowsOf(i))].rec
      BY <3>1, <3>2, SeenRows
    <3>4. QED BY <3>1, <3>2, <3>3 DEF RowsOf
  <2>3. CASE DeleteRecord
    <3>1. Victim \in Paths
      BY <2>3, Names DEF DeleteRecord, Identified, Victim, Deletions
    <3>2. alias' = alias \/ alias' = [alias EXCEPT ![Victim].present = FALSE]
      BY <2>3 DEF DeleteRecord
    <3>3. QED BY <2>1, <3>1, <3>2 DEF Names0
  <2>4. CASE UNCHANGED alias
    BY <2>1, <2>4
  <2>5. UNCHANGED alias \/ Apply \/ DeleteRecord
    <3>1. CASE Outside
      BY <3>1, OutsideFrame DEF tables
    <3>2. CASE Scanning
      BY <3>2 DEF Scanning, LoopScan, PrepareScan, ScanBegin, ScanFile, ScanRefused, tables
    <3>3. CASE Preparing \/ PrepareBegin
      BY <3>3, PreparingFrame
    <3>4. CASE Deleting \/ \E r \in 1..Len(version) : DeleteRequest(r)
      BY <3>4, DeletingFrame DEF DeleteFinish, tables
    <3>5. CASE Crash
      BY <3>5 DEF Crash, tables
    <3>6. CASE UNCHANGED vars
      BY <3>6 DEF vars
    <3>7. QED BY <3>1, <3>2, <3>3, <3>4, <3>5, <3>6 DEF Next
  <2>6. QED BY <2>2, <2>3, <2>4, <2>5
<1>2. QED BY <1>1, GoodCorrect, PTL DEF Spec, IdentityKeepsRecording

\* s.mu keeps scans and deletions apart; what a scan has seen is on disk as long as the disk
\* stands still.
SeenIsDisk ==
  /\ scan.by = "none" \/ del.pc \in {"idle", "waiting"}
  /\ scan.by # "none" /\ scan.clean => \A p \in Paths \ scan.todo : scan.seen[p] = disk[p]

LEMMA SeenIsDiskCorrect == Spec => []SeenIsDisk
<1>1. Init => SeenIsDisk
  BY DEF Init, SeenIsDisk, NoScan
<1>2. Good /\ SeenIsDisk /\ [Next]_vars => SeenIsDisk'
  <2> SUFFICES ASSUME Good, SeenIsDisk, [Next]_vars PROVE SeenIsDisk'
    OBVIOUS
  <2> USE Parts DEF Good
  <2>1. CASE del'.pc = del.pc /\ UNCHANGED <<disk, scan>>
    BY <2>1 DEF SeenIsDisk
  <2>2. CASE del'.pc = del.pc /\ Disturb
    <3>1. scan.by = "none" => scan' = scan
      BY <2>2 DEF Disturb
    <3>2. scan.by # "none" => scan'.by = scan.by /\ scan'.clean = FALSE
      BY <2>2 DEF Disturb, Scans
    <3>3. QED BY <2>2, <3>1, <3>2 DEF SeenIsDisk
  <2>3. CASE Outside
    BY <2>1, <2>2, <2>3, OutsideFrame
  <2>4. CASE Scanning
    <3>1. del' = del /\ disk' = disk
      BY <2>4, ScanningFrame DEF files
    <3>2. CASE LoopScan \/ PrepareScan
      <4>1. PICK by \in {"loop", "prepare"} :
              scan' = [NoScan EXCEPT !.by = by, !.todo = {p \in Paths : disk[p] # NoFile}]
        BY <3>2 DEF LoopScan, PrepareScan, ScanBegin
      <4>2. del.pc \in {"idle", "waiting"}
        BY <3>2 DEF LoopScan, PrepareScan, ScanBegin, Locked, Deletions
      <4>3. scan'.todo = {p \in Paths : disk[p] # NoFile} /\ scan'.seen = NoScan.seen
        BY <4>1 DEF NoScan
      <4>4. \A p \in Paths : NoScan.seen[p] = NoFile
        BY DEF NoScan
      <4>5. QED BY <3>1, <4>2, <4>3, <4>4 DEF SeenIsDisk
    <3>3. CASE ScanFile
      <4> DEFINE p == First(scan.todo)
      <4>1. p \in Paths /\ scan.by # "none"
        BY <3>3, Names DEF ScanFile, Scans
      <4>2. \E m : scan' = [scan EXCEPT !.todo = @ \ {p}, !.seen[p] = disk[p], !.manifest = m]
        BY <3>3 DEF ScanFile
      <4> HIDE DEF p
      <4>3. /\ scan'.by = scan.by /\ scan'.clean = scan.clean /\ scan'.todo = scan.todo \ {p}
            /\ scan'.seen = [scan.seen EXCEPT ![p] = disk[p]]
        BY <4>2 DEF Scans
      <4>4. \A x \in Paths : scan'.seen[x] = IF x = p THEN disk[p] ELSE scan.seen[x]
        BY <4>1, <4>3 DEF Scans
      <4>5. QED BY <3>1, <4>1, <4>3, <4>4 DEF SeenIsDisk
    <3>4. CASE ScanRefused \/ Apply
      BY <3>1, <3>4 DEF ScanRefused, Apply, SeenIsDisk, NoScan
    <3>5. QED BY <2>4, <3>2, <3>3, <3>4 DEF Scanning
  <2>5. CASE Preparing \/ PrepareBegin
    <3>1. CASE PreparePublish
      BY <2>2, <2>5, <3>1, PreparingFrame DEF PreparePublish
    <3>2. QED BY <2>1, <2>5, <3>1, PreparingFrame DEF files
  <2>6. CASE Deleting \/ \E r \in 1..Len(version) : DeleteRequest(r)
    <3>1. scan' = scan
      BY <2>6, DeletingFrame
    <3>2. CASE scan.by = "none"
      BY <3>1, <3>2 DEF SeenIsDisk
    <3>3. CASE scan.by # "none"
      <4>1. del.pc \in {"idle", "waiting"} /\ Locked
        BY <3>3 DEF SeenIsDisk, Locked
      <4>2. del'.pc \in {"idle", "waiting"}
        BY <2>6, <4>1, DeletionGoes
      <4>3. disk' = disk
        BY <2>6, <4>1, DeletingFrame DEF DeleteCapture, DeleteJudge
      <4>4. QED BY <3>1, <4>2, <4>3 DEF SeenIsDisk
    <3>4. QED BY <3>2, <3>3
  <2>7. CASE Crash
    BY <2>7 DEF Crash, SeenIsDisk, NoScan
  <2>8. CASE UNCHANGED vars
    BY <2>1, <2>8 DEF vars
  <2>9. QED BY <2>3, <2>4, <2>5, <2>6, <2>7, <2>8 DEF Next
<1>3. QED BY <1>1, <1>2, GoodCorrect, PTL DEF Spec

\* The step that ends a scan and makes the process fresh is Apply.
LEMMA ReconciledApplies ==
  ASSUME Good, [Next]_vars, Reconciled
  PROVE  Apply
<1> USE Parts DEF Good
<1>1. scan'.by # scan.by
  BY DEF Reconciled
<1>2. CASE Outside
  <2>1. UNCHANGED scan \/ Disturb
    BY <1>2, OutsideFrame
  <2>2. QED BY <1>1, <2>1 DEF Disturb, Scans
<1>3. CASE Scanning
  <2>1. scan.todo = {} /\ scan.by # "none" /\ status' = "verified"
    BY DEF Reconciled
  <2>2. QED
    BY <1>3, <2>1 DEF Scanning, LoopScan, PrepareScan, ScanBegin, ScanFile, ScanRefused, Locked
<1>4. CASE Preparing \/ PrepareBegin
  <2>1. UNCHANGED scan \/ Disturb
    BY <1>4, PreparingFrame DEF PreparePublish
  <2>2. QED BY <1>1, <2>1 DEF Disturb, Scans
<1>5. CASE Deleting \/ \E r \in 1..Len(version) : DeleteRequest(r)
  BY <1>1, <1>5, DeletingFrame
<1>6. CASE Crash
  BY <1>6 DEF Crash, Reconciled
<1>7. CASE UNCHANGED vars
  BY <1>1, <1>7 DEF vars
<1>8. QED BY <1>2, <1>3, <1>4, <1>5, <1>6, <1>7 DEF Next

\* A scan during which the disk stood still leaves the catalog equal to the disk, whatever was
\* in its tables.
THEOREM QuietScanCatchesUpCorrect == Spec => QuietScanCatchesUp
<1>1. Good /\ SeenIsDisk /\ [Next]_vars => (Reconciled /\ scan.clean => InStep')
  <2> SUFFICES ASSUME Good, SeenIsDisk, [Next]_vars, Reconciled, scan.clean PROVE InStep'
    OBVIOUS
  <2>1. Apply
    BY ReconciledApplies
  <2>2. \A p \in Paths : scan.seen[p] = disk[p]
    BY DEF SeenIsDisk, Reconciled
  <2>3. disk' = disk /\ alias' = AliasJoined
    BY <2>1 DEF Apply, files
  <2>4. \A p \in Paths : /\ alias'[p].present <=> p \in Seen
                         /\ p \in Seen => alias'[p].file = scan.seen[p]
    BY <2>3, JoinedRows DEF Good
  <2>5. QED BY <2>2, <2>3, <2>4 DEF InStep, Seen
<1>2. QED BY <1>1, GoodCorrect, SeenIsDiskCorrect, PTL DEF Spec, QuietScanCatchesUp
=============================================================================
