------------------------- MODULE PlaybackRecovery_proof -------------------------
(***************************************************************************)
(* Why what workers leave behind stays recoverable, for any sources,       *)
(* workers, number of conversions and of crashes.  The invariant of        *)
(* PlaybackPublication_proof is about sources, targets and manifests; the  *)
(* one below is about what leads back to them: intents, temporary files,   *)
(* and which of these are on disk.                                         *)
(***************************************************************************)
EXTENDS PlaybackPublication_proof

-----------------------------------------------------------------------------
(* The inductive invariant, part by part. *)

Named(f)    == from[f] # Unused
Held(w)     == worker[w].pc \in Filed \/ worker[w].own
GoesBack(f) == \E v \in Workers : HalfRolledBack(v) /\ worker[v].file = f
Placed      == {"save", "commit", "failed", "rollback", "committed", "finish", "finished"}
Preparing   == {"publish", "intended", "link"}

\* Only a publisher owns a temporary file, until its stage ends.
OwnPlaces == \A w \in Workers :
  /\ worker[w].own => worker[w].pc \in (Filed \ {"validate"}) \cup {"emit"}
  /\ worker[w].pc \in Preparing => worker[w].own

\* Whatever is named or held is a product.
ProductsNamed ==
  /\ fs.intent # NoFile => Named(fs.intent)
  /\ disk.intent # NoFile => Named(disk.intent)
  /\ \A w \in Workers : Held(w) => worker[w].file \in Files /\ Named(worker[w].file)

\* Sources are only rewritten or deleted, and only a deletion waits for a sync.
VersionsGrow ==
  /\ \A f \in Files : Named(f) =>
       /\ from[f].src \in Sources /\ from[f].ver # Gone
       /\ fs.src[from[f].src] = Gone \/ from[f].ver <= fs.src[from[f].src]
       /\ disk.src[from[f].src] = Gone \/ from[f].ver <= disk.src[from[f].src]
  /\ \A s \in Sources :
       IF fs.src[s] = Gone
       THEN disk.src[s] # Gone => disk.src[s] = from[fs.manifest].ver
       ELSE disk.src[s] = fs.src[s]

\* A product is owned once; before its intent is there, nobody else has met it.
OwnedOnce ==
  /\ \A v, w \in Workers :
       worker[v].own /\ worker[w].own /\ worker[v].file = worker[w].file => v = w
  /\ \A w \in Workers : worker[w].pc = "publish" =>
       /\ worker[w].file \notin {fs.intent, disk.intent}
       /\ \A v \in Workers \ {w} : Held(v) => worker[v].file # worker[w].file

\* Until it is linked, the temporary file of a product is kept, and it goes with
\* the end of its publication.
TempKept == \A w \in Workers :
  /\ worker[w].pc \in Preparing =>
       \/ worker[w].file \in fs.temps
       \/ fs.manifest = worker[w].file /\ fs.target = worker[w].file
  /\ worker[w].own /\ worker[w].pc = "emit" => worker[w].file \notin fs.temps

\* A product that was linked stands, unless another has been committed and this
\* one rolled back, in which case its intent is gone or about to go.
TargetStands == \A w \in Workers : LET f == worker[w].file IN
  /\ worker[w].pc \in Placed =>
       \/ fs.target = f
       \/ fs.manifest \notin {NoFile, f} /\ (fs.intent # f \/ GoesBack(f))
  /\ worker[w].pc \in {"committed", "finish", "finished"} => fs.manifest = f

\* A committed product of a source that is as it was converted stands for whoever
\* has it in hand, or is about to be put back by its intent.
CommitStands == \A w \in Workers : LET f == worker[w].file IN
  /\ Held(w) /\ fs.manifest = f /\ Current(f) =>
       fs.target = f \/ (worker[w].pc = "validate" /\ fs.intent = f)
  /\ worker[w].pc = "rollback" /\ fs.manifest = f => ~Current(f)

\* The intent finds the file it names, or is about to be taken away.
IntentFinds ==
  \/ fs.intent = NoFile
  \/ fs.target \in {Foreign, fs.intent} \/ fs.intent \in fs.temps \/ GoesBack(fs.intent)

\* Nobody passes the recovery while the intent finds nothing.
PassedFinds == \A w \in Workers :
  worker[w].pc \notin {"idle", "recover"} \cup Ending => IntentFinds

\* Beside a worker that rolls back, no other product of the same origin stands.
RollbackAlone == \A v \in Workers : LET i == worker[v].file IN
  /\ HalfRolledBack(v) /\ ~Alone(v) /\ fs.intent = i
  /\ fs.manifest # NoFile /\ from[fs.manifest] = from[i]
  /\ fs.src[from[i].src] \in {Gone, from[i].ver}
  => fs.target # fs.manifest

\* While the loss of power may bring a source back, an intent of it finds its file.
DeletedFinds == LET i == fs.intent IN
  i # NoFile /\ fs.src[from[i].src] = Gone /\ disk.src[from[i].src] = from[i].ver =>
    fs.target = i \/ i \in fs.temps

\* What is synced: the temporary file before the intent that names it, the target
\* or its temporary file before the manifest.
SyncedFirst ==
  /\ fs.target = Foreign => disk.target = Foreign
  /\ disk.intent # NoFile /\ disk.intent \in fs.temps => disk.intent \in disk.temps
  /\ disk.intent # NoFile /\ disk.intent = fs.intent /\ fs.target = fs.intent =>
       disk.target = fs.intent \/ fs.intent \in disk.temps
  /\ LET m == disk.manifest IN
       /\ m # NoFile /\ Current(m)
       /\ m \in {fs.target, fs.intent} \/ \E w \in Workers : Held(w) /\ worker[w].file = m
       => m \in {disk.target, disk.intent}

RInv == /\ OwnPlaces /\ ProductsNamed /\ VersionsGrow /\ OwnedOnce /\ TempKept
        /\ TargetStands /\ CommitStands /\ PassedFinds /\ RollbackAlone
        /\ DeletedFinds /\ SyncedFirst

-----------------------------------------------------------------------------
(* What a step of a worker does to entries, disk and worker. *)

Bears(w, pc) ==
  /\ worker'[w].pc = pc /\ worker'[w].file = worker[w].file /\ worker'[w].own = worker[w].own
  /\ worker'[w].src = worker[w].src /\ worker'[w].ver = worker[w].ver
Drops(w) == worker'[w].pc = "idle" /\ ~worker'[w].own

Entry(src, target, temps, intent, manifest) ==
  /\ fs'.src = src /\ fs'.target = target /\ fs'.temps = temps
  /\ fs'.intent = intent /\ fs'.manifest = manifest
Same    == Entry(fs.src, fs.target, fs.temps, fs.intent, fs.manifest)
InCache == disk' = disk /\ from' = from

Begins(w) ==
  /\ worker[w].pc = "idle" /\ \A v \in Workers : worker[v].pc \notin RollingBack
  /\ worker'[w].pc \in {"recover", "deleted"} /\ ~worker'[w].own
  /\ Same /\ InCache
Adopts(w) ==
  /\ worker[w].pc = "recover" /\ worker'[w].pc = "validate" /\ ~worker'[w].own
  /\ fs.intent # NoFile /\ worker'[w].file = fs.intent
  /\ fs.target = fs.intent \/ fs.intent \in fs.temps
  /\ Same /\ InCache
Moves(w) ==
  LET f == worker[w].file
      p == worker[w].pc
      q == worker'[w].pc
  IN  /\ Bears(w, q) /\ Same /\ from' = from /\ disk' \in {disk, fs}
      /\ \/ p = "recover" /\ q = "check" /\ fs.intent = NoFile
         \/ p = "check" /\ q \in {"convert", "emit"}
         \/ p = "validate" /\ q = "save" /\ fs.target = f
         \/ p = "intended" /\ q = "link"
         \/ p \in {"save", "commit"} /\ q \in {"commit", "failed"}
         \/ p \in {"save", "failed"} /\ q \in {"committed", "finish"} /\ fs.manifest = f
         \/ p = "failed" /\ q = "rollback" /\ ~Loads
         \/ p = "committed" /\ q = "finish"
         \/ p \in Deleting /\ q \in Deleting
         \/ p \in Ending /\ q \in Ending
Turns(w) ==
  /\ worker[w].pc = "emit" /\ worker'[w].pc = "deleting" /\ ~worker'[w].own
  /\ Same /\ InCache
Quits(w) ==
  /\ worker[w].pc \notin {"idle", "rolledback"} /\ ~worker[w].own /\ Drops(w)
  /\ Same /\ from' = from /\ disk' \in {disk, fs}
Leaves(w) ==
  LET f == worker[w].file
  IN  /\ worker[w].own /\ Drops(w) /\ InCache
      /\ Entry(fs.src, fs.target, fs.temps \ {f}, fs.intent, fs.manifest)
      /\ \/ worker[w].pc \in {"publish", "emit", "committed", "finished"}
         \/ worker[w].pc \in {"save", "failed", "rollback"} /\ fs.target # f
         \/ worker[w].pc = "finish" /\ fs.intent # f
Makes(w) ==
  LET g == worker'[w].file
  IN  /\ worker[w].pc = "convert" /\ worker'[w].pc = "publish" /\ worker'[w].own
      /\ g \in Files /\ from[g] = Unused /\ SourceIs(w)
      /\ from' = [from EXCEPT ![g] = Origin(w)] /\ disk' = disk
      /\ Entry(fs.src, fs.target, fs.temps \cup {g}, fs.intent, fs.manifest)
Intends(w) ==
  /\ worker[w].pc = "publish" /\ Bears(w, "intended") /\ InCache
  /\ fs.intent = NoFile /\ SourceIs(w)
  /\ Entry(fs.src, fs.target, fs.temps, worker[w].file, fs.manifest)
Forgets(w) ==
  LET f    == worker[w].file
      left == IF fs.intent = f THEN NoFile ELSE fs.intent
  IN  /\ InCache
      /\ \/ /\ worker[w].pc = "finish" /\ Bears(w, "finished")
            /\ Entry(fs.src, fs.target, fs.temps, left, fs.manifest)
         \/ /\ worker[w].pc \in {"intended", "link", "rolledback"} /\ Drops(w)
            /\ Entry(fs.src, fs.target, IF worker[w].own THEN fs.temps \ {f} ELSE fs.temps,
                     left, fs.manifest)
Joins(w) ==
  LET f == worker[w].file
  IN  /\ Bears(w, "save") /\ InCache /\ fs.target \in {NoFile, f}
      /\ worker[w].pc = "link" \/ (worker[w].pc = "validate" /\ f \in fs.temps)
      /\ Entry(fs.src, f, fs.temps, fs.intent, fs.manifest)
Undoes(w) ==
  /\ worker[w].pc = "rollback" /\ Bears(w, "rolledback") /\ InCache
  /\ fs.target \in {NoFile, worker[w].file}
  /\ Entry(fs.src, NoFile, fs.temps, fs.intent, fs.manifest)
Saves(w) ==
  LET f == worker[w].file
  IN  /\ worker[w].pc = "commit" /\ Bears(w, "committed") /\ InCache
      /\ fs.manifest \in {NoFile, f}
      /\ Entry(fs.src, fs.target, fs.temps, fs.intent, f)
Removes(w) ==
  /\ worker[w].pc = "delete" /\ Bears(w, "deleted") /\ InCache
  /\ fs.src[worker[w].src] \in {Gone, worker[w].ver}
  /\ Entry([fs.src EXCEPT ![worker[w].src] = Gone], fs.target, fs.temps, fs.intent, fs.manifest)
Finishes(w) ==
  /\ worker[w].pc = "finished" /\ Bears(w, IF worker[w].own THEN "emit" ELSE "check")
  /\ disk' = fs /\ from' = from
  /\ Entry(fs.src, fs.target, fs.temps \ {worker[w].file}, fs.intent, fs.manifest)

KindOf(w) ==
  \/ Begins(w) \/ Adopts(w) \/ Moves(w) \/ Turns(w) \/ Quits(w) \/ Leaves(w) \/ Makes(w)
  \/ Intends(w) \/ Forgets(w) \/ Joins(w) \/ Undoes(w) \/ Saves(w) \/ Removes(w) \/ Finishes(w)
Acts(w) == KindOf(w) /\ \A v \in Workers \ {w} : worker'[v] = worker[v]

LEMMA BearsStep ==
  ASSUME TypeOK, NEW w \in Workers, NEW pc, Goes(w, pc)
  PROVE  Bears(w, pc) /\ \A v \in Workers \ {w} : worker'[v] = worker[v]
BY DEF Goes, Bears, TypeOK

LEMMA DropsStep ==
  ASSUME TypeOK, NEW w \in Workers, NEW d \in Entries, Aborts(w, d)
  PROVE  /\ Drops(w) /\ InCache /\ \A v \in Workers \ {w} : worker'[v] = worker[v]
         /\ Entry(d.src, d.target, IF worker[w].own THEN d.temps \ {worker[w].file} ELSE d.temps,
                  d.intent, d.manifest)
BY DEF Aborts, Directory, WithoutTemp, Drops, InCache, Entry, TypeOK, Entries, Resting

LEMMA EntryStep ==
  ASSUME TypeOK
  PROVE  /\ Reads => Same /\ InCache
         /\ Syncs => Same /\ disk' = fs /\ from' = from
         /\ \A g : /\ Directory([fs EXCEPT !.target = g]) =>
                        Entry(fs.src, g, fs.temps, fs.intent, fs.manifest) /\ InCache
                   /\ Directory([fs EXCEPT !.intent = g]) =>
                        Entry(fs.src, fs.target, fs.temps, g, fs.manifest) /\ InCache
                   /\ Directory([fs EXCEPT !.manifest = g]) =>
                        Entry(fs.src, fs.target, fs.temps, fs.intent, g) /\ InCache
                   /\ Directory([fs EXCEPT !.deletion = g]) => Same /\ InCache
BY DEF Reads, Syncs, Directory, Same, Entry, InCache, TypeOK, Entries

\* Every action of a worker is one of these steps.
LEMMA ActsCorrect ==
  ASSUME ~FaultsWhenShared, TypeOK, OwnPlaces, NEW w \in Workers, Execute(w)
  PROVE  Acts(w)
<1> DEFINE f == worker[w].file
           others == \A v \in Workers \ {w} : worker'[v] = worker[v]
<1>0. fs \in Entries /\ worker[w] \in Work /\ worker \in [Workers -> Work]
  BY DEF TypeOK, Work, Places
<1>1. ASSUME NEW pc, Goes(w, pc) PROVE Bears(w, pc) /\ others
  BY <1>1, BearsStep
<1>2. /\ Reads => Same /\ InCache
      /\ Syncs => Same /\ disk' = fs /\ from' = from
  BY EntryStep
<1>3. \A g : /\ Directory([fs EXCEPT !.target = g]) =>
                  Entry(fs.src, g, fs.temps, fs.intent, fs.manifest) /\ InCache
             /\ Directory([fs EXCEPT !.intent = g]) =>
                  Entry(fs.src, fs.target, fs.temps, g, fs.manifest) /\ InCache
             /\ Directory([fs EXCEPT !.manifest = g]) =>
                  Entry(fs.src, fs.target, fs.temps, fs.intent, g) /\ InCache
             /\ Directory([fs EXCEPT !.deletion = g]) => Same /\ InCache
  BY EntryStep
<1>4. ASSUME Error(w)
      PROVE  /\ Drops(w) /\ InCache /\ others
             /\ Entry(fs.src, fs.target, IF worker[w].own THEN fs.temps \ {f} ELSE fs.temps,
                      fs.intent, fs.manifest)
  BY <1>0, <1>4, DropsStep DEF Error
<1>5. ASSUME Error(w), ~worker[w].own, worker[w].pc \notin {"idle", "rolledback"} PROVE Acts(w)
  BY <1>4, <1>5 DEF Quits, Same, InCache, Acts, KindOf
<1>6. ASSUME Error(w), worker[w].pc \notin {"idle", "rolledback"},
             \/ worker[w].pc \in {"publish", "emit", "committed", "finished"}
             \/ worker[w].pc \in {"save", "failed", "rollback"} /\ fs.target # f
             \/ worker[w].pc = "finish" /\ fs.intent # f
      PROVE  Acts(w)
  <2>1. CASE worker[w].own
    BY <1>4, <1>6, <2>1 DEF Leaves, Acts, KindOf
  <2>2. QED BY <1>5, <1>6, <2>1
<1>7. worker[w].own => worker[w].pc \in (Filed \ {"validate"}) \cup {"emit"}
  BY DEF OwnPlaces
<1>8. WithoutIntent(f) \in Entries
      /\ WithoutIntent(f).src = fs.src /\ WithoutIntent(f).target = fs.target
      /\ WithoutIntent(f).temps = fs.temps /\ WithoutIntent(f).manifest = fs.manifest
      /\ WithoutIntent(f).intent = IF fs.intent = f THEN NoFile ELSE fs.intent
  BY <1>0 DEF WithoutIntent, Entries
<1>9. ASSUME Aborts(w, WithoutIntent(f)), worker[w].pc \in {"intended", "link", "rolledback"}
      PROVE  Acts(w)
  BY <1>8, <1>9, DropsStep DEF Forgets, Acts, KindOf
<1>10. ASSUME NEW s \in Sources, NEW del \in BOOLEAN, Start(w, s, del) PROVE Acts(w)
  <2> DEFINE begun == [Resting EXCEPT !.pc = "recover", !.src = s, !.ver = fs.src[s], !.del = del]
             over  == [Resting EXCEPT !.pc = "deleted", !.src = s, !.del = del,
                                      !.file = fs.manifest]
  <2>1. \A r \in {begun, over} : r.pc \in {"recover", "deleted"} /\ r.own = FALSE
    BY DEF Resting
  <2>2. PICK r \in {begun, over} : worker' = [worker EXCEPT ![w] = r]
    BY <1>10 DEF Start
  <2>3. Reads /\ worker[w].pc = "idle" /\ \A v \in Workers : worker[v].pc \notin RollingBack
    BY <1>10, <2>1 DEF Start, At
  <2> HIDE DEF begun, over
  <2>4. worker'[w] = r /\ others
    BY <1>0, <2>2
  <2>5. QED BY <1>2, <2>1, <2>3, <2>4 DEF Begins, Acts, KindOf
<1>11. ASSUME NEW pc, Goes(w, pc), Same, from' = from, disk' \in {disk, fs},
         LET p == worker[w].pc IN
         \/ p = "recover" /\ pc = "check" /\ fs.intent = NoFile
         \/ p = "check" /\ pc \in {"convert", "emit"}
         \/ p = "validate" /\ pc = "save" /\ fs.target = f
         \/ p = "intended" /\ pc = "link"
         \/ p \in {"save", "commit"} /\ pc \in {"commit", "failed"}
         \/ p \in {"save", "failed"} /\ pc \in {"committed", "finish"} /\ fs.manifest = f
         \/ p = "failed" /\ pc = "rollback" /\ ~Loads
         \/ p = "committed" /\ pc = "finish"
         \/ p \in Deleting /\ pc \in Deleting
         \/ p \in Ending /\ pc \in Ending
       PROVE  Acts(w)
  <2>1. Bears(w, pc) /\ others /\ worker'[w].pc = pc
    BY <1>1, <1>11 DEF Bears
  <2>2. Moves(w)
    BY <1>11, <2>1 DEF Moves
  <2>3. QED BY <2>1, <2>2 DEF Acts, KindOf
<1>12. CASE ReadIntent(w)
  <2>1. worker[w].pc = "recover" /\ ~worker[w].own
    BY <1>7, <1>12 DEF ReadIntent, At, Filed
  <2>2. CASE fs.intent = NoFile /\ Goes(w, "check") /\ Reads
    BY <1>2, <1>11, <2>1, <2>2 DEF InCache
  <2>3. CASE /\ fs.intent # NoFile /\ Reads
             /\ fs.target = fs.intent \/ fs.intent \in fs.temps
             /\ worker' = [worker EXCEPT ![w].pc = "validate", ![w].file = fs.intent,
                                         ![w].missing = (fs.target = NoFile)]
    <3>1. /\ worker'[w].pc = "validate" /\ worker'[w].own = worker[w].own
          /\ worker'[w].file = fs.intent /\ others
      BY <1>0, <2>3 DEF Work
    <3>2. ~worker'[w].own
      BY <2>1, <3>1
    <3>3. /\ fs.intent # NoFile /\ Same /\ InCache
          /\ fs.target = fs.intent \/ fs.intent \in fs.temps
      BY <1>2, <2>3, Zenon
    <3>4. Adopts(w)
      BY <2>1, <3>1, <3>2, <3>3 DEF Adopts
    <3>5. QED BY <3>1, <3>4 DEF Acts, KindOf
  <2>4. CASE Error(w)
    BY <1>5, <2>1, <2>4
  <2>5. QED BY <1>12, <2>2, <2>3, <2>4 DEF ReadIntent
<1>13. CASE Validate(w) \/ LinkTarget(w)
  <2>1. CASE worker[w].pc = "validate" /\ Error(w)
    BY <1>5, <1>7, <2>1
  <2>2. CASE worker[w].pc = "validate" /\ fs.target = f /\ Goes(w, "save") /\ Reads
    BY <1>2, <1>11, <2>2 DEF InCache
  <2>3. CASE worker[w].pc = "link" /\ Aborts(w, WithoutIntent(f))
    BY <1>9, <2>3
  <2>4. CASE /\ worker[w].pc = "link" \/ (worker[w].pc = "validate" /\ f \in fs.temps)
             /\ Goes(w, "save") /\ Directory([fs EXCEPT !.target = f]) /\ fs.target \in {NoFile, f}
    <3>1. Joins(w)
      BY <1>1, <1>3, <2>4 DEF Joins
    <3>2. QED BY <1>1, <2>4, <3>1 DEF Acts, KindOf
  <2>5. QED BY <1>13, <2>1, <2>2, <2>3, <2>4 DEF Validate, LinkTarget, At
<1>14. CASE CheckTarget(w)
  <2>1. worker[w].pc = "check" /\ ~worker[w].own
    BY <1>7, <1>14 DEF CheckTarget, At, Filed
  <2>2. CASE Error(w)
    BY <1>5, <2>1, <2>2
  <2>3. QED BY <1>2, <1>11, <1>14, <2>1, <2>2 DEF CheckTarget, InCache
<1>15. CASE Convert(w)
  <2>1. worker[w].pc = "convert" /\ ~worker[w].own
    BY <1>7, <1>15 DEF Convert, At, Filed
  <2>2. CASE Error(w)
    BY <1>5, <2>1, <2>2
  <2>3. CASE ~Error(w)
    <3>1. PICK g \in Files :
            /\ SourceIs(w) /\ from[g] = Unused
            /\ from' = [from EXCEPT ![g] = Origin(w)]
            /\ fs' = [fs EXCEPT !.temps = @ \cup {g}]
            /\ worker' = [worker EXCEPT ![w].pc = "publish", ![w].file = g, ![w].own = TRUE]
            /\ UNCHANGED <<disk, crashes>>
      BY <1>15, <2>3 DEF Convert
    <3>2. /\ worker'[w].pc = "publish" /\ worker'[w].file = g /\ worker'[w].own = TRUE /\ others
      BY <1>0, <3>1 DEF Work
    <3>3. Entry(fs.src, fs.target, fs.temps \cup {g}, fs.intent, fs.manifest)
      BY <1>0, <3>1 DEF Entry, Entries
    <3>4. Makes(w)
      BY <2>1, <3>1, <3>2, <3>3 DEF Makes
    <3>5. QED BY <3>2, <3>4 DEF Acts, KindOf
  <2>4. QED BY <2>2, <2>3
<1>16. CASE LinkIntent(w)
  <2>1. CASE Error(w)
    BY <1>6, <1>16, <2>1 DEF LinkIntent, At
  <2>2. CASE ~Error(w)
    <3>1. Intends(w)
      BY <1>1, <1>3, <1>16, <2>2 DEF LinkIntent, At, Intends
    <3>2. QED BY <1>1, <1>16, <2>2, <3>1 DEF LinkIntent, Acts, KindOf
  <2>3. QED BY <2>1, <2>2
<1>17. CASE SyncIntent(w)
  <2>1. worker[w].pc = "intended"
    BY <1>17 DEF SyncIntent, At
  <2>2. CASE Goes(w, "link") /\ Syncs
    BY <1>2, <1>11, <2>1, <2>2
  <2>3. QED BY <1>9, <1>17, <2>1, <2>2 DEF SyncIntent
<1>18. CASE CheckSave(w)
  <2>1. worker[w].pc = "save"
    BY <1>18 DEF CheckSave, At
  <2>2. CASE fs.target # f /\ Error(w)
    BY <1>6, <2>1, <2>2
  <2>3. CASE Goes(w, "commit") /\ Reads
    BY <1>2, <1>11, <2>1, <2>3 DEF InCache
  <2>4. CASE Goes(w, "committed") /\ Reads /\ fs.manifest = f
    BY <1>2, <1>11, <2>1, <2>4 DEF InCache
  <2>5. CASE Goes(w, "failed") /\ Reads
    BY <1>2, <1>11, <2>1, <2>5 DEF InCache
  <2>6. QED BY <1>18, <2>2, <2>3, <2>4, <2>5 DEF CheckSave
<1>19. CASE LinkManifest(w)
  <2>1. worker[w].pc = "commit"
    BY <1>19 DEF LinkManifest, At
  <2>2. CASE Goes(w, "failed") /\ Reads
    BY <1>2, <1>11, <2>1, <2>2 DEF InCache
  <2>3. CASE fs.manifest \in {NoFile, f} /\ Goes(w, "committed")
             /\ Directory([fs EXCEPT !.manifest = f])
    <3>1. Saves(w)
      BY <1>1, <1>3, <2>1, <2>3 DEF Saves
    <3>2. QED BY <1>1, <2>3, <3>1 DEF Acts, KindOf
  <2>4. QED BY <1>19, <2>2, <2>3 DEF LinkManifest
<1>20. CASE Reconsider(w)
  <2>1. worker[w].pc = "failed"
    BY <1>20 DEF Reconsider, At
  <2>2. CASE Goes(w, "finish") /\ Reads /\ fs.manifest = f
    BY <1>2, <1>11, <2>1, <2>2 DEF InCache
  <2>3. CASE Loads /\ fs.manifest # f /\ Error(w)
    BY <1>6, <2>1, <2>3 DEF Loads
  <2>4. CASE ~Loads /\ Goes(w, "rollback") /\ Reads
    BY <1>2, <1>11, <2>1, <2>4 DEF InCache
  <2>5. QED BY <1>20, <2>2, <2>3, <2>4 DEF Reconsider
<1>21. CASE RollBackTarget(w)
  <2>1. worker[w].pc = "rollback"
    BY <1>21 DEF RollBackTarget, At
  <2>2. CASE fs.target \notin {NoFile, f} /\ Error(w)
    BY <1>6, <2>1, <2>2
  <2>3. CASE /\ fs.target \in {NoFile, f} /\ Goes(w, "rolledback")
             /\ Directory([fs EXCEPT !.target = NoFile])
    <3>1. Undoes(w)
      BY <1>1, <1>3, <2>1, <2>3 DEF Undoes
    <3>2. QED BY <1>1, <2>3, <3>1 DEF Acts, KindOf
  <2>4. QED BY <1>21, <2>2, <2>3 DEF RollBackTarget, Removable
<1>22. CASE RollBackIntent(w)
  BY <1>9, <1>22 DEF RollBackIntent, At
<1>23. CASE SyncManifest(w)
  <2>1. worker[w].pc = "committed"
    BY <1>23 DEF SyncManifest, At
  <2>2. CASE Goes(w, "finish") /\ Syncs
    BY <1>2, <1>11, <2>1, <2>2
  <2>3. QED BY <1>6, <1>23, <2>1, <2>2 DEF SyncManifest
<1>24. CASE RemoveIntent(w)
  <2>1. worker[w].pc = "finish"
    BY <1>24 DEF RemoveIntent, At
  <2>2. CASE fs.intent # f /\ Error(w)
    BY <1>6, <2>1, <2>2
  <2>3. CASE fs.intent \in {NoFile, f} /\ Goes(w, "finished")
             /\ Directory([fs EXCEPT !.intent = NoFile])
    <3>1. Forgets(w)
      BY <1>1, <1>3, <2>1, <2>3 DEF Forgets
    <3>2. QED BY <1>1, <2>3, <3>1 DEF Acts, KindOf
  <2>4. QED BY <1>24, <2>2, <2>3 DEF RemoveIntent, Removable
<1>25. CASE SyncFinished(w)
  <2>1. worker[w].pc = "finished"
    BY <1>25 DEF SyncFinished, At
  <2>2. CASE Error(w)
    BY <1>6, <2>1, <2>2
  <2>3. CASE ~Error(w)
    <3>1. /\ disk' = fs /\ fs' = [fs EXCEPT !.temps = @ \ {f}] /\ from' = from
          /\ Goes(w, IF worker[w].own THEN "emit" ELSE "check")
      BY <1>25, <2>3 DEF SyncFinished
    <3>2. Entry(fs.src, fs.target, fs.temps \ {f}, fs.intent, fs.manifest)
      BY <1>0, <3>1 DEF Entry, Entries
    <3>3. QED BY <1>1, <2>1, <3>1, <3>2 DEF Finishes, Acts, KindOf
  <2>4. QED BY <2>2, <2>3
<1>26. CASE Emit(w)
  <2>1. worker[w].pc = "emit"
    BY <1>26 DEF Emit, At
  <2>2. CASE Error(w)
    BY <1>6, <2>1, <2>2
  <2>3. CASE ~Error(w)
    <3>1. /\ worker' = [worker EXCEPT ![w].pc = "deleting", ![w].file = fs.manifest,
                                      ![w].own = FALSE]
          /\ Directory([fs EXCEPT !.deletion = fs.manifest])
      BY <1>26, <2>3 DEF Emit
    <3>2. worker'[w].pc = "deleting" /\ worker'[w].own = FALSE /\ others
      BY <1>0, <3>1 DEF Work
    <3>3. QED BY <1>3, <2>1, <3>1, <3>2 DEF Turns, Acts, KindOf
  <2>4. QED BY <2>2, <2>3
<1>27. CASE SyncDeletion(w) \/ Recheck(w)
  <2>1. worker[w].pc \in Deleting /\ ~worker[w].own
    BY <1>7, <1>27, Parts DEF SyncDeletion, Recheck, At
  <2>2. CASE Error(w)
    BY <1>5, <2>1, <2>2, Parts
  <2>3. CASE Goes(w, "recheck") /\ Syncs
    BY <1>2, <1>11, <2>1, <2>3, Parts
  <2>4. CASE Goes(w, "delete") /\ Reads
    BY <1>2, <1>11, <2>1, <2>4, Parts DEF InCache
  <2>5. QED BY <1>27, <2>2, <2>3, <2>4 DEF SyncDeletion, Recheck
<1>28. CASE RemoveSource(w)
  <2>1. worker[w].pc = "delete" /\ ~worker[w].own
    BY <1>7, <1>28, Parts DEF RemoveSource, At
  <2>2. CASE Error(w)
    BY <1>5, <2>1, <2>2
  <2>3. CASE ~Error(w)
    <3>1. /\ fs.src[worker[w].src] \in {Gone, worker[w].ver}
          /\ Goes(w, "deleted") /\ Directory([fs EXCEPT !.src[worker[w].src] = Gone])
      BY <1>28, <2>3 DEF RemoveSource, Removable, Gone, NoFile
    <3>2. /\ Entry([fs.src EXCEPT ![worker[w].src] = Gone], fs.target, fs.temps, fs.intent,
                   fs.manifest)
          /\ InCache
      BY <1>0, <3>1 DEF Directory, Entry, InCache, Entries
    <3>3. QED BY <1>1, <2>1, <3>1, <3>2 DEF Removes, Acts, KindOf
  <2>4. QED BY <2>2, <2>3
<1>29. CASE SyncDeleted(w) \/ RemoveDeletion(w) \/ SyncOver(w)
  <2>1. worker[w].pc \in Ending /\ ~worker[w].own /\ worker[w].pc \notin {"idle", "rolledback"}
    BY <1>7, <1>29, Parts DEF SyncDeleted, RemoveDeletion, SyncOver, At
  <2>2. CASE Error(w)
    BY <1>5, <2>1, <2>2
  <2>3. CASE \/ Goes(w, "forget") /\ Syncs
             \/ Goes(w, "over") /\ Directory([fs EXCEPT !.deletion = NoFile])
    BY <1>2, <1>3, <1>11, <2>1, <2>3, Parts DEF InCache
  <2>4. CASE worker' = [worker EXCEPT ![w] = Resting] /\ Syncs
    <3>1. Drops(w) /\ others
      BY <1>0, <2>4 DEF Drops, Resting
    <3>2. QED BY <1>2, <2>1, <2>4, <3>1 DEF Quits, Acts, KindOf
  <2>5. QED BY <1>29, <2>2, <2>3, <2>4 DEF SyncDeleted, RemoveDeletion, SyncOver
<1>30. QED
  BY <1>10, <1>12, <1>13, <1>14, <1>15, <1>16, <1>17, <1>18, <1>19, <1>20, <1>21, <1>22, <1>23,
     <1>24, <1>25, <1>26, <1>27, <1>28, <1>29 DEF Execute

-----------------------------------------------------------------------------
(* What every step of a worker leaves alone. *)

LEMMA Ranges ==
  ASSUME TypeOK
  PROVE  /\ NoFile \notin Files /\ Foreign \notin Files \cup {NoFile}
         /\ fs.intent \in {NoFile} \cup Files /\ disk.intent \in {NoFile} \cup Files
         /\ fs.manifest \in {NoFile} \cup Files /\ disk.manifest \in {NoFile} \cup Files
         /\ fs.target \in {NoFile, Foreign} \cup Files
         /\ disk.target \in {NoFile, Foreign} \cup Files
         /\ \A w \in Workers : worker[w].own \in BOOLEAN /\ worker[w].file \in {NoFile} \cup Files
         /\ \A s \in Sources : fs.src[s] \in {0, 1, 2} /\ disk.src[s] \in {0, 1, 2}
         /\ fs.src \in [Sources -> {0, 1, 2}]
         /\ from \in [Files -> Made] /\ Gone = 0
BY Numbers DEF TypeOK, Entries, Work, Made, Gone, Versions

\* Products in hand and committed products are named, and made of their worker's source.
LEMMA NamesKnown ==
  ASSUME TypeOK, IInv
  PROVE  /\ fs.manifest # NoFile => Named(fs.manifest)
         /\ disk.manifest # NoFile => disk.manifest = fs.manifest
         /\ \A w \in Workers : worker[w].pc \in Filed \cup Deleting =>
              /\ worker[w].file \in Files /\ Named(worker[w].file)
              /\ from[worker[w].file].src = worker[w].src
              /\ from[worker[w].file].ver = worker[w].ver
              /\ Current(worker[w].file) <=> SourceIs(w)
<1> USE Parts DEF IInv
<1>1. fs.manifest # NoFile => Named(fs.manifest)
  BY PublicationAssumption DEF FilesKnown, Named, Unused
<1>2. ASSUME NEW w \in Workers, worker[w].pc \in Filed \cup Deleting
      PROVE  /\ worker[w].file \in Files /\ Named(worker[w].file)
             /\ from[worker[w].file].src = worker[w].src
             /\ from[worker[w].file].ver = worker[w].ver
             /\ Current(worker[w].file) <=> SourceIs(w)
  <2>1. worker[w].file \in Files /\ from[worker[w].file] = Origin(w) /\ worker[w].src \in Sources
    BY <1>2 DEF FilesKnown
  <2>2. QED BY <2>1, Origins DEF Named, Current, SourceIs
<1>3. QED BY <1>1, <1>2 DEF DiskBehind

LEMMA ActsFrame ==
  ASSUME TypeOK, IInv, RInv, NEW w \in Workers, Acts(w)
  PROVE  /\ \A v \in Workers \ {w} : worker'[v] = worker[v]
         /\ \A f \in Files : Named(f) => Named(f)' /\ from'[f] = from[f]
         /\ \A f \in Files : Named(f)' => Named(f) \/ (Makes(w) /\ f = worker'[w].file)
         /\ fs'.src = fs.src \/ Removes(w)
         /\ \A f \in Files : Named(f) /\ Current(f)' => Current(f)
         /\ fs'.manifest = fs.manifest \/ (Saves(w) /\ fs.manifest = NoFile)
         /\ fs'.target = fs.target \/ Joins(w) \/ Undoes(w)
         /\ fs'.intent = fs.intent \/ Intends(w) \/ (Forgets(w) /\ fs'.intent = NoFile)
         /\ disk' = disk \/ (disk' = fs /\ (Moves(w) \/ Quits(w) \/ Finishes(w)))
         /\ Held(w)' => (Held(w) /\ worker'[w].file = worker[w].file) \/ Adopts(w) \/ Makes(w)
<1> USE Parts, Ranges DEF Acts, KindOf
<1>1. ASSUME NEW f \in Files, Named(f) PROVE from'[f] = from[f] /\ Named(f)'
  BY <1>1 DEF Begins, Adopts, Moves, Turns, Quits, Leaves, Makes, Intends, Forgets, Joins, Undoes,
              Saves, Removes, Finishes, InCache, Named
<1>2. ASSUME NEW f \in Files, Named(f)' PROVE Named(f) \/ (Makes(w) /\ f = worker'[w].file)
  <2>1. CASE Makes(w)
    BY <1>2, <2>1 DEF Makes, Named
  <2>2. CASE ~Makes(w)
    BY <1>2, <2>2 DEF Begins, Adopts, Moves, Turns, Quits, Leaves, Intends, Forgets, Joins, Undoes,
                      Saves, Removes, Finishes, InCache, Named
  <2>3. QED BY <2>1, <2>2
<1>3. /\ fs'.src = fs.src \/ Removes(w)
      /\ fs'.manifest = fs.manifest \/ (Saves(w) /\ fs.manifest = NoFile)
      /\ fs'.target = fs.target \/ Joins(w) \/ Undoes(w)
      /\ fs'.intent = fs.intent \/ Intends(w) \/ (Forgets(w) /\ fs'.intent = NoFile)
  BY DEF Begins, Adopts, Moves, Turns, Quits, Leaves, Makes, Intends, Forgets, Joins, Undoes,
         Saves, Removes, Finishes, Same, Entry
<1>4. disk' = disk \/ (disk' = fs /\ (Moves(w) \/ Quits(w) \/ Finishes(w)))
  BY DEF Begins, Adopts, Moves, Turns, Quits, Leaves, Makes, Intends, Forgets, Joins, Undoes,
         Saves, Removes, Finishes, InCache
<1>5. Held(w)' => (Held(w) /\ worker'[w].file = worker[w].file) \/ Adopts(w) \/ Makes(w)
  <2>1. CASE Moves(w)
    BY <2>1 DEF Moves, Bears, Held, Filed
  <2>2. CASE ~Moves(w)
    BY <2>2 DEF Begins, Adopts, Turns, Quits, Leaves, Makes, Intends, Forgets, Joins, Undoes,
                Saves, Removes, Finishes, Bears, Drops, Held, Filed
  <2>3. QED BY <2>1, <2>2
<1>6. ASSUME NEW f \in Files, Named(f), Current(f)' PROVE Current(f)
  <2>1. from'[f] = from[f] /\ from[f].src \in Sources /\ from[f].ver # Gone
    BY <1>1, <1>6 DEF RInv, VersionsGrow
  <2>2. fs'.src[from[f].src] = from[f].ver
    BY <1>6, <2>1 DEF Current
  <2>3. CASE fs'.src = fs.src
    BY <1>6, <2>2, <2>3 DEF Current, Named
  <2>4. CASE Removes(w)
    BY <1>6, <2>1, <2>2, <2>4 DEF Removes, Entry, Current, Named
  <2>5. QED BY <1>3, <2>3, <2>4
<1>7. QED BY <1>1, <1>2, <1>3, <1>4, <1>5, <1>6

-----------------------------------------------------------------------------
(* The parts, one by one, under the steps of a worker. *)

LEMMA OwnPlacesStep ==
  ASSUME TypeOK, OwnPlaces, NEW w \in Workers, Acts(w)
  PROVE  OwnPlaces'
<1>1. \A v \in Workers \ {w} : worker'[v] = worker[v]
  BY DEF Acts
<1>2. /\ worker'[w].own => worker'[w].pc \in (Filed \ {"validate"}) \cup {"emit"}
      /\ worker'[w].pc \in Preparing => worker'[w].own
  BY DEF Acts, KindOf, Begins, Adopts, Moves, Turns, Quits, Leaves, Makes, Intends, Forgets, Joins,
         Undoes, Saves, Removes, Finishes, Bears, Drops, OwnPlaces, Filed, Preparing, Deleting,
         Ending
<1>3. QED BY <1>1, <1>2 DEF OwnPlaces

LEMMA ProductsNamedStep ==
  ASSUME TypeOK, IInv, RInv, NEW w \in Workers, Acts(w)
  PROVE  ProductsNamed'
<1> USE Ranges, ActsFrame DEF RInv, Named
<1>1. \A f \in Files : Named(f) => Named(f)'
  OBVIOUS
<1>2. Held(w) => worker[w].file \in Files /\ Named(worker[w].file)
  BY DEF ProductsNamed
<1>3. fs'.intent # NoFile => fs'.intent \in Files /\ Named(fs.intent)'
  <2>1. CASE Intends(w)
    <3>1. Held(w) /\ fs'.intent = worker[w].file
      BY <2>1 DEF Intends, Entry, Held, Filed
    <3>2. QED BY <1>2, <3>1
  <2>2. CASE ~Intends(w)
    BY <2>2 DEF ProductsNamed
  <2>3. QED BY <2>1, <2>2
<1>4. disk'.intent # NoFile => disk'.intent \in Files /\ Named(disk.intent)'
  BY DEF ProductsNamed
<1>5. Held(w)' => worker'[w].file \in Files /\ Named(worker[w].file)'
  <2>1. CASE Held(w) /\ worker'[w].file = worker[w].file
    BY <1>1, <1>2, <2>1
  <2>2. CASE Adopts(w)
    BY <1>1, <2>2 DEF Adopts, ProductsNamed
  <2>3. CASE Makes(w)
    <3>1. worker[w].src \in Sources /\ worker[w].pc = "convert"
      BY <2>3 DEF Makes, IInv, FilesKnown
    <3>2. from'[worker'[w].file] = Origin(w) /\ worker'[w].file \in Files
      BY <2>3 DEF Makes
    <3>3. QED BY <3>1, <3>2, Origins
  <2>4. QED BY <2>1, <2>2, <2>3
<1>6. ASSUME NEW v \in Workers \ {w}, Held(v)'
      PROVE  worker'[v].file \in Files /\ Named(worker[v].file)'
  <2>1. Held(v) /\ worker'[v].file = worker[v].file
    BY <1>6 DEF Held
  <2>2. QED BY <1>1, <2>1 DEF ProductsNamed
<1>7. QED BY <1>1, <1>3, <1>4, <1>5, <1>6 DEF ProductsNamed

LEMMA VersionsGrowStep ==
  ASSUME TypeOK, IInv, RInv, NEW w \in Workers, Acts(w)
  PROVE  VersionsGrow'
<1> USE Ranges, ActsFrame, Parts DEF RInv, Named
<1>1. disk' = disk \/ disk' = fs
  OBVIOUS
<1>2. \A s \in Sources : fs'.src[s] \in {fs.src[s], Gone}
  <2>1. CASE fs'.src = fs.src
    BY <2>1
  <2>2. CASE Removes(w)
    <3>1. fs'.src = [fs.src EXCEPT ![worker[w].src] = Gone]
      BY <2>2 DEF Removes, Entry
    <3>2. QED BY <3>1
  <2>3. QED BY <2>1, <2>2
<1>3. \A s \in Sources : disk'.src[s] \in {Gone, fs.src[s], disk.src[s]}
  BY <1>1
<1>4. ASSUME NEW f \in Files, Named(f)'
      PROVE  /\ from'[f].src \in Sources /\ from'[f].ver # Gone
             /\ fs'.src[from'[f].src] = Gone \/ from'[f].ver <= fs'.src[from'[f].src]
             /\ disk'.src[from'[f].src] = Gone \/ from'[f].ver <= disk'.src[from'[f].src]
  <2>1. CASE Named(f)
    <3>1. from'[f] = from[f]
      BY <2>1
    <3>2. QED BY <1>2, <1>3, <2>1, <3>1 DEF VersionsGrow
  <2>2. CASE Makes(w) /\ f = worker'[w].file
    <3>1. from'[f] = Origin(w) /\ fs.src[worker[w].src] = worker[w].ver /\ worker[w].pc = "convert"
      BY <2>2 DEF Makes, SourceIs
    <3>2. worker[w].src \in Sources /\ worker[w].ver # Gone
      BY <3>1 DEF IInv, FilesKnown
    <3>3. fs'.src = fs.src /\ disk' = disk /\ disk.src[worker[w].src] = worker[w].ver
      BY <2>2, <3>1, <3>2 DEF Makes, Entry, VersionsGrow
    <3>4. QED BY <3>1, <3>2, <3>3, Origins
  <2>3. QED BY <1>4, <2>1, <2>2
<1>5. ASSUME NEW s \in Sources, fs'.src[s] # Gone PROVE disk'.src[s] = fs'.src[s]
  BY <1>1, <1>2, <1>5 DEF VersionsGrow
<1>6. ASSUME NEW s \in Sources, fs'.src[s] = Gone, disk'.src[s] # Gone
      PROVE  disk'.src[s] = from'[fs'.manifest].ver
  <2>1. CASE fs.src[s] = Gone
    <3>1. disk' = disk
      BY <1>1, <1>6, <2>1
    <3>2. fs.manifest # NoFile
      BY <2>1 DEF IInv, GoneSettled
    <3>3. fs'.manifest = fs.manifest /\ from'[fs.manifest] = from[fs.manifest]
      BY <3>2, NamesKnown
    <3>4. QED BY <1>6, <2>1, <3>1, <3>3 DEF VersionsGrow
  <2>2. CASE fs.src[s] # Gone
    <3>1. Removes(w) /\ s = worker[w].src
      BY <1>6, <2>2 DEF Removes, Entry
    <3>2. /\ disk' = disk /\ disk.src[s] = fs.src[s] /\ fs.src[s] = worker[w].ver
          /\ fs'.manifest = fs.manifest /\ worker[w].pc = "delete"
      BY <2>2, <3>1 DEF Removes, Entry, InCache, VersionsGrow
    <3>3. fs.manifest = worker[w].file
      BY <3>2 DEF IInv, DeletionProved
    <3>4. from'[fs.manifest] = from[fs.manifest] /\ from[fs.manifest].ver = worker[w].ver
      BY <3>2, <3>3, NamesKnown
    <3>5. QED BY <3>2, <3>4
  <2>3. QED BY <2>1, <2>2
<1>7. QED BY <1>4, <1>5, <1>6 DEF VersionsGrow

LEMMA OwnedOnceStep ==
  ASSUME TypeOK, IInv, RInv, NEW w \in Workers, Acts(w)
  PROVE  OwnedOnce'
<1> USE Ranges, ActsFrame, Parts DEF RInv, Named
<1>1. \A v \in Workers : Held(v) => worker[v].file \in Files /\ Named(worker[v].file)
  BY DEF ProductsNamed
<1>2. \A v \in Workers \ {w} : Held(v)' <=> Held(v)
  BY DEF Held
<1>3. \/ Makes(w) /\ ~Named(worker'[w].file)
      \/ worker'[w].own => worker[w].own /\ worker'[w].file = worker[w].file
  BY DEF Acts, KindOf, Begins, Adopts, Moves, Turns, Quits, Leaves, Makes, Intends, Forgets, Joins,
         Undoes, Saves, Removes, Finishes, Bears, Drops
<1>4. ASSUME NEW u \in Workers, NEW v \in Workers, worker'[u].own, worker'[v].own,
             worker'[u].file = worker'[v].file
      PROVE  u = v
  <2>1. \A x \in Workers : worker[x].own => Held(x)
    BY DEF Held
  <2>2. QED BY <1>1, <1>3, <1>4, <2>1 DEF OwnedOnce
<1>5. ASSUME NEW v \in Workers, worker'[v].pc = "publish"
      PROVE  /\ worker'[v].file \notin {fs'.intent, disk'.intent}
             /\ \A u \in Workers \ {v} : Held(u)' => worker'[u].file # worker'[v].file
  <2>1. CASE v = w
    <3>1. Makes(w)
      BY <1>5, <2>1 DEF Acts, KindOf, Begins, Adopts, Moves, Turns, Quits, Leaves, Intends, Forgets,
                        Joins, Undoes, Saves, Removes, Finishes, Bears, Drops
    <3>2. ~Named(worker'[w].file) /\ worker'[w].file \in Files
          /\ disk' = disk /\ fs'.intent = fs.intent
      BY <3>1 DEF Makes, Named, Entry
    <3>3. QED BY <1>1, <1>2, <2>1, <3>2 DEF ProductsNamed
  <2>2. CASE v # w
    <3>1. /\ worker[v].pc = "publish" /\ worker'[v] = worker[v] /\ Held(v)
          /\ worker[v].file \notin {fs.intent, disk.intent}
          /\ \A u \in Workers \ {v} : Held(u) => worker[u].file # worker[v].file
      BY <1>5, <2>2 DEF Held, Filed, OwnedOnce
    <3>2. worker[v].file # fs'.intent
      <4>1. CASE Intends(w)
        BY <2>2, <3>1, <4>1 DEF Intends, Entry, Held, Filed
      <4>2. QED BY <1>1, <3>1, <4>1
    <3>3. worker[v].file # disk'.intent
      BY <3>1
    <3>4. Held(w)' => worker'[w].file # worker[v].file
      <4>1. CASE Adopts(w)
        BY <3>1, <4>1 DEF Adopts
      <4>2. CASE Makes(w)
        BY <1>1, <3>1, <4>2 DEF Makes
      <4>3. QED BY <2>2, <3>1, <4>1, <4>2
    <3>5. QED BY <1>2, <3>1, <3>2, <3>3, <3>4
  <2>3. QED BY <2>1, <2>2
<1>6. QED BY <1>4, <1>5 DEF OwnedOnce

\* A rollback beside another worker with the same product in hand has a reason
\* that lasts: another product was committed.
LEMMA UndoesBeside ==
  ASSUME TypeOK, IInv, NEW w \in Workers, Undoes(w), NEW v \in Workers \ {w},
         worker[v].pc \in Filed, worker[v].file = worker[w].file
  PROVE  fs.manifest \notin {NoFile, worker[w].file}
<1> USE Ranges, Parts DEF IInv
<1>1. worker[w].pc = "rollback" /\ fs.target \in {NoFile, worker[w].file}
  BY DEF Undoes
<1>2. ~Alone(w) /\ worker[w].pc # "idle" /\ worker[v].pc # "idle"
  BY <1>1 DEF Alone
<1>3. Origin(v) = Origin(w)
  BY <1>1 DEF FilesKnown
<1>4. ASSUME ~SourceIs(w) PROVE fs.manifest \notin {NoFile, worker[w].file}
  <2>1. fs.src[worker[w].src] \in {Gone, worker[w].ver}
    BY <1>2, <1>3 DEF VersionShared
  <2>2. fs.src[worker[w].src] = Gone /\ worker[w].src \in Sources
    BY <1>1, <1>4, <2>1 DEF SourceIs, FilesKnown
  <2>3. fs.manifest # NoFile /\ fs.target = fs.manifest
    BY <2>2 DEF GoneSettled
  <2>4. fs.manifest # worker[w].file
    BY <1>1, <2>2 DEF RollbackJustified
  <2>5. QED BY <2>3, <2>4
<1>5. QED BY <1>1, <1>2, <1>4 DEF RollbackJustified

LEMMA TempKeptStep ==
  ASSUME TypeOK, IInv, RInv, NEW w \in Workers, Acts(w)
  PROVE  TempKept'
<1> USE Ranges, ActsFrame, Parts DEF RInv, Named
<1>1. \A v \in Workers : Held(v) => worker[v].file \in Files /\ Named(worker[v].file)
  BY DEF ProductsNamed
<1>2. ASSUME NEW v \in Workers, worker[v].pc \in Preparing,
             v # w \/ worker'[v].pc \in Preparing
      PROVE  \/ worker[v].file \in fs'.temps
             \/ fs'.manifest = worker[v].file /\ fs'.target = worker[v].file
  <2> DEFINE f == worker[v].file
  <2>1. f \in fs.temps \/ (fs.manifest = f /\ fs.target = f)
    BY <1>2 DEF TempKept
  <2>2. worker[v].own /\ worker[v].pc \in Filed /\ f \in Files
    BY <1>1, <1>2 DEF OwnPlaces, Preparing, Filed, Held
  <2>3. CASE fs.manifest = f /\ fs.target = f
    <3>1. fs'.manifest = f
      BY <2>2, <2>3
    <3>2. fs'.target = f
      <4>1. CASE Joins(w)
        BY <2>2, <2>3, <4>1 DEF Joins, Entry
      <4>2. CASE Undoes(w)
        <5>1. worker[w].file = f
          BY <2>2, <2>3, <4>2 DEF Undoes
        <5>2. v # w
          BY <1>2, <4>2 DEF Undoes, Preparing
        <5>3. QED BY <2>2, <2>3, <4>2, <5>1, <5>2, UndoesBeside
      <4>3. QED BY <2>3, <4>1, <4>2
    <3>3. QED BY <3>1, <3>2
  <2>4. CASE f \in fs.temps
    <3>1. CASE Leaves(w)
      <4>1. v # w /\ worker[w].own /\ fs'.temps = fs.temps \ {worker[w].file}
        BY <1>2, <3>1 DEF Leaves, Drops, Entry, Preparing
      <4>2. worker[w].file # f
        BY <2>2, <4>1 DEF OwnedOnce
      <4>3. QED BY <2>4, <4>1, <4>2
    <3>2. CASE Forgets(w)
      <4>1. CASE v = w
        BY <1>2, <3>2, <4>1 DEF Forgets, Drops, Bears, Preparing
      <4>2. CASE v # w
        BY <2>2, <2>4, <3>2, <4>2 DEF Forgets, Entry, OwnedOnce
      <4>3. QED BY <4>1, <4>2
    <3>3. CASE Finishes(w)
      <4>1. /\ worker[w].pc = "finished" /\ fs'.temps = fs.temps \ {worker[w].file}
            /\ fs'.manifest = fs.manifest /\ fs'.target = fs.target
        BY <3>3 DEF Finishes, Entry
      <4>2. CASE worker[w].file = f
        <5>1. fs.manifest = f /\ f # NoFile
          BY <2>2, <4>1, <4>2 DEF TargetStands
        <5>2. fs.target = f
          BY <4>1, <4>2, <5>1 DEF TargetStands, Placed
        <5>3. QED BY <4>1, <5>1, <5>2
      <4>3. QED BY <2>4, <4>1, <4>2
    <3>4. CASE ~Leaves(w) /\ ~Forgets(w) /\ ~Finishes(w)
      <4>1. fs.temps \subseteq fs'.temps
        BY <3>4 DEF Acts, KindOf, Begins, Adopts, Moves, Turns, Quits, Makes, Intends, Joins,
                    Undoes,
                    Saves, Removes, Same, Entry
      <4>2. QED BY <2>4, <4>1
    <3>5. QED BY <3>1, <3>2, <3>3, <3>4
  <2>5. QED BY <2>1, <2>3, <2>4
<1>3. ASSUME NEW v \in Workers, worker'[v].pc \in Preparing
      PROVE  \/ worker'[v].file \in fs'.temps
             \/ fs'.manifest = worker'[v].file /\ fs'.target = worker'[v].file
  <2>1. CASE v # w
    BY <1>2, <1>3, <2>1
  <2>2. CASE v = w /\ Makes(w)
    BY <2>2 DEF Makes, Entry
  <2>3. CASE v = w /\ ~Makes(w)
    <3>1. worker[w].pc \in Preparing /\ worker'[w].file = worker[w].file
      BY <1>3, <2>3 DEF Acts, KindOf, Begins, Adopts, Moves, Turns, Quits, Leaves, Intends, Forgets,
                        Joins, Undoes, Saves, Removes, Finishes, Bears, Drops, Preparing, Deleting,
                        Ending
    <3>2. QED BY <1>2, <1>3, <2>3, <3>1
  <2>4. QED BY <2>1, <2>2, <2>3
<1>4. ASSUME NEW v \in Workers, worker'[v].own, worker'[v].pc = "emit"
      PROVE  worker'[v].file \notin fs'.temps
  <2>1. CASE v # w
    <3>1. /\ worker[v].own /\ worker[v].file \notin fs.temps /\ Held(v)
          /\ worker'[v].file = worker[v].file
      BY <1>4, <2>1 DEF TempKept, Held
    <3>2. CASE Makes(w)
      BY <1>1, <3>1, <3>2 DEF Makes, Entry
    <3>3. CASE ~Makes(w)
      <4>1. fs'.temps \subseteq fs.temps
        BY <3>3 DEF Acts, KindOf, Begins, Adopts, Moves, Turns, Quits, Leaves, Intends, Forgets,
                    Joins, Undoes, Saves, Removes, Finishes, Same, Entry
      <4>2. QED BY <3>1, <4>1
    <3>4. QED BY <3>2, <3>3
  <2>2. CASE v = w
    <3>1. CASE Finishes(w)
      BY <2>2, <3>1 DEF Finishes, Bears, Entry
    <3>2. CASE Moves(w)
      <4>1. worker[w].pc \in {"recover", "check"} /\ worker[w].own
        BY <1>4, <2>2, <3>2 DEF Moves, Bears, Deleting, Ending
      <4>2. QED BY <4>1 DEF OwnPlaces, Filed
    <3>3. CASE ~Finishes(w) /\ ~Moves(w)
      BY <1>4, <2>2, <3>3 DEF Acts, KindOf, Begins, Adopts, Turns, Quits, Leaves, Makes, Intends,
                              Forgets, Joins, Undoes, Saves, Removes, Bears, Drops
    <3>4. QED BY <3>1, <3>2, <3>3
  <2>3. QED BY <2>1, <2>2
<1>5. QED BY <1>3, <1>4 DEF TempKept

LEMMA TargetStandsStep ==
  ASSUME TypeOK, IInv, RInv, NEW w \in Workers, Acts(w)
  PROVE  TargetStands'
<1> USE Ranges, ActsFrame, Parts DEF RInv, Named
<1>1. \A v \in Workers : Held(v) => worker[v].file \in Files /\ Named(worker[v].file)
  BY DEF ProductsNamed
<1>2. Placed \subseteq Filed /\ "rolledback" \notin Placed
  BY DEF Placed, Filed
<1>3. ASSUME NEW v \in Workers \ {w}, worker[v].pc \in Placed
      PROVE  \/ fs'.target = worker[v].file
             \/ /\ fs'.manifest \notin {NoFile, worker[v].file}
                /\ \/ fs'.intent # worker[v].file
                   \/ \E u \in Workers :
                        worker'[u].pc = "rolledback" /\ worker'[u].file = worker[v].file
  <2> DEFINE f == worker[v].file
  <2>1. Held(v) /\ f \in Files /\ worker[v].pc \in Filed
    BY <1>1, <1>2, <1>3 DEF Held
  <2>2. CASE fs.target = f
    <3>1. CASE Undoes(w)
      <4>1. worker[w].file = f
        BY <2>1, <2>2, <3>1 DEF Undoes
      <4>2. fs'.manifest \notin {NoFile, f}
        BY <2>1, <3>1, <4>1, UndoesBeside DEF Undoes, Entry
      <4>3. worker'[w].pc = "rolledback" /\ worker'[w].file = f
        BY <3>1, <4>1 DEF Undoes, Bears
      <4>4. QED BY <4>2, <4>3
    <3>2. CASE Joins(w)
      BY <2>1, <2>2, <3>2 DEF Joins, Entry
    <3>3. QED BY <2>2, <3>1, <3>2
  <2>3. CASE fs.manifest \notin {NoFile, f} /\ (fs.intent # f \/ GoesBack(f))
    <3>1. fs'.manifest \notin {NoFile, f}
      BY <2>3
    <3>2. ~(Intends(w) /\ worker[w].file = f)
      BY <2>1 DEF Intends, OwnedOnce
    <3>3. CASE fs.intent # f
      BY <2>1, <3>1, <3>2, <3>3 DEF Intends, Entry
    <3>4. CASE fs.intent = f /\ GoesBack(f)
      <4>1. PICK u \in Workers : worker[u].pc = "rolledback" /\ worker[u].file = f
        BY <3>4 DEF GoesBack, HalfRolledBack
      <4>2. CASE u # w
        BY <3>1, <4>1, <4>2
      <4>3. CASE u = w
        <5>1. Forgets(w)
          BY <4>1, <4>3 DEF Acts, KindOf, Begins, Adopts, Moves, Turns, Quits, Leaves, Makes,
                            Intends,
                            Joins, Undoes, Saves, Removes, Finishes
        <5>2. fs'.intent = NoFile
          BY <3>4, <4>1, <4>3, <5>1 DEF Forgets, Entry
        <5>3. QED BY <2>1, <3>1, <5>2
      <4>4. QED BY <4>2, <4>3
    <3>5. QED BY <2>3, <3>3, <3>4
  <2>4. QED BY <1>3, <2>2, <2>3 DEF TargetStands
<1>4. ASSUME worker'[w].pc \in Placed
      PROVE  \/ fs'.target = worker'[w].file
             \/ /\ fs'.manifest \notin {NoFile, worker'[w].file}
                /\ \/ fs'.intent # worker'[w].file
                   \/ \E u \in Workers :
                        worker'[u].pc = "rolledback" /\ worker'[u].file = worker'[w].file
  <2>1. CASE Moves(w)
    <3>1. worker'[w].file = worker[w].file /\ Same
      BY <2>1 DEF Moves, Bears
    <3>2. worker[w].pc \in Placed \/ fs.target = worker[w].file
      BY <1>4, <2>1 DEF Moves, Placed, Deleting, Ending
    <3>3. CASE worker[w].pc \in Placed /\ GoesBack(worker[w].file)
      <4>1. PICK u \in Workers : worker[u].pc = "rolledback" /\ worker[u].file = worker[w].file
        BY <3>3 DEF GoesBack, HalfRolledBack
      <4>2. u # w
        BY <1>2, <3>3, <4>1
      <4>3. QED BY <3>1, <3>3, <4>1, <4>2 DEF Same, Entry, TargetStands
    <3>4. QED BY <3>1, <3>2, <3>3 DEF Same, Entry, TargetStands
  <2>2. CASE Joins(w)
    BY <2>2 DEF Joins, Bears, Entry
  <2>3. CASE Saves(w) \/ Forgets(w)
    <3>1. worker[w].pc \in {"commit", "finish"} /\ fs.manifest \in {NoFile, worker[w].file}
      BY <1>4, <2>3 DEF Saves, Forgets, Drops, TargetStands, Placed
    <3>2. fs.target = worker[w].file
      BY <3>1 DEF TargetStands, Placed
    <3>3. fs'.target = fs.target /\ worker'[w].file = worker[w].file
      BY <1>4, <2>3 DEF Saves, Forgets, Drops, Bears, Entry, Placed
    <3>4. QED BY <3>2, <3>3
  <2>4. QED
    BY <1>4, <2>1, <2>2, <2>3 DEF Acts, KindOf, Begins, Adopts, Turns, Quits, Leaves, Makes,
                                  Intends,
                                  Undoes, Removes, Finishes, Bears, Drops, Placed
<1>5. ASSUME NEW v \in Workers, worker'[v].pc \in {"committed", "finish", "finished"}
      PROVE  fs'.manifest = worker'[v].file
  <2>1. CASE v # w
    <3>1. Held(v) /\ fs.manifest = worker[v].file /\ worker'[v] = worker[v]
      BY <1>5, <2>1 DEF Held, Filed, TargetStands
    <3>2. QED BY <1>1, <3>1
  <2>2. CASE v = w
    <3>1. CASE Moves(w)
      BY <1>5, <2>2, <3>1 DEF Moves, Bears, Same, Entry, Deleting, Ending, TargetStands
    <3>2. CASE Saves(w)
      BY <2>2, <3>2 DEF Saves, Bears, Entry
    <3>3. CASE Forgets(w)
      BY <1>5, <2>2, <3>3 DEF Forgets, Bears, Drops, Entry, TargetStands
    <3>4. QED
      BY <1>5, <2>2, <3>1, <3>2, <3>3
      DEF Acts, KindOf, Begins, Adopts, Turns, Quits, Leaves, Makes, Intends, Joins, Undoes,
          Removes,
          Finishes, Bears, Drops
  <2>3. QED BY <2>1, <2>2
<1>6. ASSUME NEW v \in Workers, worker'[v].pc \in Placed
      PROVE  \/ fs'.target = worker'[v].file
             \/ /\ fs'.manifest \notin {NoFile, worker'[v].file}
                /\ \/ fs'.intent # worker'[v].file
                   \/ \E u \in Workers :
                        worker'[u].pc = "rolledback" /\ worker'[u].file = worker'[v].file
  BY <1>3, <1>4, <1>6
<1>7. QED BY <1>5, <1>6 DEF TargetStands, GoesBack, HalfRolledBack

\* A committed product that stands is not taken away under a source it was made of.
LEMMA CommittedStays ==
  ASSUME TypeOK, IInv, RInv, NEW w \in Workers, Acts(w),
         NEW f \in Files, fs.manifest = f, Current(f), fs.target = f
  PROVE  fs'.target = f
<1> USE Ranges, ActsFrame, Parts DEF RInv
<1>1. ~(Undoes(w) /\ worker[w].file = f)
  BY DEF Undoes, CommitStands
<1>2. CASE Undoes(w)
  BY <1>1, <1>2 DEF Undoes
<1>3. CASE Joins(w)
  BY <1>3 DEF Joins, Entry
<1>4. QED BY <1>2, <1>3

LEMMA CommitStandsStep ==
  ASSUME TypeOK, IInv, RInv, NEW w \in Workers, Acts(w)
  PROVE  CommitStands'
<1> USE Ranges, ActsFrame, Parts, NamesKnown DEF RInv, Named
<1>1. \A v \in Workers : Held(v) => worker[v].file \in Files /\ Named(worker[v].file)
  BY DEF ProductsNamed
<1>2. ASSUME Saves(w)
      PROVE  fs.target = worker[w].file /\ fs'.target = fs.target /\ fs'.manifest = worker[w].file
             /\ worker'[w].file = worker[w].file
  BY <1>2 DEF Saves, Bears, Entry, TargetStands, Placed
<1>3. ASSUME NEW f \in Files, fs.manifest = f, Current(f), fs.target = f
      PROVE  fs'.target = f
  BY <1>3, CommittedStays
<1>4. ASSUME NEW v \in Workers \ {w}, Held(v), fs'.manifest = worker[v].file,
             Current(worker[v].file)
      PROVE  \/ fs'.target = worker[v].file
             \/ worker[v].pc = "validate" /\ fs'.intent = worker[v].file
  <2> DEFINE f == worker[v].file
  <2>1. f \in Files
    BY <1>1, <1>4
  <2>2. CASE Saves(w) /\ fs.manifest # f
    BY <1>2, <1>4, <2>2
  <2>3. CASE fs.manifest = f
    <3>1. CASE fs.target = f
      BY <1>3, <1>4, <2>1, <2>3, <3>1
    <3>2. CASE fs.target # f
      <4>1. worker[v].pc = "validate" /\ fs.intent = f
        BY <1>4, <2>3, <3>2 DEF CommitStands
      <4>2. ~(Forgets(w) /\ worker[w].file = f)
        BY <1>4, <2>3, <3>2 DEF Forgets, CommitStands, Held, Filed
      <4>3. ~Intends(w)
        BY <2>1, <4>1 DEF Intends
      <4>4. Forgets(w) => fs'.intent = fs.intent
        BY <4>1, <4>2 DEF Forgets, Entry
      <4>5. fs'.intent = f
        BY <4>1, <4>3, <4>4
      <4>6. QED BY <4>1, <4>5
    <3>3. QED BY <3>1, <3>2
  <2>4. QED BY <1>4, <2>2, <2>3
<1>5. ASSUME Held(w)', fs'.manifest = worker'[w].file, Current(worker[w].file)'
      PROVE  \/ fs'.target = worker'[w].file
             \/ worker'[w].pc = "validate" /\ fs'.intent = worker'[w].file
  <2> DEFINE f == worker[w].file
  <2>1. CASE Adopts(w)
    BY <2>1 DEF Adopts, Same, Entry
  <2>2. CASE Makes(w)
    BY <1>5, <2>2 DEF Makes, Entry
  <2>3. CASE Held(w) /\ worker'[w].file = f
    <3>1. f \in Files /\ Named(f)
      BY <1>1, <2>3
    <3>2. Current(f)
      <4>1. from'[f] = from[f]
        BY <3>1
      <4>2. \A g : Current(g)' <=> from'[g] # Unused /\ fs'.src[from'[g].src] = from'[g].ver
        BY DEF Current
      <4>3. from'[f] # Unused /\ fs'.src[from'[f].src] = from'[f].ver
        BY <1>5, <2>3 DEF Current
      <4>4. QED BY <3>1, <4>2, <4>3
    <3>3. CASE Saves(w)
      BY <1>2, <3>3
    <3>4. CASE ~Saves(w)
      <4>1. fs.manifest = f
        BY <1>5, <2>3, <3>4
      <4>2. CASE fs.target = f
        BY <1>3, <2>3, <3>1, <3>2, <4>1, <4>2
      <4>3. CASE fs.target # f
        <5>1. worker[w].pc = "validate"
          BY <2>3, <3>2, <4>1, <4>3 DEF CommitStands
        <5>2. Moves(w) => fs.target = f
          BY <5>1 DEF Moves, Deleting, Ending
        <5>3. Joins(w)
          BY <1>5, <4>3, <5>1, <5>2 DEF Acts, KindOf, Begins, Adopts, Turns, Quits, Leaves, Makes,
             Intends, Forgets, Undoes, Saves, Removes, Finishes, Drops, Held, Filed, OwnPlaces
        <5>4. QED BY <2>3, <5>3 DEF Joins, Entry
      <4>4. QED BY <4>2, <4>3
    <3>5. QED BY <3>3, <3>4
  <2>4. QED BY <1>5, <2>1, <2>2, <2>3
<1>6. ASSUME NEW v \in Workers, worker'[v].pc = "rollback", fs'.manifest = worker'[v].file
      PROVE  /\ Held(v) /\ worker'[v].file = worker[v].file
             /\ ~Current(worker[v].file)
  <2>1. CASE v # w
    <3>1. worker'[v] = worker[v] /\ Held(v)
      BY <1>6, <2>1 DEF Held
    <3>2. CASE fs.manifest = worker[v].file
      BY <1>6, <3>1, <3>2 DEF CommitStands
    <3>3. CASE fs.manifest # worker[v].file
      <4>1. Saves(w) /\ fs.manifest = NoFile
        BY <1>6, <3>1, <3>3
      <4>2. ~Alone(v)
        BY <2>1, <4>1 DEF Alone, Saves
      <4>3. ~SourceIs(v)
        BY <1>6, <3>1, <4>1, <4>2 DEF IInv, RollbackJustified
      <4>4. QED BY <1>6, <3>1, <4>3
    <3>4. QED BY <3>1, <3>2, <3>3
  <2>2. CASE v = w
    <3>1. /\ worker[w].pc = "failed" /\ ~Loads /\ fs.manifest = worker[w].file
          /\ worker'[w].file = worker[w].file
      BY <1>6, <2>2 DEF Acts, KindOf, Begins, Adopts, Moves, Turns, Quits, Leaves, Makes, Intends,
         Forgets, Joins, Undoes, Saves, Removes, Finishes, Bears, Drops, Same, Entry, Deleting,
         Ending
    <3>2. fs.target = worker[w].file /\ fs.manifest # NoFile /\ Held(w)
      BY <3>1 DEF TargetStands, Placed, Held
    <3>3. QED BY <2>2, <3>1, <3>2 DEF Loads, Current
  <2>3. QED BY <2>1, <2>2
<1>7. ASSUME NEW v \in Workers, worker'[v].pc = "rollback", fs'.manifest = worker'[v].file
      PROVE  ~Current(worker[v].file)'
  <2>1. Current(worker[v].file)' => Current(worker[v].file)
    <3> DEFINE f == worker[v].file
    <3>1. f \in Files /\ Named(f) /\ worker'[v].file = f
      BY <1>1, <1>6, <1>7
    <3>2. \A g \in Files : Named(g) /\ Current(g)' => Current(g)
      OBVIOUS
    <3>3. Current(worker[v].file)' <=> from'[f] # Unused /\ fs'.src[from'[f].src] = from'[f].ver
      BY <3>1 DEF Current
    <3>4. \A g : Current(g)' <=> from'[g] # Unused /\ fs'.src[from'[g].src] = from'[g].ver
      BY DEF Current
    <3>5. QED BY <3>1, <3>2, <3>3, <3>4
  <2>2. QED BY <1>6, <1>7, <2>1
<1>8. ASSUME NEW v \in Workers \ {w}, Held(v)', Current(worker[v].file)'
      PROVE  Held(v) /\ worker'[v] = worker[v] /\ Current(worker[v].file)
  <2> DEFINE f == worker[v].file
  <2>1. Held(v) /\ worker'[v] = worker[v]
    BY <1>8 DEF Held
  <2>2. f \in Files /\ Named(f)
    BY <1>1, <2>1
  <2>3. \A g : Current(g)' <=> from'[g] # Unused /\ fs'.src[from'[g].src] = from'[g].ver
    BY DEF Current
  <2>4. from'[f] # Unused /\ fs'.src[from'[f].src] = from'[f].ver
    BY <1>8, <2>1 DEF Current
  <2>5. QED BY <2>1, <2>2, <2>3, <2>4
<1>9. QED
  <2>1. ASSUME NEW v \in Workers, Held(v)', fs'.manifest = worker'[v].file,
               Current(worker[v].file)'
        PROVE  \/ fs'.target = worker'[v].file
               \/ worker'[v].pc = "validate" /\ fs'.intent = worker'[v].file
    BY <1>4, <1>5, <1>8, <2>1
  <2>2. QED BY <1>7, <2>1 DEF CommitStands

\* Nobody takes away what the intent finds, unless the intent goes with it.
LEMMA IntentFindsStep ==
  ASSUME TypeOK, IInv, RInv, NEW w \in Workers, Acts(w), IntentFinds
  PROVE  IntentFinds'
<1> USE Ranges, ActsFrame, Parts DEF RInv, Named
<1> DEFINE i == fs.intent
<1>1. CASE fs'.intent = NoFile
  BY <1>1 DEF IntentFinds
<1>2. CASE Intends(w)
  <2>1. worker[w].file \in fs.temps \/ fs.target = worker[w].file
    BY <1>2 DEF Intends, TempKept, Preparing
  <2>2. QED BY <1>2, <2>1 DEF Intends, Entry, IntentFinds
<1>3. CASE fs'.intent = i /\ i # NoFile
  <2>1. i \in Files /\ fs'.intent = i
    BY <1>3
  <2>2. ASSUME GoesBack(i)
        PROVE  \E u \in Workers : worker'[u].pc = "rolledback" /\ worker'[u].file = i
    <3>1. PICK u \in Workers : worker[u].pc = "rolledback" /\ worker[u].file = i
      BY <2>2 DEF GoesBack, HalfRolledBack
    <3>2. u # w
      <4>1. worker[w].pc = "rolledback" => Forgets(w)
        BY DEF Acts, KindOf, Begins, Adopts, Moves, Turns, Quits, Leaves, Makes, Intends, Joins,
               Undoes, Saves, Removes, Finishes
      <4>2. QED BY <1>3, <3>1, <4>1 DEF Forgets, Entry
    <3>3. QED BY <3>1, <3>2
  <2>3. CASE fs.target = Foreign
    <3>1. fs'.target = Foreign
      BY <2>3 DEF Joins, Undoes, Entry
    <3>2. QED BY <2>1, <3>1 DEF IntentFinds
  <2>4. CASE fs.target = i
    <3>1. CASE Undoes(w)
      <4>1. worker'[w].pc = "rolledback" /\ worker'[w].file = i
        BY <2>1, <2>4, <3>1 DEF Undoes, Bears
      <4>2. QED BY <2>1, <4>1 DEF IntentFinds, GoesBack, HalfRolledBack
    <3>2. CASE ~Undoes(w)
      <4>1. fs'.target = i
        BY <2>1, <2>4, <3>2 DEF Joins, Entry
      <4>2. QED BY <2>1, <4>1 DEF IntentFinds
    <3>3. QED BY <3>1, <3>2
  <2>5. CASE GoesBack(i)
    BY <2>1, <2>2, <2>5 DEF IntentFinds, GoesBack, HalfRolledBack
  <2>6. CASE i \in fs.temps
    <3>1. CASE Leaves(w) /\ worker[w].file = i
      <4>1. worker[w].pc \notin {"publish", "finish", "emit"}
        BY <1>3, <2>6, <3>1 DEF Leaves, OwnedOnce, TempKept
      <4>2. CASE worker[w].pc \in {"committed", "finished"}
        BY <2>1, <2>4, <3>1, <4>2 DEF TargetStands, Placed
      <4>3. CASE worker[w].pc \in {"save", "failed", "rollback"} /\ fs.target # i
        BY <2>5, <3>1, <4>3 DEF TargetStands, Placed
      <4>4. QED BY <3>1, <4>1, <4>2, <4>3 DEF Leaves
    <3>2. CASE Finishes(w) /\ worker[w].file = i
      <4>1. fs.target = i
        BY <2>1, <3>2 DEF Finishes, TargetStands, Placed
      <4>2. QED BY <2>4, <4>1
    <3>3. CASE ~(Leaves(w) /\ worker[w].file = i) /\ ~(Finishes(w) /\ worker[w].file = i)
      <4>1. i \in fs'.temps
        <5>1. CASE Leaves(w) \/ Finishes(w)
          BY <2>6, <3>3, <5>1 DEF Leaves, Finishes, Entry
        <5>2. CASE Forgets(w)
          <6>1. worker[w].file # i
            BY <1>3, <5>2 DEF Forgets, Entry
          <6>2. QED BY <2>6, <5>2, <6>1 DEF Forgets, Entry
        <5>3. CASE ~Leaves(w) /\ ~Finishes(w) /\ ~Forgets(w)
          <6>1. fs.temps \subseteq fs'.temps
            BY <5>3 DEF Acts, KindOf, Begins, Adopts, Moves, Turns, Quits, Makes, Intends, Joins,
                        Undoes, Saves, Removes, Same, Entry
          <6>2. QED BY <2>6, <6>1
        <5>4. QED BY <5>1, <5>2, <5>3
      <4>2. QED BY <2>1, <4>1 DEF IntentFinds
    <3>4. QED BY <3>1, <3>2, <3>3
  <2>7. QED BY <1>3, <2>3, <2>4, <2>5, <2>6 DEF IntentFinds
<1>4. QED BY <1>1, <1>2, <1>3

LEMMA PassedFindsStep ==
  ASSUME TypeOK, IInv, RInv, NEW w \in Workers, Acts(w)
  PROVE  PassedFinds'
<1> USE Ranges, ActsFrame, Parts, IntentFindsStep DEF RInv, Named
<1>1. ASSUME NEW v \in Workers, worker'[v].pc \notin {"idle", "recover"} \cup Ending
      PROVE  IntentFinds'
  <2>1. CASE worker[v].pc \notin {"idle", "recover"} \cup Ending
    BY <2>1 DEF PassedFinds
  <2>2. CASE worker[v].pc \in {"idle", "recover"} \cup Ending
    <3>1. v = w
      BY <1>1, <2>2
    <3>2. Adopts(w) \/ (Moves(w) /\ fs.intent = NoFile)
      BY <1>1, <2>2, <3>1 DEF Acts, KindOf, Begins, Adopts, Moves, Turns, Quits, Leaves, Makes,
         Intends, Forgets, Joins, Undoes, Saves, Removes, Finishes, Drops, OwnPlaces, Filed
    <3>3. IntentFinds
      BY <3>2 DEF Adopts, IntentFinds
    <3>4. QED BY <3>3
  <2>3. QED BY <2>1, <2>2
<1>2. QED BY <1>1 DEF PassedFinds

LEMMA RollbackAloneStep ==
  ASSUME TypeOK, IInv, RInv, NEW w \in Workers, Acts(w)
  PROVE  RollbackAlone'
<1> USE Ranges, ActsFrame, Parts, NamesKnown DEF RInv, Named
<1>1. ASSUME NEW v \in Workers, worker'[v].pc = "rolledback", ~Alone(v)',
             fs'.intent = worker'[v].file, fs'.manifest # NoFile,
             from'[fs'.manifest] = from'[worker'[v].file],
             fs'.src[from'[worker'[v].file].src] \in {Gone, from'[worker'[v].file].ver}
      PROVE  fs'.target # fs'.manifest
  <2> DEFINE i == worker[v].file
             m == fs.manifest
  <2>1. CASE v = w
    <3>1. Undoes(w)
      BY <1>1, <2>1 DEF Acts, KindOf, Begins, Adopts, Moves, Turns, Quits, Leaves, Makes, Intends,
         Forgets, Joins, Saves, Removes, Finishes, Bears, Drops, Deleting, Ending
    <3>2. QED BY <1>1, <3>1 DEF Undoes, Entry
  <2>2. CASE v # w
    <3>1. /\ worker[v].pc = "rolledback" /\ worker'[v] = worker[v] /\ Held(v)
          /\ i \in Files /\ Named(i) /\ from'[i] = from[i]
      BY <1>1, <2>2 DEF Held
    <3>2. ~Alone(v)
      <4>1. PICK o \in Workers \ {v} : worker'[o].pc # "idle"
        BY <1>1 DEF Alone
      <4>2. ~Begins(w)
        BY <3>1 DEF Begins
      <4>3. worker[o].pc # "idle"
        BY <4>1, <4>2 DEF Acts, KindOf, Begins, Adopts, Moves, Turns, Quits, Leaves, Makes, Intends,
           Forgets, Joins, Undoes, Saves, Removes, Finishes, OwnPlaces, Deleting, Ending
      <4>4. QED BY <4>1, <4>3 DEF Alone
    <3>3. fs.intent = i
      <4>1. ~(Intends(w) /\ worker[w].file = i)
        BY <2>2, <3>1 DEF Intends, OwnedOnce
      <4>2. QED BY <1>1, <3>1, <4>1 DEF Intends, Entry
    <3>4. m \notin {NoFile, i} \/ ~Current(i)
      BY <3>1, <3>2 DEF IInv, RollbackJustified
    <3>5. m # NoFile /\ fs'.manifest = m
      <4>1. CASE Saves(w) /\ m = NoFile
        <5>1. fs'.src = fs.src
          BY <4>1 DEF Saves, Entry
        <5>2. fs.src[from[i].src] = Gone /\ from[i].src \in Sources
          BY <1>1, <3>1, <3>4, <4>1, <5>1 DEF Current, VersionsGrow
        <5>3. QED BY <4>1, <5>2 DEF IInv, GoneSettled
      <4>2. QED BY <1>1, <4>1
    <3>6. from[m] = from[i] /\ m \in Files
      BY <1>1, <3>1, <3>5
    <3>7. fs.src[from[i].src] \in {Gone, from[i].ver}
      <4>1. CASE Removes(w)
        <5>1. m = worker[w].file /\ fs.src[worker[w].src] \in {Gone, worker[w].ver}
              /\ worker[w].pc \in Deleting
          BY <4>1 DEF Removes, IInv, DeletionProved
        <5>2. QED BY <3>6, <5>1
      <4>2. CASE fs'.src = fs.src
        BY <1>1, <3>1, <4>2
      <4>3. QED BY <4>1, <4>2
    <3>8. fs.target # m
      BY <3>1, <3>2, <3>3, <3>5, <3>6, <3>7 DEF RollbackAlone, HalfRolledBack
    <3>9. CASE Joins(w)
      <4>1. SUFFICES ASSUME worker[w].file = m PROVE FALSE
        BY <3>5, <3>9 DEF Joins, Entry
      <4>2. fs.src[from[i].src] # Gone /\ from[i].src \in Sources
        BY <3>1, <3>8 DEF IInv, GoneSettled, VersionsGrow
      <4>3. Current(m) /\ Current(i)
        BY <3>1, <3>6, <3>7, <4>2 DEF Current
      <4>4. Held(w)
        BY <3>9 DEF Joins, Held, Filed
      <4>5. fs.intent = m
        BY <3>8, <4>1, <4>3, <4>4 DEF CommitStands
      <4>6. QED BY <3>3, <3>4, <4>3, <4>5
    <3>10. CASE ~Joins(w)
      BY <3>5, <3>8, <3>10 DEF Undoes, Entry
    <3>11. QED BY <3>9, <3>10
  <2>3. QED BY <2>1, <2>2
<1>2. QED BY <1>1 DEF RollbackAlone, HalfRolledBack

LEMMA DeletedFindsStep ==
  ASSUME TypeOK, IInv, RInv, NEW w \in Workers, Acts(w)
  PROVE  DeletedFinds'
<1> USE Ranges, ActsFrame, Parts, NamesKnown DEF RInv, Named
<1> DEFINE i == fs.intent
           m == fs.manifest
           s == from[i].src
<1>1. SUFFICES ASSUME fs'.intent # NoFile, fs'.src[from'[fs'.intent].src] = Gone,
                      disk'.src[from'[fs'.intent].src] = from'[fs'.intent].ver
               PROVE  fs'.target = fs'.intent \/ fs'.intent \in fs'.temps
  BY DEF DeletedFinds
<1>2. ~Intends(w)
  <2>1. SUFFICES ASSUME Intends(w) PROVE FALSE
    OBVIOUS
  <2>2. /\ fs'.intent = worker[w].file /\ fs'.src = fs.src /\ worker[w].pc = "publish"
        /\ fs.src[worker[w].src] = worker[w].ver /\ from' = from
    BY <2>1 DEF Intends, Entry, SourceIs, InCache
  <2>3. worker[w].ver # Gone
    BY <2>2 DEF IInv, FilesKnown
  <2>4. QED BY <1>1, <2>2, <2>3
<1>3. /\ fs'.intent = i /\ i \in Files /\ Named(i) /\ from'[i] = from[i]
      /\ s \in Sources /\ from[i].ver # Gone
  BY <1>1, <1>2 DEF ProductsNamed, VersionsGrow
<1>4. fs'.src[s] = Gone /\ disk'.src[s] = from[i].ver
  BY <1>1, <1>3
<1>5. disk' = disk
  <2>1. CASE disk' = fs /\ (Moves(w) \/ Quits(w) \/ Finishes(w))
    BY <1>3, <1>4, <2>1 DEF Moves, Quits, Finishes, Same, Entry
  <2>2. QED BY <2>1
<1>6. ASSUME m # NoFile, from[m] = from[i], fs.target = m, fs.src[s] \in {Gone, from[i].ver},
             GoesBack(i), worker[w].pc \notin {"idle", "rolledback"}
      PROVE  FALSE
  <2>1. PICK v \in Workers : HalfRolledBack(v) /\ worker[v].file = i
    BY <1>6 DEF GoesBack
  <2>2. ~Alone(v)
    BY <1>6, <2>1 DEF HalfRolledBack, Alone
  <2>3. QED BY <1>6, <2>1, <2>2 DEF RollbackAlone
<1>7. CASE fs.src[s] # Gone
  <2>1. Removes(w) /\ s = worker[w].src
    BY <1>3, <1>4, <1>7 DEF Removes, Entry
  <2>2. /\ worker[w].pc = "delete" /\ fs.src[s] = worker[w].ver
        /\ m = worker[w].file /\ fs.target = m /\ m \in Files
        /\ fs'.target = fs.target /\ fs'.temps = fs.temps
    BY <1>7, <2>1 DEF Removes, Entry, IInv, DeletionProved
  <2>3. disk.src[s] = fs.src[s]
    BY <1>3, <1>7 DEF VersionsGrow
  <2>4. from[m].src = from[i].src /\ from[m].ver = from[i].ver
    BY <1>4, <1>5, <2>1, <2>2, <2>3
  <2>5. from[m] = from[i]
    BY <1>3, <2>2, <2>4 DEF Made
  <2>6. IntentFinds
    BY <2>2 DEF PassedFinds
  <2>7. CASE GoesBack(i)
    BY <1>4, <1>5, <1>6, <2>2, <2>3, <2>5, <2>7
  <2>8. QED BY <1>3, <2>2, <2>6, <2>7 DEF IntentFinds
<1>8. CASE fs.src[s] = Gone
  <2>1. m \in Files /\ from[m].src = s /\ fs.target = m
    BY <1>3, <1>8 DEF IInv, GoneSettled
  <2>2. from[m].ver = from[i].ver
    BY <1>3, <1>4, <1>5, <1>8 DEF VersionsGrow
  <2>3. from[m] = from[i]
    BY <1>3, <2>1, <2>2 DEF Made
  <2>4. fs.target = i \/ i \in fs.temps
    BY <1>3, <1>4, <1>5, <1>8 DEF DeletedFinds
  <2>5. CASE fs.target = i
    <3>1. ~Undoes(w)
      BY <1>3, <1>8, <2>1, <2>5 DEF Undoes, IInv, RollbackJustified
    <3>2. fs'.target = i
      BY <1>3, <2>5, <3>1 DEF Joins, Entry
    <3>3. QED BY <1>3, <3>2
  <2>6. CASE i \in fs.temps /\ fs.target # i
    <3>1. CASE Leaves(w) \/ Finishes(w)
      <4>1. SUFFICES ASSUME worker[w].file = i PROVE FALSE
        BY <1>3, <2>6, <3>1 DEF Leaves, Finishes, Entry
      <4>2. worker[w].pc \notin {"publish", "finish", "emit", "committed", "finished"}
        <5>1. worker[w].pc \notin {"committed", "finish", "finished"}
          <6>1. m # i
            BY <2>1, <2>6
          <6>2. QED BY <4>1, <6>1 DEF TargetStands
        <5>2. worker[w].pc # "publish"
          BY <4>1 DEF OwnedOnce
        <5>3. ~(worker[w].own /\ worker[w].pc = "emit")
          BY <2>6, <4>1 DEF TempKept
        <5>4. QED BY <3>1, <5>1, <5>2, <5>3 DEF Leaves, Finishes
      <4>3. worker[w].pc \in {"save", "failed", "rollback"}
        BY <3>1, <4>2 DEF Leaves, Finishes
      <4>4. GoesBack(i)
        BY <2>6, <4>1, <4>3 DEF TargetStands, Placed
      <4>5. QED BY <1>3, <1>6, <1>8, <2>1, <2>3, <4>3, <4>4
    <3>2. CASE Forgets(w)
      <4>1. worker[w].file # i
        BY <1>3, <3>2 DEF Forgets, Entry
      <4>2. QED BY <1>3, <2>6, <3>2, <4>1 DEF Forgets, Entry
    <3>3. CASE ~Leaves(w) /\ ~Finishes(w) /\ ~Forgets(w)
      <4>1. fs.temps \subseteq fs'.temps
        BY <3>3 DEF Acts, KindOf, Begins, Adopts, Moves, Turns, Quits, Makes, Intends, Joins,
                    Undoes, Saves, Removes, Same, Entry
      <4>2. QED BY <1>3, <2>6, <4>1
    <3>4. QED BY <3>1, <3>2, <3>3
  <2>7. QED BY <2>4, <2>5, <2>6
<1>9. QED BY <1>7, <1>8

LEMMA SyncedFirstStep ==
  ASSUME TypeOK, IInv, RInv, NEW w \in Workers, Acts(w)
  PROVE  SyncedFirst'
<1> USE Ranges, ActsFrame, Parts, NamesKnown DEF RInv, Named
<1> DEFINE i == disk.intent
           m == disk.manifest
<1>1. \A v \in Workers : Held(v) => worker[v].file \in Files /\ Named(worker[v].file)
  BY DEF ProductsNamed
<1>2. ASSUME Joins(w) PROVE Held(w) /\ worker[w].file \in Files
  BY <1>1, <1>2 DEF Joins, Held, Filed
<1>3. CASE disk' = fs /\ (Moves(w) \/ Quits(w) \/ Finishes(w))
  <2>1. /\ fs'.target = fs.target /\ fs'.intent = fs.intent /\ fs'.manifest = fs.manifest
        /\ fs'.temps \subseteq fs.temps
    BY <1>3 DEF Moves, Quits, Finishes, Same, Entry
  <2>2. ASSUME Current(disk.manifest)', NEW u \in Workers, Held(u)',
               worker'[u].file = fs'.manifest
        PROVE  fs'.manifest \in {fs'.target, fs'.intent}
    <3>1. Current(worker[u].file)'
      BY <1>3, <2>1, <2>2 DEF Current
    <3>2. CommitStands'
      BY CommitStandsStep
    <3>3. QED BY <2>2, <3>1, <3>2 DEF CommitStands
  <2>3. QED BY <1>3, <2>1, <2>2 DEF SyncedFirst
<1>4. CASE disk' = disk
  <2>1. ASSUME fs'.target = Foreign PROVE disk'.target = Foreign
    <3>1. fs.target = Foreign
      BY <1>2, <2>1 DEF Joins, Undoes, Entry
    <3>2. QED BY <1>4, <3>1 DEF SyncedFirst
  <2>2. ASSUME i # NoFile, i \in fs'.temps PROVE i \in disk.temps
    <3>1. i \in Files /\ Named(i)
      BY <2>2 DEF ProductsNamed
    <3>2. CASE Makes(w)
      BY <2>2, <3>1, <3>2 DEF Makes, Entry, SyncedFirst
    <3>3. CASE ~Makes(w)
      <4>1. fs'.temps \subseteq fs.temps
        BY <3>3 DEF Acts, KindOf, Begins, Adopts, Moves, Turns, Quits, Leaves, Intends, Forgets,
                    Joins, Undoes, Saves, Removes, Finishes, Same, Entry
      <4>2. QED BY <2>2, <4>1 DEF SyncedFirst
    <3>4. QED BY <3>2, <3>3
  <2>3. ASSUME i # NoFile, i = fs'.intent, fs'.target = i
        PROVE  disk.target = i \/ i \in disk.temps
    <3>1. fs.intent = i
      BY <2>3 DEF Intends, Entry, OwnedOnce
    <3>2. CASE fs.target = i
      BY <2>3, <3>1, <3>2 DEF SyncedFirst
    <3>3. CASE fs.target # i
      <4>1. Joins(w) /\ worker[w].file = i
        BY <2>3, <3>3 DEF Joins, Undoes, Entry
      <4>2. i \in fs.temps
        BY <3>3, <4>1 DEF Joins, TempKept, Preparing
      <4>3. QED BY <2>3, <4>2 DEF SyncedFirst
    <3>4. QED BY <3>2, <3>3
  <2>4. ASSUME m # NoFile, Current(disk.manifest)',
               \/ m \in {fs'.target, fs'.intent}
               \/ \E u \in Workers : Held(u)' /\ worker'[u].file = m
        PROVE  m \in {disk.target, disk.intent}
    <3>1. m \in Files /\ Named(m)
      BY <2>4
    <3>2. Current(m)
      <4>1. \A g : Current(g)' <=> from'[g] # Unused /\ fs'.src[from'[g].src] = from'[g].ver
        BY DEF Current
      <4>2. from'[m] # Unused /\ fs'.src[from'[m].src] = from'[m].ver
        BY <1>4, <2>4 DEF Current
      <4>3. QED BY <3>1, <4>1, <4>2
    <3>3. CASE m = fs'.target
      <4>1. m = fs.target \/ (Held(w) /\ worker[w].file = m)
        BY <1>2, <2>4, <3>3 DEF Joins, Undoes, Entry
      <4>2. QED BY <2>4, <3>2, <4>1 DEF SyncedFirst
    <3>4. CASE m = fs'.intent
      <4>1. m = fs.intent \/ (Held(w) /\ worker[w].file = m)
        BY <2>4, <3>4 DEF Intends, Entry, Held, Filed
      <4>2. QED BY <2>4, <3>2, <4>1 DEF SyncedFirst
    <3>5. ASSUME NEW u \in Workers, Held(u)', worker'[u].file = m
          PROVE  m \in {disk.target, disk.intent}
      <4>1. m = fs.intent \/ (Held(u) /\ worker[u].file = m)
        <5>1. CASE u = w
          <6>1. Held(w)'
            BY <3>5, <5>1 DEF Held
          <6>2. worker'[w].file = m
            BY <3>5, <5>1
          <6>3. CASE Held(w) /\ worker'[w].file = worker[w].file
            BY <5>1, <6>2, <6>3
          <6>4. CASE Adopts(w)
            BY <6>2, <6>4 DEF Adopts
          <6>5. CASE Makes(w)
            BY <3>1, <6>2, <6>5 DEF Makes
          <6>6. QED BY <6>1, <6>3, <6>4, <6>5
        <5>2. CASE u # w
          BY <3>5, <5>2 DEF Held
        <5>3. QED BY <5>1, <5>2
      <4>2. QED BY <2>4, <3>2, <4>1 DEF SyncedFirst
    <3>6. QED BY <2>4, <3>3, <3>4, <3>5
  <2>5. QED BY <1>4, <2>1, <2>2, <2>3, <2>4 DEF SyncedFirst
<1>5. QED BY <1>3, <1>4

-----------------------------------------------------------------------------
(* What happens around the workers. *)

\* A source that is rewritten has no product of its new version yet.
LEMMA SourceChangesFrame ==
  ASSUME ~FaultsWhenShared, TypeOK, IInv, RInv, NEW s \in Sources, SourceChanges(s)
  PROVE  /\ UNCHANGED <<from, worker>>
         /\ Entry([fs.src EXCEPT ![s] = 2], fs.target, fs.temps, fs.intent, fs.manifest)
         /\ fs.src[s] = 1 /\ disk.src[s] = 1 /\ disk'.src = [disk.src EXCEPT ![s] = 2]
         /\ disk'.target = disk.target /\ disk'.temps = disk.temps
         /\ disk'.intent = disk.intent /\ disk'.manifest = disk.manifest
         /\ \A f \in Files : Named(f) /\ Current(f)' => Current(f)
         /\ \A v, w \in Workers : worker[v].pc # "idle" /\ worker[w].pc # "idle" => v = w
<1> USE Ranges DEF Named
<1>1. /\ UNCHANGED <<from, worker>> /\ fs.src[s] = 1
      /\ Entry([fs.src EXCEPT ![s] = 2], fs.target, fs.temps, fs.intent, fs.manifest)
      /\ disk'.src = [disk.src EXCEPT ![s] = 2]
      /\ disk'.target = disk.target /\ disk'.temps = disk.temps
      /\ disk'.intent = disk.intent /\ disk'.manifest = disk.manifest
  BY DEF SourceChanges, TypeOK, Entries, Entry
<1>2. disk.src[s] = 1
  BY <1>1 DEF RInv, VersionsGrow
<1>3. ASSUME NEW f \in Files, Named(f), Current(f)' PROVE Current(f)
  <2>1. /\ from'[f] = from[f] /\ from[f].src \in Sources
        /\ from[f].ver <= fs.src[from[f].src] \/ fs.src[from[f].src] = Gone
    BY <1>1, <1>3 DEF RInv, VersionsGrow
  <2>2. fs'.src[from[f].src] = from[f].ver
    BY <1>3, <2>1 DEF Current
  <2>3. from[f].src # s
    BY <1>1, <2>1, <2>2 DEF Entry
  <2>4. QED BY <1>1, <1>3, <2>1, <2>2, <2>3 DEF Current, Entry
<1>4. PICK only \in Workers : Alone(only)
  BY DEF SourceChanges
<1>5. QED BY <1>1, <1>2, <1>3, <1>4 DEF Alone

LEMMA SourceChangesKeeps ==
  ASSUME ~FaultsWhenShared, TypeOK, IInv, RInv, NEW s \in Sources, SourceChanges(s)
  PROVE  RInv'
<1> USE Ranges, NamesKnown DEF RInv, Named
<1>0. /\ worker' = worker /\ from' = from
      /\ \A f \in Files : Named(f) /\ Current(f)' => Current(f)
      /\ \A v, w \in Workers : worker[v].pc # "idle" /\ worker[w].pc # "idle" => v = w
  BY SourceChangesFrame
<1>1. /\ worker' = worker /\ from' = from
      /\ fs'.target = fs.target /\ fs'.temps = fs.temps /\ fs'.intent = fs.intent
      /\ fs'.manifest = fs.manifest /\ fs'.src = [fs.src EXCEPT ![s] = 2]
      /\ fs.src[s] = 1 /\ disk.src[s] = 1 /\ disk'.src = [disk.src EXCEPT ![s] = 2]
      /\ disk'.target = disk.target /\ disk'.temps = disk.temps
      /\ disk'.intent = disk.intent /\ disk'.manifest = disk.manifest
  BY SourceChangesFrame DEF Entry
<1>2. \A g : Current(g)' <=> from'[g] # Unused /\ fs'.src[from'[g].src] = from'[g].ver
  BY DEF Current
<1>3. OwnPlaces' /\ OwnedOnce' /\ TempKept' /\ ProductsNamed'
  BY <1>1 DEF OwnPlaces, OwnedOnce, TempKept, ProductsNamed, Held
<1>4. TargetStands' /\ PassedFinds'
  BY <1>1 DEF TargetStands, PassedFinds, IntentFinds, GoesBack, HalfRolledBack
<1>5. VersionsGrow'
  <2>1. ASSUME NEW f \in Files, Named(f)
        PROVE  /\ from[f].src \in Sources /\ from[f].ver # Gone
               /\ fs'.src[from[f].src] = Gone \/ from[f].ver <= fs'.src[from[f].src]
               /\ disk'.src[from[f].src] = Gone \/ from[f].ver <= disk'.src[from[f].src]
    <3>1. /\ from[f].src \in Sources /\ from[f].ver # Gone
          /\ fs.src[from[f].src] = Gone \/ from[f].ver <= fs.src[from[f].src]
          /\ disk.src[from[f].src] = Gone \/ from[f].ver <= disk.src[from[f].src]
      BY <2>1 DEF VersionsGrow
    <3>2. CASE from[f].src = s
      <4>1. from[f].ver <= 1
        BY <1>1, <3>1, <3>2
      <4>2. fs'.src[s] = 2 /\ disk'.src[s] = 2 /\ from[f].ver \in {0, 1, 2}
        BY <1>1, <2>1, <3>1 DEF TypeOK, Entries, Versions
      <4>3. QED BY <3>1, <3>2, <4>1, <4>2
    <3>3. CASE from[f].src # s
      BY <1>1, <3>1, <3>3
    <3>4. QED BY <3>2, <3>3
  <2>2. ASSUME NEW x \in Sources
        PROVE  IF fs'.src[x] = Gone
               THEN disk'.src[x] # Gone => disk'.src[x] = from[fs.manifest].ver
               ELSE disk'.src[x] = fs'.src[x]
    <3>1. CASE x = s
      BY <1>1, <3>1 DEF TypeOK, Entries
    <3>2. CASE x # s
      BY <1>1, <3>2 DEF VersionsGrow
    <3>3. QED BY <3>1, <3>2
  <2>3. QED BY <1>1, <2>1, <2>2 DEF VersionsGrow
<1>6. CommitStands'
  <2>1. ASSUME NEW v \in Workers, Held(v), Current(worker[v].file)'
        PROVE  Current(worker[v].file)
    <3>1. worker[v].file \in Files /\ Named(worker[v].file) /\ worker'[v].file = worker[v].file
      BY <1>1, <2>1 DEF ProductsNamed
    <3>2. from'[worker[v].file] # Unused
          /\ fs'.src[from'[worker[v].file].src] = from'[worker[v].file].ver
      BY <2>1, <3>1 DEF Current
    <3>3. QED BY <1>0, <1>2, <3>1, <3>2
  <2>2. \A v \in Workers : worker[v].pc = "rollback" => Held(v)
    BY DEF Held, Filed
  <2>3. QED BY <1>1, <2>1, <2>2 DEF CommitStands, Held
<1>7. RollbackAlone'
  BY <1>0 DEF RollbackAlone, HalfRolledBack, Alone
<1>8. DeletedFinds'
  <2>1. fs.intent # NoFile => fs.intent \in Files /\ from[fs.intent].src \in Sources
    BY DEF ProductsNamed, VersionsGrow
  <2>2. \A x \in Sources : fs'.src[x] = Gone => fs.src[x] = Gone /\ x # s
    BY <1>1
  <2>3. QED BY <1>1, <2>1, <2>2 DEF DeletedFinds
<1>9. SyncedFirst'
  <2> DEFINE m == disk.manifest
  <2>1. m # NoFile /\ Current(disk.manifest)' => Current(m)
    <3>1. Current(disk.manifest)' =>
            from'[m] # Unused /\ fs'.src[from'[m].src] = from'[m].ver
      BY <1>1 DEF Current
    <3>2. QED BY <1>0, <1>2, <3>1
  <2>2. QED BY <1>1, <2>1 DEF SyncedFirst, Held
<1>10. QED BY <1>3, <1>4, <1>5, <1>6, <1>7, <1>8, <1>9

LEMMA DiesKeeps ==
  ASSUME TypeOK, IInv, RInv, Crash \/ PowerLoss
  PROVE  RInv'
<1> USE Ranges, NamesKnown DEF RInv, Named
<1>1. \A w \in Workers : /\ worker'[w].pc = "idle" /\ worker'[w].own = FALSE
                         /\ worker'[w].file = NoFile
  BY DEF Crash, PowerLoss, Dies, Resting
<1>2. from' = from
  BY DEF Crash, PowerLoss, Dies
<1>3. /\ fs'.intent \in {fs.intent, disk.intent} /\ disk'.intent \in {fs.intent, disk.intent}
      /\ fs'.manifest \in {fs.manifest, disk.manifest}
      /\ \A s \in Sources : /\ fs'.src[s] \in {fs.src[s], disk.src[s]}
                            /\ disk'.src[s] \in {fs.src[s], disk.src[s]}
  BY DEF Crash, PowerLoss
<1>4. \A w \in Workers : ~Held(w)'
  BY <1>1, Parts DEF Held
<1>5. OwnPlaces' /\ OwnedOnce' /\ TempKept' /\ TargetStands' /\ CommitStands' /\ PassedFinds'
      /\ RollbackAlone'
  BY <1>1, <1>4 DEF OwnPlaces, OwnedOnce, TempKept, TargetStands, CommitStands, PassedFinds,
                    RollbackAlone, HalfRolledBack, Preparing, Placed
<1>6. ProductsNamed'
  BY <1>2, <1>3, <1>4 DEF ProductsNamed
<1>7. CASE Crash
  <2>1. UNCHANGED <<fs, disk, from>>
    BY <1>7 DEF Crash, Dies
  <2>2. VersionsGrow' /\ DeletedFinds'
    BY <2>1 DEF VersionsGrow, DeletedFinds
  <2>3. Current(disk.manifest)' => Current(disk.manifest)
    BY <2>1 DEF Current
  <2>4. SyncedFirst'
    BY <1>4, <2>1, <2>3 DEF SyncedFirst
  <2>5. QED BY <1>5, <1>6, <2>2, <2>4
<1>8. CASE PowerLoss
  <2>1. disk' = fs'
    BY <1>8 DEF PowerLoss
  <2>2. \A f \in Files : Named(f) => from[f].src \in Sources /\ from[f].ver # Gone
    BY DEF VersionsGrow
  <2>3. VersionsGrow'
    BY <1>2, <1>3, <2>1, <2>2 DEF VersionsGrow
  <2>4. DeletedFinds'
    BY <1>2, <1>3, <2>1, <2>2 DEF DeletedFinds, ProductsNamed
  <2>5. SyncedFirst'
    BY <1>4, <2>1 DEF SyncedFirst
  <2>6. QED BY <1>5, <1>6, <2>3, <2>4, <2>5
<1>9. QED BY <1>7, <1>8

LEMMA RInvCorrect ==
  ASSUME ~FaultsWhenShared
  PROVE  Spec => []RInv
<1>1. Init => RInv
  <2> SUFFICES ASSUME Init PROVE RInv
    OBVIOUS
  <2>1. /\ disk = fs /\ fs.manifest = NoFile /\ fs.intent = NoFile
        /\ \A s \in Sources : fs.src[s] = 1
        /\ \A f \in Files : ~Named(f)
        /\ \A w \in Workers : worker[w].pc = "idle" /\ ~worker[w].own
    BY DEF Init, Resting, Named
  <2>2. \A w \in Workers : ~Held(w)
    BY <2>1, Parts DEF Held
  <2>3. OwnPlaces /\ ProductsNamed /\ VersionsGrow /\ OwnedOnce /\ TempKept
    BY <2>1, <2>2 DEF OwnPlaces, ProductsNamed, VersionsGrow, OwnedOnce, TempKept, Preparing, Gone
  <2>4. TargetStands /\ CommitStands /\ PassedFinds
    BY <2>1, <2>2 DEF TargetStands, CommitStands, PassedFinds, Placed
  <2>5. RollbackAlone /\ DeletedFinds /\ SyncedFirst
    BY <2>1, <2>2 DEF RollbackAlone, DeletedFinds, SyncedFirst, HalfRolledBack
  <2>6. QED BY <2>3, <2>4, <2>5 DEF RInv
<1>2. TypeOK /\ IInv /\ RInv /\ [Next]_vars => RInv'
  <2> SUFFICES ASSUME TypeOK, IInv, RInv, [Next]_vars PROVE RInv'
    OBVIOUS
  <2>1. ASSUME NEW w \in Workers, Execute(w) PROVE RInv'
    <3>1. Acts(w)
      BY <2>1, ActsCorrect DEF RInv
    <3>2. OwnPlaces' /\ ProductsNamed' /\ VersionsGrow' /\ OwnedOnce' /\ TempKept'
      BY <3>1, OwnPlacesStep, ProductsNamedStep, VersionsGrowStep, OwnedOnceStep, TempKeptStep
      DEF RInv
    <3>3. TargetStands' /\ CommitStands' /\ PassedFinds'
      BY <3>1, TargetStandsStep, CommitStandsStep, PassedFindsStep
    <3>4. RollbackAlone' /\ DeletedFinds' /\ SyncedFirst'
      BY <3>1, RollbackAloneStep, DeletedFindsStep, SyncedFirstStep
    <3>5. QED BY <3>2, <3>3, <3>4 DEF RInv
  <2>2. CASE UNCHANGED vars
    <3>1. UNCHANGED <<fs, disk, from, worker>>
      BY <2>2 DEF vars
    <3>2. OwnPlaces' /\ ProductsNamed' /\ VersionsGrow' /\ OwnedOnce' /\ TempKept'
      BY <3>1 DEF RInv, OwnPlaces, ProductsNamed, VersionsGrow, OwnedOnce, TempKept, Held, Named
    <3>3. TargetStands' /\ CommitStands' /\ PassedFinds'
      BY <3>1 DEF RInv, TargetStands, CommitStands, PassedFinds, IntentFinds, GoesBack,
                  HalfRolledBack, Held, Current
    <3>4. RollbackAlone' /\ DeletedFinds' /\ SyncedFirst'
      BY <3>1 DEF RInv, RollbackAlone, DeletedFinds, SyncedFirst, HalfRolledBack, Alone, Held,
                  Current
    <3>5. QED BY <3>2, <3>3, <3>4 DEF RInv
  <2>3. QED BY <2>1, <2>2, SourceChangesKeeps, DiesKeeps DEF Next
<1>3. QED BY <1>1, <1>2, TypeCorrect, IInvCorrect, PTL DEF Spec

-----------------------------------------------------------------------------
(* From the invariant to the property. *)

\* No step of a worker leaves less than was there.
LEMMA ActsRecoverable ==
  ASSUME TypeOK, IInv, RInv, NEW w \in Workers, Acts(w), Recoverable
  PROVE  Recoverable'
<1> USE Ranges, ActsFrame, Parts, NamesKnown DEF RInv, Named
<1>1. SUFFICES ASSUME NEW f \in Files, Current(f)'
               PROVE  /\ fs'.manifest = f => fs'.target = f \/ (fs'.intent = f /\ f \in fs'.temps)
                      /\ fs'.intent = f => IntentFinds'
  BY DEF Recoverable, IntentFinds, GoesBack
<1>2. CASE ~Named(f)
  <2>1. Makes(w)
    BY <1>1, <1>2 DEF Current
  <2>2. fs'.manifest # f /\ fs'.intent # f
    BY <1>2, <2>1 DEF Makes, Entry, ProductsNamed
  <2>3. QED BY <2>2
<1>3. CASE Named(f)
  <2>1. Current(f)
    BY <1>1, <1>3
  <2>2. CASE Saves(w) /\ worker[w].file = f
    <3>1. fs.target = f /\ fs'.target = f
      BY <2>2 DEF Saves, Entry, TargetStands, Placed
    <3>2. QED
      <4>1. fs'.intent = f => IntentFinds'
        BY <3>1 DEF IntentFinds
      <4>2. QED BY <3>1, <4>1
  <2>3. ASSUME fs'.manifest = f, ~(Saves(w) /\ worker[w].file = f)
        PROVE  fs'.target = f \/ (fs'.intent = f /\ f \in fs'.temps)
    <3>1. fs.manifest = f
      BY <2>3 DEF Saves, Entry
    <3>2. CASE fs.target = f
      BY <2>1, <3>1, <3>2, CommittedStays
    <3>3. CASE fs.target # f
      <4>1. fs.intent = f /\ f \in fs.temps
        BY <2>1, <3>1, <3>3 DEF Recoverable
      <4>2. ~(Held(w) /\ worker[w].pc # "validate" /\ worker[w].file = f)
        BY <2>1, <3>1, <3>3 DEF CommitStands
      <4>3. CASE Leaves(w) \/ Finishes(w)
        <5>1. worker[w].file # f
          BY <4>2, <4>3 DEF Leaves, Finishes, Held, Filed, OwnPlaces
        <5>2. fs'.intent = f /\ f \in fs'.temps
          BY <4>1, <4>3, <5>1 DEF Leaves, Finishes, Entry
        <5>3. QED BY <5>2
      <4>4. CASE Forgets(w)
        <5>1. worker[w].file # f
          BY <4>2, <4>4 DEF Forgets, Held, Filed
        <5>2. fs'.intent = f /\ f \in fs'.temps
          BY <4>1, <4>4, <5>1 DEF Forgets, Entry
        <5>3. QED BY <5>2
      <4>5. CASE ~Leaves(w) /\ ~Finishes(w) /\ ~Forgets(w)
        <5>1. fs.temps \subseteq fs'.temps
          BY <4>5 DEF Acts, KindOf, Begins, Adopts, Moves, Turns, Quits, Makes, Intends, Joins,
                      Undoes, Saves, Removes, Same, Entry
        <5>2. fs'.intent = f
          BY <4>1, <4>5 DEF Intends
        <5>3. QED BY <4>1, <5>1, <5>2
      <4>6. QED BY <4>3, <4>4, <4>5
    <3>4. QED BY <3>2, <3>3
  <2>4. ASSUME fs'.intent = f PROVE IntentFinds'
    <3>1. fs.intent \in {NoFile, f}
      BY <2>4 DEF Intends
    <3>2. IntentFinds
      BY <2>1, <3>1 DEF Recoverable, IntentFinds, GoesBack
    <3>3. QED BY <3>2, IntentFindsStep
  <2>5. QED BY <2>2, <2>3, <2>4
<1>4. QED BY <1>2, <1>3

\* What a loss of power leaves is recoverable, but for what StaysRecoverable exempts.
LEMMA PowerLossRecoverable ==
  ASSUME TypeOK, IInv, RInv, PowerLoss, Recoverable, disk.intent = fs.intent,
         fs.intent \notin disk.temps \ fs.temps, fs.manifest \in {disk.manifest, fs.intent},
         ~\E w \in Workers : HalfRolledBack(w)
  PROVE  Recoverable'
<1> USE Ranges, NamesKnown DEF RInv, Named
<1> DEFINE i == fs.intent
<1>1. /\ from' = from /\ fs'.intent = i
      /\ fs'.manifest \in {fs.manifest, disk.manifest} /\ fs'.target \in {fs.target, disk.target}
      /\ \A s \in Sources : fs'.src[s] \in {fs.src[s], disk.src[s]}
      /\ fs.temps \cap disk.temps \subseteq fs'.temps
  BY DEF PowerLoss, Dies
<1>2. SUFFICES ASSUME NEW f \in Files, Current(f)'
               PROVE  /\ fs'.manifest = f => fs'.target = f \/ (fs'.intent = f /\ f \in fs'.temps)
                      /\ fs'.intent = f => fs'.target \in {Foreign, f} \/ f \in fs'.temps
  BY DEF Recoverable
<1> DEFINE s == from[f].src
<1>3. /\ Named(f) /\ s \in Sources /\ from[f].ver # Gone /\ fs'.src[s] = from[f].ver
  BY <1>1, <1>2 DEF Current, VersionsGrow
<1>4. Current(f) \/ (fs.src[s] = Gone /\ disk.src[s] = from[f].ver)
  BY <1>1, <1>3 DEF VersionsGrow, Current
<1>5. i = f /\ f \in fs.temps => f \in fs'.temps
  BY <1>1 DEF SyncedFirst
<1>6. i = f /\ fs.target = f => fs'.target = f \/ f \in fs'.temps
  BY <1>1 DEF SyncedFirst
<1>7. ASSUME fs'.manifest = f
      PROVE  fs'.target = f \/ (fs'.intent = f /\ f \in fs'.temps)
  <2>1. fs.manifest = f
    BY <1>1, <1>7
  <2>2. CASE fs.src[s] = Gone
    BY <1>1, <1>3, <2>1, <2>2 DEF IInv, GoneSettled
  <2>3. CASE Current(f) /\ i # f
    <3>1. fs.target = f /\ disk.manifest = f
      BY <2>1, <2>3 DEF Recoverable
    <3>2. disk.target = f
      BY <2>3, <3>1 DEF SyncedFirst
    <3>3. QED BY <1>1, <3>1, <3>2
  <2>4. CASE Current(f) /\ i = f
    BY <1>1, <1>5, <1>6, <2>1, <2>4 DEF Recoverable
  <2>5. QED BY <1>4, <2>2, <2>3, <2>4
<1>8. ASSUME i = f PROVE fs'.target \in {Foreign, f} \/ f \in fs'.temps
  <2>1. fs.target \in {Foreign, f} \/ f \in fs.temps
    BY <1>3, <1>4, <1>8 DEF Recoverable, DeletedFinds
  <2>2. fs.target = Foreign => fs'.target = Foreign
    BY <1>1 DEF SyncedFirst
  <2>3. QED BY <1>5, <1>6, <1>8, <2>1, <2>2
<1>9. QED BY <1>1, <1>7, <1>8

\* Whatever workers leave behind stays recoverable, by any number of errors, crashes and
\* losses of power, unless one comes where StaysRecoverable says.
THEOREM StaysRecoverableCorrect ==
  ASSUME ~FaultsWhenShared
  PROVE  Spec => StaysRecoverable
<1> DEFINE Exempt ==
      /\ crashes' > crashes
      /\ \/ disk.intent # fs.intent \/ fs.intent \in disk.temps \ fs.temps
         \/ fs.manifest \notin {disk.manifest, fs.intent}
         \/ \E w \in Workers : HalfRolledBack(w)
<1>1. ASSUME TypeOK, IInv, RInv, Next, Recoverable PROVE Recoverable' \/ Exempt
  <2>1. ASSUME NEW w \in Workers, Execute(w) PROVE Recoverable'
    <3>1. Acts(w)
      BY <1>1, <2>1, ActsCorrect DEF RInv
    <3>2. QED BY <1>1, <3>1, ActsRecoverable
  <2>2. ASSUME NEW s \in Sources, SourceChanges(s) PROVE Recoverable'
    <3>1. /\ worker' = worker /\ from' = from /\ fs'.target = fs.target /\ fs'.temps = fs.temps
          /\ fs'.intent = fs.intent /\ fs'.manifest = fs.manifest
          /\ \A f \in Files : Named(f) /\ Current(f)' => Current(f)
      BY <1>1, <2>2, SourceChangesFrame DEF Entry
    <3>2. \A f \in Files : Current(f)' => Current(f)
      BY <3>1 DEF Current, Named
    <3>3. QED BY <1>1, <3>1, <3>2 DEF Recoverable, HalfRolledBack
  <2>3. ASSUME Crash \/ PowerLoss PROVE Recoverable' \/ Exempt
    <3>1. crashes' > crashes
      BY <1>1, <2>3, PublicationAssumption DEF Crash, PowerLoss, Dies, TypeOK
    <3>2. SUFFICES ASSUME ~Exempt PROVE Recoverable'
      OBVIOUS
    <3>3. /\ disk.intent = fs.intent /\ fs.intent \notin disk.temps \ fs.temps
          /\ fs.manifest \in {disk.manifest, fs.intent}
          /\ ~\E w \in Workers : HalfRolledBack(w)
      BY <3>1, <3>2
    <3>4. CASE Crash
      <4>1. fs' = fs /\ from' = from
        BY <3>4 DEF Crash, Dies
      <4>2. QED BY <1>1, <3>3, <4>1 DEF Recoverable, Current
    <3>5. CASE PowerLoss
      BY <1>1, <3>3, <3>5, PowerLossRecoverable
    <3>6. QED BY <2>3, <3>4, <3>5
  <2>4. QED BY <1>1, <2>1, <2>2, <2>3 DEF Next
<1>2. TypeOK /\ IInv /\ RInv /\ [Next]_vars => [Recoverable => Recoverable' \/ Exempt]_vars
  BY <1>1
<1>3. QED
  BY <1>2, TypeCorrect, IInvCorrect, RInvCorrect, PTL DEF Spec, StaysRecoverable
==============================================================================
