---------------------- MODULE PlaybackPublication_proof ----------------------
(***************************************************************************)
(* Theorems about PlaybackPublication, for any sources, workers, number of *)
(* conversions and of crashes.                                             *)
(***************************************************************************)
EXTENDS PlaybackPublication, TLAPS

-----------------------------------------------------------------------------
(* Types. *)

Places == {"idle", "recover", "validate", "check", "convert", "publish", "intended",
           "link", "save", "commit", "failed", "rollback", "rolledback", "committed",
           "finish", "finished", "emit", "deleting", "recheck", "delete", "deleted",
           "forget", "over"}
Work   == [pc : Places, src : Sources \cup {None}, ver : {Gone} \cup Versions, del : BOOLEAN,
           file : {NoFile} \cup Files, own : BOOLEAN, missing : BOOLEAN]
Made   == [src : Sources \cup {None}, ver : {Gone} \cup Versions]

LEMMA Numbers ==
  /\ Files \subseteq Nat \ {0} /\ NoFile \notin Files /\ Foreign \notin Files \cup {NoFile}
  /\ Resting \in Work
BY PublicationAssumption
DEF Files, NoFile, Foreign, Resting, Work, Places, Gone, Versions

LEMMA EntriesType ==
  ASSUME NEW d \in Entries
  PROVE  /\ \A f \in {NoFile} \cup Files :
              /\ [d EXCEPT !.target = f] \in Entries
              /\ [d EXCEPT !.intent = f] \in Entries
              /\ [d EXCEPT !.manifest = f] \in Entries
              /\ [d EXCEPT !.deletion = f] \in Entries
         /\ \A v \in {Gone} \cup Versions : \A s : [d EXCEPT !.src[s] = v] \in Entries
         /\ \A f : [d EXCEPT !.temps = @ \ {f}] \in Entries
         /\ \A f \in Files : [d EXCEPT !.temps = @ \cup {f}] \in Entries
BY DEF Entries

\* What an error leaves: a worker at rest, and entries of the same kind.
LEMMA EndsType ==
  ASSUME TypeOK, NEW w \in Workers, NEW d \in Entries, Aborts(w, d)
  PROVE  TypeOK'
<1>1. fs' \in Entries
  BY EntriesType DEF Aborts, Directory, WithoutTemp
<1>2. worker' \in [Workers -> Work]
  BY Numbers DEF Aborts, TypeOK, Work, Places
<1>3. QED
  BY <1>1, <1>2 DEF Aborts, Directory, TypeOK, Work, Places

\* A worker goes on to another step.
LEMMA GoesType ==
  ASSUME TypeOK, NEW w \in Workers, NEW pc \in Places, Goes(w, pc)
  PROVE  worker' \in [Workers -> Work]
BY DEF Goes, TypeOK, Work, Places

\* The type of every step of a worker.
LEMMA ExecuteType ==
  ASSUME TypeOK, NEW w \in Workers, Execute(w)
  PROVE  TypeOK'
<1> USE Numbers, EntriesType
<1>0. fs \in Entries /\ disk \in Entries /\ worker[w] \in Work /\ worker \in [Workers -> Work]
  BY DEF TypeOK, Work, Places
<1>1. ASSUME NEW d \in Entries, Aborts(w, d) PROVE TypeOK'
  BY <1>1, EndsType
<1>2. WithoutIntent(worker[w].file) \in Entries
  <2> DEFINE left == IF fs.intent = worker[w].file THEN NoFile ELSE fs.intent
  <2>1. left \in {NoFile} \cup Files
    BY <1>0 DEF Entries
  <2>2. [fs EXCEPT !.intent = left] \in Entries
    BY <1>0, <2>1
  <2>3. QED BY <2>2 DEF WithoutIntent
<1>3. ASSUME Error(w) PROVE TypeOK'
  BY <1>0, <1>1, <1>3 DEF Error
<1>4. ASSUME worker' \in [Workers -> Work], Reads \/ Syncs PROVE TypeOK'
  BY <1>0, <1>4 DEF Reads, Syncs, TypeOK, Work, Places
<1>5. ASSUME worker' \in [Workers -> Work], NEW d \in Entries, Directory(d) PROVE TypeOK'
  <2>1. fs' \in Entries /\ UNCHANGED <<disk, from, crashes>>
    BY <1>5 DEF Directory
  <2>2. QED BY <1>5, <2>1 DEF TypeOK, Work, Places
<1>6. ASSUME NEW pc \in Places, Goes(w, pc) PROVE worker' \in [Workers -> Work]
  BY <1>6, GoesType
<1>7. ASSUME NEW s \in Sources, NEW del \in BOOLEAN, Start(w, s, del) PROVE TypeOK'
  <2>1. fs.src[s] \in {Gone} \cup Versions /\ fs.manifest \in {NoFile} \cup Files
    BY <1>0 DEF Entries
  <2>2. {"recover", "deleted"} \subseteq Places
    BY DEF Places
  <2>3. /\ [Resting EXCEPT !.pc = "recover", !.src = s, !.ver = fs.src[s], !.del = del] \in Work
        /\ [Resting EXCEPT !.pc = "deleted", !.src = s, !.del = del, !.file = fs.manifest] \in Work
    BY <2>1, <2>2 DEF Work
  <2>4. PICK rec \in Work : worker' = [worker EXCEPT ![w] = rec]
    BY <1>7, <2>3 DEF Start
  <2>5. worker' \in [Workers -> Work]
    BY <1>0, <2>4
  <2>6. QED BY <1>4, <1>7, <2>5 DEF Start
<1>8. CASE ReadIntent(w)
  <2>1. fs.intent \in {NoFile} \cup Files
    BY <1>0 DEF Entries
  <2>2. CASE Error(w)
    BY <1>3, <2>2
  <2>3. CASE ~Error(w)
    <3>1. Reads /\ \/ Goes(w, "check")
                   \/ worker' = [worker EXCEPT ![w].pc = "validate", ![w].file = fs.intent,
                                               ![w].missing = (fs.target = NoFile)]
      BY <1>8, <2>3 DEF ReadIntent
    <3>2. "check" \in Places /\ "validate" \in Places /\ (fs.target = NoFile) \in BOOLEAN
      BY DEF Places
    <3>3. worker' \in [Workers -> Work]
      <4>1. CASE Goes(w, "check")
        BY <1>6, <3>2, <4>1
      <4>2. CASE ~Goes(w, "check")
        <5> DEFINE m == fs.target = NoFile
        <5>1. m \in BOOLEAN
          BY <3>2
        <5>2. worker' = [worker EXCEPT ![w].pc = "validate", ![w].file = fs.intent,
                                      ![w].missing = m]
          BY <3>1, <4>2
        <5> HIDE DEF m
        <5>3. QED BY <1>0, <2>1, <3>2, <5>1, <5>2 DEF Work
      <4>3. QED BY <4>1, <4>2
    <3>4. QED BY <1>4, <3>1, <3>3
  <2>4. QED BY <2>2, <2>3
<1>9. CASE Validate(w) \/ LinkTarget(w)
  <2>1. worker[w].file \in {NoFile} \cup Files
    BY <1>0 DEF Work
  <2>2. [fs EXCEPT !.target = worker[w].file] \in Entries
    BY <1>0, <2>1
  <2>3. "save" \in Places
    BY DEF Places
  <2>4. CASE Goes(w, "save") /\ Reads
    BY <1>4, <1>6, <2>3, <2>4
  <2>5. CASE Goes(w, "save") /\ Directory([fs EXCEPT !.target = worker[w].file])
    BY <1>5, <1>6, <2>2, <2>3, <2>5
  <2>6. CASE Error(w) \/ Aborts(w, WithoutIntent(worker[w].file))
    BY <1>1, <1>2, <1>3, <2>6
  <2>7. QED BY <1>9, <2>4, <2>5, <2>6 DEF Validate, LinkTarget
<1>10. CASE CheckTarget(w) \/ CheckSave(w) \/ Reconsider(w) \/ Recheck(w) \/ SyncManifest(w)
            \/ SyncDeletion(w) \/ SyncDeleted(w)
  <2>1. {"convert", "emit", "commit", "committed", "failed", "finish", "rollback", "delete",
         "recheck", "forget"} \subseteq Places
    BY DEF Places
  <2>2. QED
    BY <1>3, <1>4, <1>6, <1>10, <2>1
    DEF CheckTarget, CheckSave, Reconsider, Recheck, SyncManifest, SyncDeletion, SyncDeleted
<1>11. CASE Convert(w)
  <2>1. CASE Error(w)
    BY <1>3, <2>1
  <2>2. CASE ~Error(w)
    <3>1. PICK f \in Files :
            /\ from' = [from EXCEPT ![f] = Origin(w)]
            /\ fs' = [fs EXCEPT !.temps = @ \cup {f}]
            /\ worker' = [worker EXCEPT ![w].pc = "publish", ![w].file = f, ![w].own = TRUE]
            /\ UNCHANGED <<disk, crashes>>
      BY <1>11, <2>2 DEF Convert
    <3>2. from' \in [Files -> Made]
      BY <1>0, <3>1 DEF TypeOK, Work, Made, Origin
    <3>3. worker' \in [Workers -> Work]
      BY <1>0, <3>1 DEF Work, Places
    <3>4. fs' \in Entries
      BY <1>0, <3>1
    <3>5. QED BY <1>0, <3>1, <3>2, <3>3, <3>4 DEF TypeOK, Work, Places, Made
  <2>3. QED BY <2>1, <2>2
<1>12. CASE LinkIntent(w) \/ LinkManifest(w)
  <2>1. worker[w].file \in {NoFile} \cup Files
    BY <1>0 DEF Work
  <2>2. /\ [fs EXCEPT !.intent = worker[w].file] \in Entries
        /\ [fs EXCEPT !.manifest = worker[w].file] \in Entries
    BY <1>0, <2>1
  <2>3. {"intended", "committed", "failed"} \subseteq Places
    BY DEF Places
  <2>4. QED BY <1>3, <1>4, <1>5, <1>6, <1>12, <2>2, <2>3 DEF LinkIntent, LinkManifest
<1>13. CASE SyncIntent(w) \/ RollBackIntent(w)
  <2>1. "link" \in Places
    BY DEF Places
  <2>2. QED BY <1>1, <1>2, <1>4, <1>6, <1>13, <2>1 DEF SyncIntent, RollBackIntent
<1>14. CASE RollBackTarget(w) \/ RemoveIntent(w) \/ RemoveDeletion(w)
  <2>1. /\ [fs EXCEPT !.target = NoFile] \in Entries /\ [fs EXCEPT !.intent = NoFile] \in Entries
        /\ [fs EXCEPT !.deletion = NoFile] \in Entries
    BY <1>0
  <2>2. {"rolledback", "finished", "over"} \subseteq Places
    BY DEF Places
  <2>3. QED BY <1>3, <1>5, <1>6, <1>14, <2>1, <2>2 DEF RollBackTarget, RemoveIntent, RemoveDeletion
<1>15. CASE SyncFinished(w)
  <2>1. CASE Error(w)
    BY <1>3, <2>1
  <2>2. CASE ~Error(w)
    <3>1. /\ disk' = fs /\ fs' = [fs EXCEPT !.temps = @ \ {worker[w].file}]
          /\ UNCHANGED <<from, crashes>>
          /\ Goes(w, "emit") \/ Goes(w, "check")
      BY <1>15, <2>2 DEF SyncFinished
    <3>2. {"emit", "check"} \subseteq Places
      BY DEF Places
    <3>3. worker' \in [Workers -> Work]
      BY <1>6, <3>1, <3>2
    <3>4. fs' \in Entries
      BY <1>0, <3>1
    <3>5. QED BY <1>0, <3>1, <3>3, <3>4 DEF TypeOK, Work, Places
  <2>3. QED BY <2>1, <2>2
<1>16. CASE Emit(w)
  <2>1. CASE Error(w)
    BY <1>3, <2>1
  <2>2. CASE ~Error(w)
    <3>1. fs.manifest \in {NoFile} \cup Files
      BY <1>0 DEF Entries
    <3>2. /\ worker' = [worker EXCEPT ![w].pc = "deleting", ![w].file = fs.manifest,
                                      ![w].own = FALSE]
          /\ Directory([fs EXCEPT !.deletion = fs.manifest])
      BY <1>16, <2>2 DEF Emit
    <3>3. worker' \in [Workers -> Work]
      BY <1>0, <3>1, <3>2 DEF Work, Places
    <3>4. QED BY <1>0, <1>5, <3>1, <3>2, <3>3
  <2>3. QED BY <2>1, <2>2
<1>17. CASE RemoveSource(w)
  <2>1. "deleted" \in Places
    BY DEF Places
  <2>2. [fs EXCEPT !.src[worker[w].src] = Gone] \in Entries
    BY <1>0
  <2>3. QED BY <1>3, <1>5, <1>6, <1>17, <2>1, <2>2 DEF RemoveSource
<1>18. CASE SyncOver(w)
  <2>1. worker' \in [Workers -> Work] /\ Syncs => TypeOK'
    BY <1>4
  <2>2. QED BY <1>0, <1>3, <1>18, <2>1 DEF SyncOver
<1>19. QED
  BY <1>7, <1>8, <1>9, <1>10, <1>11, <1>12, <1>13, <1>14, <1>15, <1>16, <1>17, <1>18 DEF Execute

\* Whatever a worker, another program, a crash or a loss of power does, the directory
\* and the workers keep their types.
THEOREM TypeCorrect == Spec => []TypeOK
<1>1. Init => TypeOK
  <2> SUFFICES ASSUME Init PROVE TypeOK
    OBVIOUS
  <2>1. fs \in Entries
    BY Numbers DEF Init, Entries, Versions
  <2>2. from \in [Files -> Made] /\ worker \in [Workers -> Work] /\ crashes \in 0..MaxCrashes
    BY Numbers, PublicationAssumption DEF Init, Made, Unused
  <2>3. QED BY <2>1, <2>2 DEF Init, TypeOK, Made, Work, Places
<1>2. TypeOK /\ [Next]_vars => TypeOK'
  <2> SUFFICES ASSUME TypeOK, [Next]_vars PROVE TypeOK'
    OBVIOUS
  <2>1. ASSUME NEW s \in Sources, SourceChanges(s) PROVE TypeOK'
    <3>1. 2 \in {Gone} \cup Versions
      BY DEF Versions
    <3>2. [fs EXCEPT !.src[s] = 2] \in Entries /\ [disk EXCEPT !.src[s] = 2] \in Entries
      BY <3>1, EntriesType DEF TypeOK
    <3>3. QED BY <2>1, <3>2 DEF SourceChanges, TypeOK
  <2>2. CASE Dies /\ fs' \in Entries /\ disk' \in Entries
    <3>1. worker' \in [Workers -> Work] /\ crashes' \in 0..MaxCrashes
      BY <2>2, Numbers, PublicationAssumption DEF Dies, TypeOK
    <3>2. QED BY <2>2, <3>1 DEF Dies, TypeOK, Work, Places
  <2>3. CASE Crash
    BY <2>2, <2>3 DEF Crash, TypeOK
  <2>4. CASE PowerLoss
    <3>1. fs' \in Entries
      BY <2>4 DEF PowerLoss, TypeOK, Entries
    <3>2. QED BY <2>2, <2>4, <3>1 DEF PowerLoss
  <2>5. CASE UNCHANGED vars
    BY <2>5 DEF vars, TypeOK
  <2>6. QED BY <2>1, <2>3, <2>4, <2>5, ExecuteType DEF Next
<1>3. QED BY <1>1, <1>2, PTL DEF Spec

-----------------------------------------------------------------------------
(* What a step of a worker does, as far as the invariant can tell. *)

\* Where a worker has a product in hand, where it is deleting a source, and where
\* it has deleted one.
Filed    == {"validate", "publish", "intended", "link", "save", "commit", "failed", "rollback",
             "rolledback", "committed", "finish", "finished"}
Deleting == {"deleting", "recheck", "delete"}
Ending   == {"deleted", "forget", "over"}

Shown(d) == <<d.src, d.target, d.manifest>>
\* The directory shows what it did, but for intents and temporary files; it may be synced.
Quiet    == Shown(fs') = Shown(fs) /\ Shown(disk') \in {Shown(disk), Shown(fs)}
Unsynced == Shown(disk') = Shown(disk)
Alike    == from' = from

Stays(w, pc) == /\ worker[w].pc # "idle" /\ worker'[w].pc = pc
                /\ worker'[w].src = worker[w].src /\ worker'[w].ver = worker[w].ver
Keeps(w, pc) == Stays(w, pc) /\ worker'[w].file = worker[w].file

Ends(w) == worker'[w].pc = "idle" /\ Quiet /\ Alike
Starts(w) ==
  /\ worker[w].pc = "idle" /\ \A v \in Workers : worker[v].pc \notin RollingBack
  /\ worker'[w].src \in Sources /\ worker'[w].ver = fs.src[worker'[w].src]
  /\ \/ worker'[w].pc = "recover" /\ worker'[w].ver # Gone
     \/ worker'[w].pc = "deleted"
  /\ Quiet /\ Alike
Continues(w) ==
  /\ \/ \E pc \in {"check", "convert", "emit"} : Stays(w, pc) /\ worker[w].pc \notin Ending
     \/ \E pc \in {"forget", "over"} : Stays(w, pc)
  /\ Quiet /\ Alike
Holds(w) ==
  /\ \E pc \in Filed \ RollingBack : Stays(w, pc)
  /\ \/ worker[w].pc \in Filed /\ worker'[w].file = worker[w].file
     \/ /\ worker[w].pc \notin Ending
        /\ worker'[w].file \in Files /\ from[worker'[w].file] = Origin(w)
  /\ Quiet /\ Alike
Converts(w) ==
  /\ worker[w].pc \notin Ending /\ Stays(w, "publish") /\ worker'[w].file \in Files
  /\ from[worker'[w].file] = Unused
  /\ from' = [from EXCEPT ![worker'[w].file] = Origin(w)]
  /\ Quiet /\ Unsynced
Fails(w) ==
  /\ worker[w].pc \in Filed /\ Keeps(w, "failed")
  /\ Alone(w) \/ ~SourceIs(w) \/ fs.manifest \notin {NoFile, worker[w].file}
  /\ Quiet /\ Alike
Reconsiders(w) ==
  worker[w].pc = "failed" /\ Keeps(w, "rollback") /\ ~Loads /\ Quiet /\ Alike
RollsBack(w) ==
  /\ worker[w].pc = "rollback" /\ Keeps(w, "rolledback")
  /\ fs.target \in {NoFile, worker[w].file} /\ fs'.target = NoFile
  /\ fs'.src = fs.src /\ fs'.manifest = fs.manifest /\ Unsynced /\ Alike
Links(w) ==
  /\ worker[w].pc \in Filed /\ Keeps(w, "save")
  /\ fs.target \in {NoFile, worker[w].file} /\ fs'.target = worker[w].file
  /\ fs'.src = fs.src /\ fs'.manifest = fs.manifest /\ Unsynced /\ Alike
Commits(w) ==
  /\ worker[w].pc \in Filed /\ Keeps(w, "committed")
  /\ fs.manifest \in {NoFile, worker[w].file} /\ fs'.manifest = worker[w].file
  /\ fs'.src = fs.src /\ fs'.target = fs.target /\ Unsynced /\ Alike
Decides(w) ==
  /\ worker[w].pc \notin Ending /\ Stays(w, "deleting")
  /\ Loads /\ worker'[w].file = fs.manifest /\ from[fs.manifest] = Origin(w)
  /\ Quiet /\ Alike
Proves(w) ==
  /\ Quiet /\ Alike
  /\ \/ worker[w].pc = "deleting" /\ Keeps(w, "recheck") /\ Shown(disk') = Shown(fs)
     \/ worker[w].pc = "recheck" /\ Keeps(w, "delete")
Deletes(w) ==
  /\ worker[w].pc = "delete" /\ Keeps(w, "deleted")
  /\ fs.src[worker[w].src] \in {Gone, worker[w].ver}
  /\ fs'.src = [fs.src EXCEPT ![worker[w].src] = Gone]
  /\ fs'.target = fs.target /\ fs'.manifest = fs.manifest /\ Unsynced /\ Alike

StepOf(w) ==
  \/ Ends(w) \/ Starts(w) \/ Continues(w) \/ Holds(w) \/ Converts(w) \/ Fails(w)
  \/ Reconsiders(w) \/ RollsBack(w) \/ Links(w) \/ Commits(w) \/ Decides(w) \/ Proves(w)
  \/ Deletes(w)

\* This is what an error does.
LEMMA EndsStep ==
  ASSUME TypeOK, NEW w \in Workers, NEW d \in Entries, Shown(d) = Shown(fs), Aborts(w, d)
  PROVE  Ends(w) /\ \A v \in Workers \ {w} : worker'[v] = worker[v]
BY DEF Aborts, Directory, WithoutTemp, Shown, Ends, Quiet, Alike, TypeOK, Entries, Resting

LEMMA GoesStep ==
  ASSUME TypeOK, NEW w \in Workers, NEW pc, worker[w].pc # "idle", Goes(w, pc)
  PROVE  Keeps(w, pc) /\ \A v \in Workers \ {w} : worker'[v] = worker[v]
BY DEF Goes, Keeps, Stays, TypeOK

LEMMA QuietStep ==
  ASSUME TypeOK
  PROVE  /\ Reads => Quiet /\ Unsynced /\ Alike
         /\ Syncs => Quiet /\ Alike /\ Shown(disk') = Shown(fs)
BY DEF Reads, Syncs, Quiet, Unsynced, Alike, Shown

\* A step of a worker changes no other one.
OwnStep(w) == StepOf(w) /\ \A v \in Workers \ {w} : worker'[v] = worker[v]

\* Every action of a worker is one of these steps.
LEMMA StepKinds ==
  ASSUME ~FaultsWhenShared, TypeOK, NEW w \in Workers, Execute(w)
  PROVE  OwnStep(w)
<1> DEFINE f == worker[w].file
<1>0. fs \in Entries /\ worker[w] \in Work /\ worker \in [Workers -> Work]
  BY DEF TypeOK, Work, Places
<1>1. ASSUME NEW d \in Entries, Shown(d) = Shown(fs), Aborts(w, d) PROVE OwnStep(w)
  BY <1>1, EndsStep DEF OwnStep, StepOf
<1>2. ASSUME Error(w) PROVE OwnStep(w)
  BY <1>0, <1>1, <1>2 DEF Error
<1>3. WithoutIntent(f) \in Entries /\ Shown(WithoutIntent(f)) = Shown(fs)
  BY <1>0, Numbers DEF WithoutIntent, Entries, Shown
<1>4. ASSUME Aborts(w, WithoutIntent(f)) PROVE OwnStep(w)
  BY <1>1, <1>3, <1>4
<1>5. ASSUME NEW pc, worker[w].pc # "idle", Goes(w, pc)
      PROVE  Keeps(w, pc) /\ \A v \in Workers \ {w} : worker'[v] = worker[v]
  BY <1>5, GoesStep
<1>6. /\ Reads => Quiet /\ Unsynced /\ Alike
      /\ Syncs => Quiet /\ Alike /\ Shown(disk') = Shown(fs)
  BY QuietStep
<1>7. /\ \A g : Directory([fs EXCEPT !.target = g]) =>
             fs'.target = g /\ fs'.src = fs.src /\ fs'.manifest = fs.manifest /\ Unsynced /\ Alike
      /\ \A g : Directory([fs EXCEPT !.manifest = g]) =>
             fs'.manifest = g /\ fs'.src = fs.src /\ fs'.target = fs.target /\ Unsynced /\ Alike
  BY <1>0 DEF Directory, Unsynced, Alike, Shown, Entries
<1>8. ASSUME NEW s \in Sources, NEW del \in BOOLEAN, Start(w, s, del) PROVE OwnStep(w)
  <2>1. /\ worker[w].pc = "idle" /\ \A v \in Workers : worker[v].pc \notin RollingBack
        /\ Quiet /\ Alike
    BY <1>6, <1>8 DEF Start, At
  <2> DEFINE begun == [Resting EXCEPT !.pc = "recover", !.src = s, !.ver = fs.src[s], !.del = del]
             over  == [Resting EXCEPT !.pc = "deleted", !.src = s, !.del = del,
                                      !.file = fs.manifest]
  <2>2. /\ begun.pc = "recover" /\ begun.src = s /\ begun.ver = fs.src[s]
        /\ over.pc = "deleted" /\ over.src = s /\ over.ver = Gone
    BY DEF Resting
  <2>3. \/ fs.src[s] # Gone /\ worker' = [worker EXCEPT ![w] = begun]
        \/ fs.src[s] = Gone /\ worker' = [worker EXCEPT ![w] = over]
    BY <1>8 DEF Start
  <2> HIDE DEF begun, over
  <2>4. Starts(w)
    BY <1>0, <2>1, <2>2, <2>3 DEF Starts
  <2>5. \A v \in Workers \ {w} : worker'[v] = worker[v]
    BY <1>0, <2>3
  <2>6. QED BY <2>4, <2>5 DEF OwnStep, StepOf
<1>9. ASSUME NEW pc \in {"check", "convert", "emit", "forget", "over"}, worker[w].pc # "idle",
             Goes(w, pc), Quiet, Alike, pc \in {"forget", "over"} \/ worker[w].pc \notin Ending
      PROVE  OwnStep(w)
  BY <1>5, <1>9 DEF Keeps, Continues, OwnStep, StepOf
<1>10. ASSUME NEW pc \in Filed \ RollingBack, worker[w].pc \in Filed, Goes(w, pc), Quiet, Alike
       PROVE  OwnStep(w)
  BY <1>5, <1>10 DEF Keeps, Holds, OwnStep, StepOf, Filed
<1>11. CASE ReadIntent(w)
  <2>1. CASE Goes(w, "check") /\ Reads
    BY <1>6, <1>9, <1>11, <2>1 DEF ReadIntent, At, Ending
  <2>2. CASE /\ fs.intent # NoFile /\ from[fs.intent] = Origin(w) /\ Reads
             /\ worker' = [worker EXCEPT ![w].pc = "validate", ![w].file = fs.intent,
                                         ![w].missing = (fs.target = NoFile)]
    <3>1. Stays(w, "validate") /\ worker'[w].file = fs.intent
      BY <1>0, <1>11, <2>2 DEF ReadIntent, At, Stays, Work
    <3>2. fs.intent \in Files /\ worker[w].pc \notin Ending
      BY <1>0, <1>11, <2>2 DEF Entries, ReadIntent, At, Ending
    <3>3. Holds(w)
      BY <1>6, <2>2, <3>1, <3>2 DEF Holds, Filed, RollingBack
    <3>4. QED BY <1>0, <2>2, <3>3 DEF OwnStep, StepOf
  <2>3. QED BY <1>2, <1>11, <2>1, <2>2 DEF ReadIntent
<1>12. CASE Validate(w) \/ LinkTarget(w)
  <2>1. worker[w].pc \in Filed /\ worker[w].pc # "idle" /\ "save" \in Filed \ RollingBack
    BY <1>12 DEF Validate, LinkTarget, At, Filed, RollingBack
  <2>2. CASE Goes(w, "save") /\ Reads
    BY <1>6, <1>10, <2>1, <2>2
  <2>3. CASE Goes(w, "save") /\ Directory([fs EXCEPT !.target = f]) /\ fs.target \in {NoFile, f}
    BY <1>5, <1>7, <2>1, <2>3 DEF OwnStep, StepOf, Links
  <2>4. QED BY <1>2, <1>4, <1>12, <2>2, <2>3 DEF Validate, LinkTarget
<1>13. CASE CheckTarget(w)
  BY <1>2, <1>6, <1>9, <1>13 DEF CheckTarget, At, Ending
<1>14. CASE Convert(w)
  <2>1. CASE Error(w)
    BY <1>2, <2>1
  <2>2. CASE ~Error(w)
    <3>1. PICK g \in Files :
            /\ from[g] = Unused
            /\ from' = [from EXCEPT ![g] = Origin(w)]
            /\ fs' = [fs EXCEPT !.temps = @ \cup {g}]
            /\ worker' = [worker EXCEPT ![w].pc = "publish", ![w].file = g, ![w].own = TRUE]
            /\ UNCHANGED <<disk, crashes>>
      BY <1>14, <2>2 DEF Convert
    <3>2. Stays(w, "publish") /\ worker'[w].file = g /\ worker[w].pc \notin Ending
      BY <1>0, <1>14, <3>1 DEF Convert, At, Stays, Work, Ending
    <3>3. Quiet /\ Unsynced
      BY <1>0, <3>1 DEF Quiet, Unsynced, Shown, Entries
    <3>4. Converts(w)
      BY <3>1, <3>2, <3>3 DEF Converts
    <3>5. QED BY <1>0, <3>1, <3>4 DEF OwnStep, StepOf
  <2>3. QED BY <2>1, <2>2
<1>15. CASE LinkIntent(w) \/ SyncIntent(w) \/ SyncManifest(w) \/ RemoveIntent(w)
  <2>1. /\ worker[w].pc \in Filed
        /\ {"intended", "link", "finish", "finished"} \subseteq Filed \ RollingBack
    BY <1>15 DEF LinkIntent, SyncIntent, SyncManifest, RemoveIntent, At, Filed, RollingBack
  <2>2. CASE \/ Goes(w, "link") /\ Syncs
             \/ Goes(w, "finish") /\ Syncs
    BY <1>6, <1>10, <2>1, <2>2
  <2>3. CASE \/ Goes(w, "intended") /\ Directory([fs EXCEPT !.intent = f])
             \/ Goes(w, "finished") /\ Directory([fs EXCEPT !.intent = NoFile])
    <3>1. Quiet /\ Alike
      BY <1>0, <2>3 DEF Directory, Quiet, Alike, Shown, Entries
    <3>2. QED BY <1>10, <2>1, <2>3, <3>1
  <2>4. CASE Error(w) \/ Aborts(w, WithoutIntent(f))
    BY <1>2, <1>4, <2>4
  <2>5. QED
    BY <1>15, <2>2, <2>3, <2>4 DEF LinkIntent, SyncIntent, SyncManifest, RemoveIntent
<1>16. ASSUME worker[w].pc \in Filed, Goes(w, "failed"), Reads,
              ~SourceIs(w) \/ fs.manifest \notin {NoFile, f} \/ Failing(w)
       PROVE  OwnStep(w)
  <2>1. Fails(w)
    BY <1>5, <1>6, <1>16 DEF Fails, Failing, Filed
  <2>2. QED BY <1>5, <1>16, <2>1 DEF OwnStep, StepOf, Filed
<1>17. CASE CheckSave(w)
  <2>1. worker[w].pc \in Filed /\ {"commit", "committed"} \subseteq Filed \ RollingBack
    BY <1>17 DEF CheckSave, At, Filed, RollingBack
  <2>2. QED BY <1>2, <1>6, <1>10, <1>16, <1>17, <2>1 DEF CheckSave
<1>18. CASE LinkManifest(w)
  <2>1. worker[w].pc \in Filed /\ worker[w].pc # "idle"
    BY <1>18 DEF LinkManifest, At, Filed
  <2>2. CASE /\ fs.manifest \in {NoFile, f} /\ Goes(w, "committed")
             /\ Directory([fs EXCEPT !.manifest = f])
    BY <1>5, <1>7, <2>1, <2>2 DEF OwnStep, StepOf, Commits
  <2>3. QED BY <1>16, <1>18, <2>1, <2>2 DEF LinkManifest
<1>19. CASE Reconsider(w)
  <2>1. worker[w].pc = "failed" /\ worker[w].pc \in Filed /\ "finish" \in Filed \ RollingBack
    BY <1>19 DEF Reconsider, At, Filed, RollingBack
  <2>2. CASE ~Loads /\ Goes(w, "rollback") /\ Reads
    BY <1>5, <1>6, <2>1, <2>2 DEF OwnStep, StepOf, Reconsiders
  <2>3. QED BY <1>2, <1>6, <1>10, <1>19, <2>1, <2>2 DEF Reconsider
<1>20. CASE RollBackTarget(w)
  BY <1>2, <1>5, <1>7, <1>20 DEF RollBackTarget, At, Removable, OwnStep, StepOf, RollsBack
<1>21. CASE RollBackIntent(w)
  BY <1>4, <1>21 DEF RollBackIntent
<1>22. CASE SyncFinished(w)
  <2>1. CASE Error(w)
    BY <1>2, <2>1
  <2>2. CASE ~Error(w)
    <3>1. /\ disk' = fs /\ fs' = [fs EXCEPT !.temps = @ \ {f}] /\ UNCHANGED <<from, crashes>>
          /\ Goes(w, "emit") \/ Goes(w, "check")
          /\ worker[w].pc = "finished"
      BY <1>22, <2>2 DEF SyncFinished, At
    <3>2. Quiet /\ Alike
      BY <1>0, <3>1 DEF Quiet, Alike, Shown, Entries
    <3>3. QED BY <1>9, <3>1, <3>2 DEF Ending
  <2>3. QED BY <2>1, <2>2
<1>23. CASE Emit(w)
  <2>1. CASE Error(w)
    BY <1>2, <2>1
  <2>2. CASE ~Error(w)
    <3>1. /\ worker' = [worker EXCEPT ![w].pc = "deleting", ![w].file = fs.manifest,
                                      ![w].own = FALSE]
          /\ Directory([fs EXCEPT !.deletion = fs.manifest])
          /\ Loads /\ from[fs.manifest] = Origin(w) /\ worker[w].pc = "emit"
      BY <1>23, <2>2 DEF Emit, At
    <3>2. Stays(w, "deleting") /\ worker'[w].file = fs.manifest
      BY <1>0, <3>1 DEF Stays, Work
    <3>3. Quiet /\ Alike
      BY <1>0, <3>1 DEF Directory, Quiet, Alike, Shown, Entries
    <3>4. Decides(w)
      BY <3>1, <3>2, <3>3 DEF Decides, Ending
    <3>5. QED BY <1>0, <3>1, <3>4 DEF OwnStep, StepOf
  <2>3. QED BY <2>1, <2>2
<1>24. CASE SyncDeletion(w)
  BY <1>2, <1>5, <1>6, <1>24 DEF SyncDeletion, At, OwnStep, StepOf, Proves
<1>25. CASE Recheck(w)
  BY <1>2, <1>5, <1>6, <1>25 DEF Recheck, At, OwnStep, StepOf, Proves
<1>26. CASE RemoveSource(w)
  <2>1. CASE Error(w)
    BY <1>2, <2>1
  <2>2. CASE ~Error(w)
    <3>1. /\ fs.src[worker[w].src] \in {Gone, worker[w].ver} /\ worker[w].pc = "delete"
          /\ Goes(w, "deleted") /\ Directory([fs EXCEPT !.src[worker[w].src] = Gone])
      BY <1>26, <2>2 DEF RemoveSource, At, Removable, Gone, NoFile
    <3>2. /\ fs'.src = [fs.src EXCEPT ![worker[w].src] = Gone]
          /\ fs'.target = fs.target /\ fs'.manifest = fs.manifest /\ Unsynced /\ Alike
      BY <1>0, <3>1 DEF Directory, Unsynced, Alike, Shown, Entries
    <3>3. QED BY <1>5, <3>1, <3>2 DEF OwnStep, StepOf, Deletes
  <2>3. QED BY <2>1, <2>2
<1>27. CASE SyncDeleted(w) \/ RemoveDeletion(w)
  <2>1. worker[w].pc # "idle"
    BY <1>27 DEF SyncDeleted, RemoveDeletion, At
  <2>2. CASE Goes(w, "forget") /\ Syncs
    BY <1>6, <1>9, <2>1, <2>2
  <2>3. CASE Goes(w, "over") /\ Directory([fs EXCEPT !.deletion = NoFile])
    <3>1. Quiet /\ Alike
      BY <1>0, <2>3 DEF Directory, Quiet, Alike, Shown, Entries
    <3>2. QED BY <1>9, <2>1, <2>3, <3>1
  <2>4. QED BY <1>2, <1>27, <2>2, <2>3 DEF SyncDeleted, RemoveDeletion
<1>28. CASE SyncOver(w)
  <2>1. CASE worker' = [worker EXCEPT ![w] = Resting] /\ Syncs
    <3>1. Ends(w)
      BY <1>0, <1>6, <2>1 DEF Ends, Resting
    <3>2. QED BY <1>0, <2>1, <3>1 DEF OwnStep, StepOf
  <2>2. QED BY <1>2, <1>28, <2>1 DEF SyncOver
<1>29. QED
  BY <1>8, <1>11, <1>12, <1>13, <1>14, <1>15, <1>17, <1>18, <1>19, <1>20, <1>21, <1>22, <1>23,
     <1>24, <1>25, <1>26, <1>27, <1>28 DEF Execute

-----------------------------------------------------------------------------
(* Why NeverLoseBoth holds: the inductive invariant, part by part. *)

\* A worker knows what it works for, and a product in hand was made of that.
FilesKnown ==
  /\ \A w \in Workers :
       /\ worker[w].pc # "idle" => worker[w].src \in Sources
       /\ worker[w].pc \notin Ending \cup {"idle"} => worker[w].ver # Gone
       /\ worker[w].pc \in Filed \cup Deleting =>
            worker[w].file \in Files /\ from[worker[w].file] = Origin(w)
  /\ fs.manifest # NoFile => from[fs.manifest].src \in Sources

\* A manifest, once there, stays; and a source goes before its entry is synced.
DiskBehind ==
  /\ disk.manifest \in {NoFile, fs.manifest}
  /\ \A s \in Sources : disk.src[s] = Gone => fs.src[s] = Gone

\* NeverLoseBoth, and the same of the directory that a loss of power leaves.
GoneSettled ==
  \A s \in Sources : fs.src[s] = Gone =>
    /\ fs.manifest # NoFile /\ from[fs.manifest].src = s
    /\ fs.target = fs.manifest
    /\ disk.manifest = fs.manifest /\ disk.target = fs.manifest

\* Whoever is about to delete a source has its product, on disk once it looks again.
DeletionProved ==
  \A w \in Workers :
    /\ worker[w].pc \in Deleting =>
         fs.manifest = worker[w].file /\ fs.target = worker[w].file
    /\ worker[w].pc \in {"recheck", "delete"} =>
         disk.manifest = worker[w].file /\ disk.target = worker[w].file

\* A rollback has nobody beside it, or a reason that lasts: its product cannot
\* be committed any more, and is not the one that a deleted source left.
RollbackJustified ==
  \A w \in Workers :
    /\ worker[w].pc \in RollingBack =>
         \/ Alone(w)
         \/ fs.manifest \notin {NoFile, worker[w].file}
         \/ ~SourceIs(w)
    /\ worker[w].pc = "rollback" =>
         ~(fs.manifest = worker[w].file /\ fs.src[worker[w].src] = Gone)

\* Two workers at one version of a source: nobody rewrites it meanwhile.
VersionShared ==
  \A v, w \in Workers :
    v # w /\ worker[v].pc # "idle" /\ worker[w].pc # "idle" /\ Origin(v) = Origin(w)
    => fs.src[worker[v].src] \in {Gone, worker[v].ver}

IInv == /\ FilesKnown /\ DiskBehind /\ GoneSettled
        /\ DeletionProved /\ RollbackJustified /\ VersionShared

\* Origins are told apart by their source and its version, and none is Unused.
LEMMA Origins ==
  /\ \A v, w : Origin(v) = Origin(w)
                 <=> worker[v].src = worker[w].src /\ worker[v].ver = worker[w].ver
  /\ \A w : Origin(w).src = worker[w].src /\ Origin(w).ver = worker[w].ver
  /\ \A w : worker[w].src \in Sources => Origin(w) # Unused
BY PublicationAssumption DEF Origin, Unused

\* The places of a worker, by what they are part of.
LEMMA Parts ==
  /\ Filed \cap Deleting = {} /\ Filed \cap Ending = {} /\ Deleting \cap Ending = {}
  /\ "idle" \notin Filed \cup Deleting \cup Ending
  /\ {"check", "convert", "emit", "recover"} \cap (Filed \cup Deleting \cup Ending) = {}
  /\ RollingBack = {"failed", "rollback", "rolledback"} /\ RollingBack \subseteq Filed
  /\ {"publish", "save", "committed"} \subseteq Filed \ RollingBack
  /\ Deleting = {"deleting", "recheck", "delete"} /\ Ending = {"deleted", "forget", "over"}
BY DEF Filed, Deleting, Ending, RollingBack

\* What every step of a worker leaves alone.
LEMMA StepFrame ==
  ASSUME TypeOK, FilesKnown, NEW w \in Workers, StepOf(w)
  PROVE  /\ \A f \in Files : from[f] # Unused => from'[f] = from[f]
         /\ \/ worker[w].pc = "idle" \/ worker'[w].pc = "idle"
            \/ worker'[w].src = worker[w].src /\ worker'[w].ver = worker[w].ver
         /\ fs.manifest # NoFile => fs'.manifest = fs.manifest
         /\ fs'.src = fs.src \/ Deletes(w)
<1>1. \A f \in Files : from[f] # Unused => from'[f] = from[f]
  <2>1. CASE Alike
    BY <2>1 DEF Alike
  <2>2. CASE Converts(w)
    BY <2>2 DEF Converts, TypeOK
  <2>3. QED
    BY <2>1, <2>2 DEF StepOf, Ends, Starts, Continues, Holds, Fails, Reconsiders, RollsBack, Links,
                      Commits, Decides, Proves, Deletes
<1>2. \/ worker[w].pc = "idle" \/ worker'[w].pc = "idle"
      \/ worker'[w].src = worker[w].src /\ worker'[w].ver = worker[w].ver
  BY DEF StepOf, Ends, Starts, Continues, Holds, Converts, Fails, Reconsiders, RollsBack, Links,
         Commits, Decides, Proves, Deletes, Keeps, Stays
<1>3. Quiet => fs'.manifest = fs.manifest /\ fs'.src = fs.src
  BY DEF Quiet, Shown
<1>4. QED
  BY <1>1, <1>2, <1>3 DEF StepOf, Ends, Starts, Continues, Holds, Converts, Fails, Reconsiders,
                          RollsBack, Links, Commits, Decides, Proves, Deletes

\* Of the worker that moves, and of the manifest it may have committed.
LEMMA FilesKnownStep ==
  ASSUME TypeOK, FilesKnown, NEW w \in Workers, OwnStep(w)
  PROVE  FilesKnown'
<1> USE Parts
<1>1. /\ \A f \in Files : from[f] # Unused => from'[f] = from[f]
      /\ fs.manifest # NoFile => fs'.manifest = fs.manifest
  BY StepFrame DEF OwnStep
<1>2. fs.manifest \in {NoFile} \cup Files /\ NoFile \notin Files
  BY Numbers DEF TypeOK, Entries
<1>3. ASSUME NEW v \in Workers, v # w
      PROVE  /\ worker'[v].pc # "idle" => worker'[v].src \in Sources
             /\ worker'[v].pc \notin Ending \cup {"idle"} => worker'[v].ver # Gone
             /\ worker'[v].pc \in Filed \cup Deleting =>
                  worker'[v].file \in Files /\ from'[worker'[v].file] = Origin(v)'
  <2>1. worker'[v] = worker[v]
    BY <1>3 DEF OwnStep
  <2>2. Origin(v)' = Origin(v)
    BY <2>1 DEF Origin
  <2>3. QED BY <1>1, <2>1, <2>2, Origins DEF FilesKnown
<1>4. worker'[w].pc # "idle" => worker'[w].src \in Sources
  BY DEF OwnStep, StepOf, Ends, Starts, Continues, Holds, Converts, Fails, Reconsiders, RollsBack,
         Links, Commits, Decides, Proves, Deletes, Keeps, Stays, FilesKnown
<1>5. worker'[w].pc \notin Ending \cup {"idle"} => worker'[w].ver # Gone
  BY DEF OwnStep, StepOf, Ends, Starts, Continues, Holds, Converts, Fails, Reconsiders, RollsBack,
         Links, Commits, Decides, Proves, Deletes, Keeps, Stays, FilesKnown
<1>6. ASSUME worker'[w].pc \in Filed \cup Deleting
      PROVE  worker'[w].file \in Files /\ from'[worker'[w].file] = Origin(w)'
  <2>1. Origin(w)' = Origin(w) /\ worker[w].src \in Sources
    <3>1. worker[w].pc # "idle"
      BY <1>6 DEF OwnStep, StepOf, Ends, Starts, Continues, Holds, Converts, Fails, Reconsiders,
                  RollsBack, Links, Commits, Decides, Proves, Deletes, Keeps, Stays
    <3>2. worker'[w].src = worker[w].src /\ worker'[w].ver = worker[w].ver
      BY <1>6, <3>1, StepFrame DEF OwnStep
    <3>3. QED BY <3>1, <3>2 DEF Origin, FilesKnown
  <2>2. CASE worker[w].pc \in Filed \cup Deleting /\ worker'[w].file = worker[w].file
    BY <1>1, <2>1, <2>2, Origins DEF FilesKnown
  <2>3. CASE worker'[w].file \in Files /\ from[worker'[w].file] = Origin(w)
    BY <1>1, <2>1, <2>3, Origins
  <2>4. CASE Converts(w)
    BY <2>1, <2>4 DEF Converts, TypeOK
  <2>5. CASE Decides(w)
    BY <1>1, <1>2, <2>1, <2>5, Origins DEF Decides, Loads
  <2>6. QED
    BY <1>6, <2>2, <2>3, <2>4, <2>5
    DEF OwnStep, StepOf, Ends, Starts, Continues, Holds, Fails, Reconsiders, RollsBack, Links,
        Commits, Proves, Deletes, Keeps, Stays
<1>7. fs'.manifest # NoFile => from'[fs'.manifest].src \in Sources
  <2>1. CASE fs.manifest # NoFile
    BY <1>1, <1>2, <2>1, PublicationAssumption DEF FilesKnown, Unused
  <2>2. CASE Commits(w)
    <3>1. fs'.manifest = worker[w].file /\ worker[w].pc \in Filed
      BY <2>2 DEF Commits
    <3>2. worker[w].src \in Sources /\ worker[w].file \in Files
          /\ from[worker[w].file] = Origin(w)
      BY <3>1 DEF FilesKnown
    <3>3. QED BY <1>1, <3>1, <3>2, Origins
  <2>3. CASE fs.manifest = NoFile /\ ~Commits(w)
    BY <2>3 DEF OwnStep, StepOf, Ends, Starts, Continues, Holds, Converts, Fails, Reconsiders,
                RollsBack, Links, Decides, Proves, Deletes, Quiet, Shown
  <2>4. QED BY <2>1, <2>2, <2>3
<1>8. QED BY <1>3, <1>4, <1>5, <1>6, <1>7 DEF FilesKnown

LEMMA DiskBehindStep ==
  ASSUME TypeOK, DiskBehind, NEW w \in Workers, OwnStep(w)
  PROVE  DiskBehind'
<1>1. CASE Quiet
  BY <1>1 DEF Quiet, Shown, DiskBehind
<1>2. CASE RollsBack(w) \/ Links(w)
  BY <1>2 DEF RollsBack, Links, Unsynced, Shown, DiskBehind
<1>3. CASE Commits(w)
  BY <1>3 DEF Commits, Unsynced, Shown, DiskBehind
<1>4. CASE Deletes(w)
  BY <1>4 DEF Deletes, Unsynced, Shown, DiskBehind, TypeOK, Entries
<1>5. QED
  BY <1>1, <1>2, <1>3, <1>4 DEF OwnStep, StepOf, Ends, Starts, Continues, Holds, Converts, Fails,
                                Reconsiders, Decides, Proves

\* Only a deletion brings a source into the claim, and only a rollback could break it.
LEMMA GoneSettledStep ==
  ASSUME TypeOK, IInv, NEW w \in Workers, OwnStep(w)
  PROVE  GoneSettled'
<1> USE Parts DEF IInv
<1>1. NoFile \notin Files /\ fs.manifest \in {NoFile} \cup Files
  BY Numbers DEF TypeOK, Entries
<1>2. ASSUME NEW s \in Sources, fs.src[s] = Gone
      PROVE  /\ fs'.manifest = fs.manifest /\ from'[fs'.manifest].src = s
             /\ fs'.manifest # NoFile
  <2>1. fs.manifest # NoFile /\ from[fs.manifest].src = s
    BY <1>2 DEF GoneSettled
  <2>2. fs.manifest \in Files /\ from[fs.manifest] # Unused
    BY <1>1, <2>1, PublicationAssumption DEF Unused
  <2>3. QED BY <2>1, <2>2, StepFrame DEF OwnStep
<1>3. ASSUME NEW s \in Sources, fs'.src[s] = Gone, Quiet
      PROVE  fs'.target = fs.target /\ fs.src[s] = Gone
             /\ disk'.manifest \in {disk.manifest, fs.manifest}
             /\ disk'.target \in {disk.target, fs.target}
  BY <1>3 DEF Quiet, Shown
<1>4. CASE Quiet
  BY <1>2, <1>3, <1>4 DEF GoneSettled
<1>5. CASE Links(w) \/ Commits(w)
  <2>1. /\ fs'.src = fs.src /\ disk'.manifest = disk.manifest /\ disk'.target = disk.target
        /\ fs'.target = fs.target \/ (fs.target \in {NoFile, fs'.target})
    BY <1>5 DEF Links, Commits, Unsynced, Shown
  <2>2. QED BY <1>2, <2>1 DEF GoneSettled
<1>6. CASE RollsBack(w)
  <2>1. /\ fs'.src = fs.src /\ worker[w].pc = "rollback"
        /\ fs.target \in {NoFile, worker[w].file}
    BY <1>6 DEF RollsBack
  <2>2. worker[w].file \in Files /\ from[worker[w].file].src = worker[w].src
    BY <2>1, Origins DEF FilesKnown
  <2>3. ASSUME NEW s \in Sources, fs.src[s] = Gone
        PROVE  FALSE
    <3>1. fs.manifest = worker[w].file /\ worker[w].src = s
      BY <2>1, <2>2, <2>3 DEF GoneSettled
    <3>2. QED BY <2>1, <2>3, <3>1 DEF RollbackJustified
  <2>4. QED BY <2>1, <2>3 DEF GoneSettled
<1>7. CASE Deletes(w)
  <2>1. /\ worker[w].pc = "delete" /\ fs'.src = [fs.src EXCEPT ![worker[w].src] = Gone]
        /\ fs'.target = fs.target /\ fs'.manifest = fs.manifest
        /\ disk'.manifest = disk.manifest /\ disk'.target = disk.target /\ from' = from
    BY <1>7 DEF Deletes, Unsynced, Shown, Alike
  <2>2. /\ fs.manifest = worker[w].file /\ fs.target = worker[w].file
        /\ disk.manifest = worker[w].file /\ disk.target = worker[w].file
    BY <2>1 DEF DeletionProved
  <2>3. worker[w].file \in Files /\ from[worker[w].file].src = worker[w].src
    BY <2>1, Origins DEF FilesKnown
  <2>4. ASSUME NEW s \in Sources, fs'.src[s] = Gone, s # worker[w].src
        PROVE  fs.src[s] = Gone
    BY <2>1, <2>4 DEF TypeOK, Entries
  <2>5. QED BY <1>1, <2>1, <2>2, <2>3, <2>4 DEF GoneSettled
<1>8. QED
  BY <1>4, <1>5, <1>6, <1>7 DEF OwnStep, StepOf, Ends, Starts, Continues, Holds, Converts, Fails,
                                Reconsiders, Decides, Proves

\* A rollback never meets somebody who is about to delete the source of its product:
\* they would share the version, so the source has gone, and it would be refused.
LEMMA DeletionProvedStep ==
  ASSUME TypeOK, IInv, NEW w \in Workers, OwnStep(w)
  PROVE  DeletionProved'
<1> USE Parts DEF IInv
<1>0. NoFile \notin Files
  BY Numbers
<1>1. ASSUME NEW v \in Workers, v # w, worker[v].pc \in Deleting
      PROVE  fs'.manifest = fs.manifest /\ fs'.target = fs.target
             /\ disk'.manifest \in {disk.manifest, fs.manifest}
             /\ disk'.target \in {disk.target, fs.target}
  <2>1. fs.manifest = worker[v].file /\ fs.target = worker[v].file /\ worker[v].file \in Files
        /\ from[worker[v].file] = Origin(v)
    BY <1>1 DEF DeletionProved, FilesKnown
  <2>2. CASE Quiet
    BY <2>2 DEF Quiet, Shown
  <2>3. CASE Links(w) \/ Commits(w) \/ Deletes(w)
    BY <1>0, <2>1, <2>3 DEF Links, Commits, Deletes, Unsynced, Shown
  <2>4. CASE RollsBack(w)
    <3>1. worker[w].pc = "rollback" /\ worker[w].file = fs.target
      BY <1>0, <2>1, <2>4 DEF RollsBack
    <3>2. from[worker[w].file] = Origin(w)
      BY <3>1 DEF FilesKnown
    <3>3. Origin(v) = Origin(w) /\ fs.manifest = worker[w].file
      BY <2>1, <3>1, <3>2
    <3>4. ~SourceIs(w)
      <4>1. ~Alone(w)
        BY <1>1 DEF Alone
      <4>2. QED BY <3>1, <3>3, <4>1 DEF RollbackJustified
    <3>5. fs.src[worker[w].src] = Gone
      BY <1>1, <3>1, <3>3, <3>4 DEF VersionShared, SourceIs
    <3>6. QED BY <3>1, <3>3, <3>5 DEF RollbackJustified
  <2>5. QED
    BY <2>2, <2>3, <2>4 DEF OwnStep, StepOf, Ends, Starts, Continues, Holds, Converts, Fails,
                            Reconsiders, Decides, Proves
<1>2. ASSUME NEW v \in Workers, v # w
      PROVE  /\ worker'[v].pc \in Deleting =>
                  fs'.manifest = worker'[v].file /\ fs'.target = worker'[v].file
             /\ worker'[v].pc \in {"recheck", "delete"} =>
                  disk'.manifest = worker'[v].file /\ disk'.target = worker'[v].file
  <2>1. worker'[v] = worker[v]
    BY <1>2 DEF OwnStep
  <2>2. QED BY <1>1, <1>2, <2>1 DEF DeletionProved
<1>3. ASSUME worker'[w].pc \in Deleting
      PROVE  /\ fs'.manifest = worker'[w].file /\ fs'.target = worker'[w].file
             /\ worker'[w].pc \in {"recheck", "delete"} =>
                  disk'.manifest = worker'[w].file /\ disk'.target = worker'[w].file
  <2>1. Decides(w) \/ Proves(w)
    BY <1>3 DEF OwnStep, StepOf, Ends, Starts, Continues, Holds, Converts, Fails, Reconsiders,
                RollsBack, Links, Commits, Deletes, Keeps, Stays
  <2>2. CASE Decides(w)
    BY <2>2 DEF Decides, Loads, Quiet, Shown, Stays
  <2>3. CASE Proves(w)
    BY <2>3 DEF Proves, Quiet, Shown, Keeps, Stays, DeletionProved
  <2>4. QED BY <2>1, <2>2, <2>3
<1>4. QED BY <1>2, <1>3 DEF DeletionProved

\* Versions are shared only by workers that read the same version.
LEMMA VersionSharedStep ==
  ASSUME TypeOK, IInv, NEW w \in Workers, OwnStep(w)
  PROVE  VersionShared'
<1> USE Parts DEF IInv
<1>1. ASSUME NEW s \in Sources
      PROVE  fs'.src[s] \in {Gone, fs.src[s]}
  <2>1. CASE Deletes(w)
    BY <2>1 DEF Deletes, TypeOK, Entries
  <2>2. QED BY <2>1, StepFrame DEF OwnStep
<1>2. ASSUME NEW v \in Workers, worker'[v].pc # "idle"
      PROVE  \/ /\ worker[v].pc # "idle"
                /\ worker'[v].src = worker[v].src /\ worker'[v].ver = worker[v].ver
             \/ worker'[v].src \in Sources /\ worker'[v].ver = fs.src[worker'[v].src]
  <2>1. CASE v # w
    BY <1>2, <2>1 DEF OwnStep
  <2>2. CASE v = w /\ ~Starts(w)
    BY <1>2, <2>2 DEF OwnStep, StepOf, Ends, Continues, Holds, Converts, Fails, Reconsiders,
                RollsBack, Links, Commits, Decides, Proves, Deletes, Keeps, Stays
  <2>3. CASE v = w /\ Starts(w)
    BY <2>3 DEF Starts
  <2>4. QED BY <2>1, <2>2, <2>3
<1>3. ASSUME NEW v \in Workers, NEW u \in Workers, v # u,
             worker'[v].pc # "idle", worker'[u].pc # "idle", Origin(v)' = Origin(u)'
      PROVE  fs'.src[worker'[v].src] \in {Gone, worker'[v].ver}
  <2>1. worker'[v].src = worker'[u].src /\ worker'[v].ver = worker'[u].ver
    BY <1>3 DEF Origin
  <2>2. CASE \E x \in {u, v} : worker'[x].src \in Sources
                               /\ worker'[x].ver = fs.src[worker'[x].src]
    BY <1>1, <2>1, <2>2
  <2>3. CASE \A x \in {u, v} : /\ worker[x].pc # "idle" /\ worker'[x].src = worker[x].src
                               /\ worker'[x].ver = worker[x].ver
    <3>1. Origin(v) = Origin(u) /\ worker[v].src \in Sources
      BY <2>1, <2>3, Origins DEF FilesKnown
    <3>2. fs.src[worker[v].src] \in {Gone, worker[v].ver}
      BY <1>3, <2>3, <3>1 DEF VersionShared
    <3>3. QED BY <1>1, <2>3, <3>1, <3>2
  <2>4. QED BY <1>2, <1>3, <2>2, <2>3
<1>4. QED BY <1>3 DEF VersionShared

\* Nobody starts beside a rollback, and nobody gives its product back to it: a worker
\* that deletes the source proves that the rollback has lost its source already.
LEMMA RollbackJustifiedStep ==
  ASSUME TypeOK, IInv, NEW w \in Workers, OwnStep(w)
  PROVE  RollbackJustified'
<1> USE Parts DEF IInv
<1>0. NoFile \notin Files /\ Gone \notin Versions
  BY Numbers DEF Gone, Versions
<1>1. ASSUME NEW v \in Workers, v # w, worker[v].pc \in RollingBack
      PROVE  /\ Alone(v)' \/ fs'.manifest \notin {NoFile, worker'[v].file} \/ ~SourceIs(v)'
             /\ worker'[v].pc = "rollback" =>
                  ~(fs'.manifest = worker'[v].file /\ fs'.src[worker'[v].src] = Gone)
  <2>1. worker'[v] = worker[v] /\ worker[v].src \in Sources /\ worker[v].ver # Gone
        /\ worker[v].file \in Files /\ from[worker[v].file] = Origin(v)
    BY <1>1 DEF OwnStep, FilesKnown
  <2>2. \/ fs'.src[worker[v].src] = fs.src[worker[v].src]
        \/ Deletes(w) /\ worker[w].src = worker[v].src /\ fs'.src[worker[v].src] = Gone
    <3>1. CASE Deletes(w)
      BY <2>1, <3>1 DEF Deletes, TypeOK, Entries
    <3>2. QED BY <3>1, StepFrame DEF OwnStep
  <2>3. CASE Alone(v)
    <3>1. worker[w].pc = "idle"
      BY <1>1, <2>3 DEF Alone
    <3>2. Ends(w)
      BY <1>1, <3>1 DEF OwnStep, StepOf, Starts, Continues, Holds, Converts, Fails, Reconsiders,
                        RollsBack, Links, Commits, Decides, Proves, Deletes, Keeps, Stays
    <3>3. Alone(v)'
      BY <2>3, <3>2 DEF Alone, Ends, OwnStep
    <3>4. fs'.manifest = fs.manifest /\ fs'.src = fs.src
      BY <3>2 DEF Ends, Quiet, Shown
    <3>5. QED BY <1>1, <2>1, <3>3, <3>4 DEF RollbackJustified
  <2>4. CASE ~Alone(v)
    <3>1. fs.manifest \notin {NoFile, worker[v].file} \/ ~SourceIs(v)
      BY <1>1, <2>4 DEF RollbackJustified
    <3>2. fs'.manifest \notin {NoFile, worker'[v].file} \/ ~SourceIs(v)'
      BY <2>1, <2>2, <3>1, StepFrame DEF OwnStep, SourceIs
    <3>3. ASSUME worker[v].pc = "rollback", fs'.manifest = worker[v].file,
                 fs'.src[worker[v].src] = Gone
          PROVE  FALSE
      <4>1. CASE fs.src[worker[v].src] = Gone
        <5>1. fs.manifest # NoFile
          BY <2>1, <4>1 DEF GoneSettled
        <5>2. fs.manifest = worker[v].file
          BY <3>3, <5>1, StepFrame DEF OwnStep
        <5>3. QED BY <3>3, <4>1, <5>2 DEF RollbackJustified
      <4>2. CASE fs.src[worker[v].src] # Gone
        <5>1. Deletes(w) /\ worker[w].src = worker[v].src
          BY <2>2, <3>3, <4>2
        <5>2. worker[w].pc = "delete" /\ fs.manifest = worker[w].file
              /\ fs'.manifest = fs.manifest
          BY <5>1 DEF Deletes, DeletionProved
        <5>3. Origin(v) = Origin(w)
          BY <2>1, <3>3, <5>2 DEF FilesKnown
        <5>4. ~SourceIs(v)
          BY <2>1, <3>1, <3>3, <5>2
        <5>5. fs.src[worker[v].src] \in {Gone, worker[v].ver}
          BY <1>1, <5>2, <5>3 DEF VersionShared
        <5>6. QED BY <4>2, <5>4, <5>5 DEF SourceIs
      <4>3. QED BY <4>1, <4>2
    <3>4. QED BY <2>1, <3>2, <3>3
  <2>5. QED BY <2>3, <2>4
<1>2. ASSUME worker'[w].pc \in RollingBack
      PROVE  /\ Alone(w)' \/ fs'.manifest \notin {NoFile, worker'[w].file} \/ ~SourceIs(w)'
             /\ worker'[w].pc = "rollback" =>
                  ~(fs'.manifest = worker'[w].file /\ fs'.src[worker'[w].src] = Gone)
  <2>1. Fails(w) \/ Reconsiders(w) \/ RollsBack(w)
    BY <1>2 DEF OwnStep, StepOf, Ends, Starts, Continues, Holds, Converts, Links, Commits, Decides,
                Proves, Deletes, Keeps, Stays
  <2>2. /\ fs'.manifest = fs.manifest /\ fs'.src = fs.src
        /\ worker'[w].src = worker[w].src /\ worker'[w].ver = worker[w].ver
        /\ worker'[w].file = worker[w].file
    BY <2>1 DEF Fails, Reconsiders, RollsBack, Keeps, Stays, Quiet, Shown
  <2>3. Alone(w) => Alone(w)'
    BY DEF Alone, OwnStep
  <2>4. Alone(w) \/ fs.manifest \notin {NoFile, worker[w].file} \/ ~SourceIs(w)
    BY <2>1 DEF Fails, Reconsiders, RollsBack, RollbackJustified
  <2>5. ASSUME worker'[w].pc = "rollback"
        PROVE  ~(fs.manifest = worker[w].file /\ fs.src[worker[w].src] = Gone)
    <3>1. worker[w].pc = "failed" /\ ~Loads
      BY <2>1, <2>5 DEF Fails, Reconsiders, RollsBack, Keeps, Stays
    <3>2. worker[w].src \in Sources
      BY <3>1 DEF FilesKnown
    <3>3. QED BY <3>1, <3>2 DEF GoneSettled, Loads
  <2>6. QED BY <2>2, <2>3, <2>4, <2>5 DEF SourceIs
<1>3. ASSUME NEW v \in Workers, v # w, worker'[v].pc \in RollingBack
      PROVE  worker[v].pc \in RollingBack
  BY <1>3 DEF OwnStep
<1>4. QED BY <1>1, <1>2, <1>3 DEF RollbackJustified

-----------------------------------------------------------------------------
(* What happens around the workers. *)

\* A source is rewritten beside at most one worker, so none is shared.
LEMMA SourceChangesStep ==
  ASSUME ~FaultsWhenShared, TypeOK, IInv, NEW s \in Sources, SourceChanges(s)
  PROVE  IInv'
<1> USE Parts DEF IInv
<1>1. /\ fs.src[s] = 1 /\ UNCHANGED <<from, worker>>
      /\ fs'.src = [fs.src EXCEPT ![s] = 2] /\ disk'.src = [disk.src EXCEPT ![s] = 2]
      /\ fs'.manifest = fs.manifest /\ fs'.target = fs.target
      /\ disk'.manifest = disk.manifest /\ disk'.target = disk.target
  BY DEF SourceChanges, TypeOK, Entries
<1>2. \A x \in Sources : /\ fs'.src[x] = Gone <=> fs.src[x] = Gone
                         /\ disk'.src[x] = Gone => disk.src[x] = Gone
  BY <1>1 DEF TypeOK, Entries, Gone
<1>3. PICK only \in Workers : Alone(only)
  BY DEF SourceChanges
<1>4. \A v, w \in Workers : worker[v].pc # "idle" /\ worker[w].pc # "idle" => v = w
  BY <1>3 DEF Alone
<1>5. FilesKnown' /\ DiskBehind' /\ GoneSettled'
  BY <1>1, <1>2 DEF FilesKnown, DiskBehind, GoneSettled, Origin
<1>6. DeletionProved' /\ VersionShared'
  BY <1>1, <1>4 DEF DeletionProved, VersionShared
<1>7. ASSUME NEW v \in Workers, worker'[v].pc \in RollingBack
      PROVE  /\ Alone(v)'
             /\ worker'[v].pc = "rollback" =>
                  ~(fs'.manifest = worker'[v].file /\ fs'.src[worker'[v].src] = Gone)
  BY <1>1, <1>2, <1>4, <1>7 DEF Alone, FilesKnown, RollbackJustified
<1>8. QED BY <1>5, <1>6, <1>7 DEF RollbackJustified

\* A process that dies leaves the directory, or what is on disk: nothing of what
\* a deleted source relies on differs between the two.
LEMMA DiesStep ==
  ASSUME TypeOK, IInv, Crash \/ PowerLoss
  PROVE  IInv'
<1> USE Parts DEF IInv
<1>1. \A w \in Workers : worker'[w].pc = "idle"
  BY DEF Crash, PowerLoss, Dies, Resting
<1>2. from' = from
  BY DEF Crash, PowerLoss, Dies
<1>3. DeletionProved' /\ RollbackJustified' /\ VersionShared'
  BY <1>1 DEF DeletionProved, RollbackJustified, VersionShared
<1>4. CASE Crash
  BY <1>1, <1>2, <1>3, <1>4 DEF Crash, FilesKnown, DiskBehind, GoneSettled
<1>5. CASE PowerLoss
  <2>1. /\ disk' = fs' /\ fs'.target \in {fs.target, disk.target}
        /\ fs'.manifest \in {fs.manifest, disk.manifest}
        /\ \A s \in Sources : fs'.src[s] \in {fs.src[s], disk.src[s]}
    BY <1>5 DEF PowerLoss
  <2>2. FilesKnown' /\ DiskBehind'
    BY <1>1, <1>2, <2>1 DEF FilesKnown, DiskBehind
  <2>3. GoneSettled'
    BY <1>2, <2>1 DEF GoneSettled, DiskBehind
  <2>4. QED BY <1>3, <2>2, <2>3
<1>6. QED BY <1>4, <1>5

LEMMA IInvCorrect ==
  ASSUME ~FaultsWhenShared
  PROVE  Spec => []IInv
<1>1. Init => IInv
  <2> SUFFICES ASSUME Init PROVE IInv
    OBVIOUS
  <2>1. /\ fs.manifest = NoFile /\ disk.manifest = NoFile
        /\ \A s \in Sources : fs.src[s] # Gone /\ disk.src[s] # Gone
        /\ \A w \in Workers : worker[w].pc = "idle"
    BY DEF Init, Gone, Resting
  <2>2. QED
    BY <2>1, Parts DEF IInv, FilesKnown, DiskBehind, GoneSettled, DeletionProved,
                       RollbackJustified, VersionShared
<1>2. TypeOK /\ IInv /\ [Next]_vars => IInv'
  <2> SUFFICES ASSUME TypeOK, IInv, [Next]_vars PROVE IInv'
    OBVIOUS
  <2>1. ASSUME NEW w \in Workers, Execute(w) PROVE IInv'
    <3>1. OwnStep(w)
      BY <2>1, StepKinds
    <3>2. QED
      BY <3>1, FilesKnownStep, DiskBehindStep, GoneSettledStep, DeletionProvedStep,
         RollbackJustifiedStep, VersionSharedStep DEF IInv
  <2>2. CASE UNCHANGED vars
    BY <2>2 DEF vars, IInv, FilesKnown, DiskBehind, GoneSettled, DeletionProved, RollbackJustified,
                VersionShared, Loads, Alone, SourceIs, Origin
  <2>3. QED BY <2>1, <2>2, SourceChangesStep, DiesStep DEF Next
<1>3. QED BY <1>1, <1>2, TypeCorrect, PTL DEF Spec

\* Whatever crashes, loses power or runs at the same time, source and product are
\* never both lost, as long as faults come where only one worker is active.
THEOREM NeverLoseBothCorrect ==
  ASSUME ~FaultsWhenShared
  PROVE  Spec => []NeverLoseBoth
<1>1. IInv => NeverLoseBoth
  BY DEF IInv, GoneSettled, NeverLoseBoth
<1>2. QED BY <1>1, IInvCorrect, PTL

-----------------------------------------------------------------------------
(* The refinement: a product stands from the link that completes it. *)

\* What stands is the product of a source, and while none stands no source is gone.
LEMMA Standing ==
  ASSUME TypeOK, IInv
  PROVE  /\ None \notin Sources /\ product \in Sources \cup {None} /\ present \subseteq Sources
         /\ product = None => present = Sources
         /\ product # None <=> fs.manifest # NoFile /\ fs.target = fs.manifest
         /\ fs.manifest # NoFile /\ fs.target = fs.manifest => product = from[fs.manifest].src
         /\ \A s \in Sources \ present : product = s
BY PublicationAssumption DEF IInv, FilesKnown, GoneSettled, product, present

\* What a directory shows decides what stands and what is there.
LEMMA SameShown ==
  ASSUME TypeOK, IInv, Shown(fs') = Shown(fs),
         fs.manifest # NoFile => from'[fs.manifest].src = from[fs.manifest].src
  PROVE  UNCHANGED <<present, product>>
BY DEF Shown, present, product

\* Each step of a worker is a publication, its undoing, a deletion, or nothing.
LEMMA ExecuteAtomic ==
  ASSUME TypeOK, IInv, NEW w \in Workers, OwnStep(w)
  PROVE  [Atomic!Next]_(Atomic!vars)
<1> USE Parts, Standing DEF IInv
<1>0. NoFile \notin Files
  BY Numbers
<1>1. fs.manifest # NoFile => from'[fs.manifest] = from[fs.manifest]
  <2>1. fs.manifest # NoFile => fs.manifest \in Files /\ from[fs.manifest] # Unused
    BY PublicationAssumption DEF TypeOK, Entries, FilesKnown, Unused
  <2>2. QED BY <2>1, StepFrame DEF OwnStep
<1>2. CASE Shown(fs') = Shown(fs)
  BY <1>1, <1>2, SameShown DEF Atomic!vars
<1>3. ASSUME fs'.src = fs.src, from' = from, product = None,
             product' \in Sources \cup {None}
      PROVE  [Atomic!Next]_(Atomic!vars)
  <2>1. present' = present /\ present = Sources
    BY <1>3 DEF present
  <2>2. CASE product' = None
    BY <1>3, <2>1, <2>2 DEF Atomic!vars
  <2>3. CASE product' \in Sources
    BY <1>3, <2>1, <2>3 DEF Atomic!Next, Atomic!Publish
  <2>4. QED BY <1>3, <2>2, <2>3
<1>4. CASE Links(w) \/ Commits(w)
  <2>1. /\ worker[w].pc \in Filed /\ fs'.src = fs.src /\ from' = from
        /\ worker[w].file \in Files /\ from[worker[w].file].src \in Sources
    BY <1>4, Origins DEF Links, Commits, Alike, FilesKnown
  <2>2. /\ fs.manifest # NoFile => fs'.manifest = fs.manifest
        /\ fs.target # NoFile => fs'.target = fs.target
        /\ fs'.manifest = fs.manifest \/ fs'.manifest = worker[w].file
    BY <1>4 DEF Links, Commits
  <2>3. CASE product # None
    BY <1>0, <1>2, <2>1, <2>2, <2>3 DEF Shown, FilesKnown, TypeOK, Entries
  <2>4. CASE product = None
    <3>1. product' \in Sources \cup {None}
      BY <2>1, <2>2 DEF product, FilesKnown
    <3>2. QED BY <1>3, <2>1, <2>4, <3>1
  <2>5. QED BY <2>3, <2>4
<1>5. CASE RollsBack(w)
  <2>1. /\ worker[w].pc = "rollback" /\ fs.target \in {NoFile, worker[w].file}
        /\ fs'.target = NoFile /\ fs'.src = fs.src /\ fs'.manifest = fs.manifest
        /\ from' = from /\ worker[w].file \in Files
        /\ from[worker[w].file].src = worker[w].src /\ worker[w].src \in Sources
    BY <1>5, Origins DEF RollsBack, Alike, FilesKnown
  <2>2. product' = None /\ present' = present
    BY <2>1 DEF product, present
  <2>3. CASE product = None
    BY <2>2, <2>3 DEF Atomic!vars
  <2>4. CASE product # None
    <3>1. fs.manifest = worker[w].file /\ product = worker[w].src
      BY <2>1, <2>4
    <3>2. product \in present
      BY <2>1, <3>1 DEF RollbackJustified, present
    <3>3. QED BY <2>2, <3>2 DEF Atomic!Next, Atomic!Undo
  <2>5. QED BY <2>3, <2>4
<1>6. CASE Deletes(w)
  <2>1. /\ worker[w].pc = "delete" /\ fs'.src = [fs.src EXCEPT ![worker[w].src] = Gone]
        /\ fs'.target = fs.target /\ fs'.manifest = fs.manifest /\ from' = from
        /\ fs.manifest = worker[w].file /\ fs.target = worker[w].file
        /\ worker[w].file \in Files /\ from[worker[w].file].src = worker[w].src
        /\ worker[w].src \in Sources
    BY <1>6, Origins DEF Deletes, Alike, FilesKnown, DeletionProved
  <2>2. product = worker[w].src /\ product' = product
    BY <1>0, <2>1 DEF product
  <2>3. present' = present \ {worker[w].src}
    BY <2>1 DEF present, TypeOK, Entries
  <2>4. QED BY <2>2, <2>3 DEF Atomic!Next, Atomic!DeleteSource, Atomic!vars
<1>7. Quiet => Shown(fs') = Shown(fs)
  BY DEF Quiet
<1>8. QED
  BY <1>2, <1>4, <1>5, <1>6, <1>7 DEF OwnStep, StepOf, Ends, Starts, Continues, Holds, Converts,
                                      Fails, Reconsiders, Decides, Proves

\* A loss of power may take back what was not synced: a product whose source is there,
\* or the removal of a source, never a product whose source is gone.
LEMMA PowerLossAtomic ==
  ASSUME TypeOK, IInv, PowerLoss
  PROVE  [Atomic!Next]_(Atomic!vars)
<1> USE Standing DEF IInv
<1>1. /\ from' = from /\ fs'.target \in {fs.target, disk.target}
      /\ fs'.manifest \in {fs.manifest, disk.manifest}
      /\ \A s \in Sources : fs'.src[s] \in {fs.src[s], disk.src[s]}
  BY DEF PowerLoss, Dies
<1>2. \A s \in present : fs'.src[s] # Gone
  BY <1>1 DEF DiskBehind, present
<1>3. present \subseteq present' /\ present' \subseteq Sources
  BY <1>2 DEF present
<1>4. CASE present = Sources
  <2>1. present' = present
    BY <1>3, <1>4
  <2>2. product' \in Sources \cup {None}
    BY <1>1 DEF product, FilesKnown, DiskBehind
  <2>3. product # None /\ product' # None => product' = product
    BY <1>1, PublicationAssumption DEF product, DiskBehind
  <2>4. CASE product' = product
    BY <2>1, <2>4 DEF Atomic!vars
  <2>5. CASE product = None /\ product' \in Sources
    BY <1>4, <2>1, <2>5 DEF Atomic!Next, Atomic!Publish
  <2>6. CASE product # None /\ product' = None
    BY <1>4, <2>1, <2>6 DEF Atomic!Next, Atomic!Undo
  <2>7. QED BY <2>2, <2>3, <2>4, <2>5, <2>6
<1>5. CASE present # Sources
  <2>1. PICK s \in Sources : s \notin present
    BY <1>5
  <2>2. /\ product = s /\ present = Sources \ {s}
        /\ fs.manifest # NoFile /\ fs.target = fs.manifest
        /\ disk.manifest = fs.manifest /\ disk.target = fs.manifest
    BY <2>1 DEF GoneSettled, present
  <2>3. product' = product
    BY <1>1, <2>2 DEF product
  <2>4. present' = present \/ present' = present \cup {s}
    BY <1>3, <2>2
  <2>5. QED BY <2>1, <2>2, <2>3, <2>4 DEF Atomic!Next, Atomic!Restore, Atomic!vars
<1>6. QED BY <1>4, <1>5

LEMMA NextAtomic ==
  ASSUME ~FaultsWhenShared, TypeOK, IInv, [Next]_vars
  PROVE  [Atomic!Next]_(Atomic!vars)
<1>1. ASSUME NEW w \in Workers, Execute(w) PROVE [Atomic!Next]_(Atomic!vars)
  BY <1>1, StepKinds, ExecuteAtomic
<1>2. ASSUME NEW s \in Sources, SourceChanges(s) PROVE [Atomic!Next]_(Atomic!vars)
  <2>1. /\ fs.src[s] = 1 /\ fs'.src = [fs.src EXCEPT ![s] = 2] /\ from' = from
        /\ fs'.manifest = fs.manifest /\ fs'.target = fs.target
    BY <1>2 DEF SourceChanges, TypeOK, Entries
  <2>2. \A x \in Sources : fs'.src[x] = Gone <=> fs.src[x] = Gone
    BY <2>1 DEF TypeOK, Entries, Gone
  <2>3. present' = present /\ product' = product
    BY <2>1, <2>2 DEF present, product
  <2>4. QED BY <2>3 DEF Atomic!vars
<1>3. CASE Crash \/ UNCHANGED vars
  <2>1. Shown(fs') = Shown(fs) /\ from' = from
    BY <1>3 DEF Crash, Dies, vars, Shown
  <2>2. QED BY <2>1, SameShown DEF Atomic!vars
<1>4. QED BY <1>1, <1>2, <1>3, PowerLossAtomic DEF Next

\* Links, syncs, removals, recoveries and crashes implement a publication that happens
\* in one step and a deletion that needs it.
THEOREM PublishesAtomicallyCorrect ==
  ASSUME ~FaultsWhenShared
  PROVE  Spec => PublishesAtomically
<1>1. Init => Atomic!Init
  BY DEF Init, Atomic!Init, present, product, Gone
<1>2. TypeOK /\ IInv /\ [Next]_vars => [Atomic!Next]_(Atomic!vars)
  BY NextAtomic
<1>3. QED
  BY <1>1, <1>2, TypeCorrect, IInvCorrect, PTL DEF Spec, PublishesAtomically, Atomic!Spec
=============================================================================
