------------------------- MODULE PlaybackPublication -------------------------
(***************************************************************************)
(* The publication of an MP4 and the deletion of its source:               *)
(* pkg/playbackasset (publish.go, source_delete.go, manifest.go), driven   *)
(* by the convert_mp4 stage (pipeline/stages/convert_mp4.go).  One target, *)
(* and the sources whose name leads to it (clip.flv and clip.ts both give  *)
(* clip.mp4).  A step is one file operation with the checks before it;     *)
(* between two steps other workers act, the process dies, or power fails.  *)
(*                                                                         *)
(* A file is its inode.  Intent, manifest and deletion intent name source, *)
(* source version and target: all three follow from the inode that the     *)
(* conversion produced, so each is represented by that inode.              *)
(***************************************************************************)
EXTENDS Naturals, FiniteSets

CONSTANTS
  Sources,
  Workers,           \* pipeline tasks at work at the same time
  MaxFiles,          \* conversions (bound of the model)
  MaxCrashes,        \* crashes (bound of the model)
  Faults,            \* a sync or a save may fail, and a source may be rewritten
  FaultsWhenShared,  \* ... also beside other workers, in between their steps
  None

ASSUME PublicationAssumption ==
  /\ MaxFiles \in Nat /\ MaxCrashes \in Nat
  /\ Faults \in BOOLEAN /\ FaultsWhenShared \in BOOLEAN
  /\ None \notin Sources

Files    == 1..MaxFiles
NoFile   == 0
Foreign  == MaxFiles + 1      \* a file at the target that no conversion made
Versions == 1..2
Gone     == 0                 \* the version of a source that was deleted

VARIABLES
  fs,      \* the directory as programs see it
  disk,    \* the directory as it was last synced
  from,    \* the source and version each file was converted from
  worker,
  crashes

vars == <<fs, disk, from, worker, crashes>>

\* fs.src: version of each source.  fs.target: the file at the target path.
\* fs.temps: the .converting-* files.  fs.intent, fs.manifest, fs.deletion:
\* .publishing.json, .playback.json and .deleting-source.json of the target.
Entries == [src : [Sources -> {Gone} \cup Versions], target : {NoFile, Foreign} \cup Files,
            temps : SUBSET Files, intent : {NoFile} \cup Files,
            manifest : {NoFile} \cup Files, deletion : {NoFile} \cup Files]

Unused  == [src |-> None, ver |-> Gone]
Resting == [pc |-> "idle", src |-> None, ver |-> Gone, del |-> FALSE,
            file |-> NoFile, own |-> FALSE, missing |-> FALSE]

Init ==
  /\ \E t \in {NoFile, Foreign} :
       fs = [src |-> [s \in Sources |-> 1], target |-> t, temps |-> {},
             intent |-> NoFile, manifest |-> NoFile, deletion |-> NoFile]
  /\ disk = fs
  /\ from = [f \in Files |-> Unused]
  /\ worker = [w \in Workers |-> Resting]
  /\ crashes = 0

------------------------------------------------------------------------------
\* Load: the manifest, its target and, if it is there, its source agree.
Loads ==
  /\ fs.manifest # NoFile /\ fs.target = fs.manifest
  /\ fs.src[from[fs.manifest].src] \in {Gone, from[fs.manifest].ver}

Alone(w)  == \A o \in Workers \ {w} : worker[o].pc = "idle"
\* The source of the file is as it was converted.
Current(f) == from[f] # Unused /\ fs.src[from[f].src] = from[f].ver

HalfRolledBack(w) == worker[w].pc = "rolledback"
RollingBack == {"failed", "rollback", "rolledback"}
Failing(w) == Faults /\ (FaultsWhenShared \/ Alone(w))

At(w, pc)    == worker[w].pc = pc
Goes(w, pc)  == worker' = [worker EXCEPT ![w].pc = pc]
SourceIs(w)  == fs.src[worker[w].src] = worker[w].ver
Origin(w)    == [src |-> worker[w].src, ver |-> worker[w].ver]
Directory(d) == fs' = d /\ UNCHANGED <<disk, from, crashes>>
Reads        == UNCHANGED <<fs, disk, from, crashes>>
Syncs        == disk' = fs /\ UNCHANGED <<fs, from, crashes>>

\* An error ends the stage; the deferred Remove takes its temporary file.
WithoutTemp(w, d) ==
  IF worker[w].own THEN [d EXCEPT !.temps = @ \ {worker[w].file}] ELSE d
Aborts(w, d) == worker' = [worker EXCEPT ![w] = Resting] /\ Directory(WithoutTemp(w, d))
Error(w) == Aborts(w, fs)

\* removePublicationFile: it goes if it is the same file, and may be gone.
Removable(entry, f) == entry \in {NoFile, f}
WithoutIntent(f) == [fs EXCEPT !.intent = IF @ = f THEN NoFile ELSE @]

------------------------------------------------------------------------------
(***************************************************************************)
(* Execute, up to the publication.                                         *)
(***************************************************************************)
Start(w, s, del) ==
  /\ At(w, "idle")
  /\ FaultsWhenShared \/ \A o \in Workers : worker[o].pc \notin RollingBack
  /\ \/ /\ fs.src[s] # Gone
        /\ worker' = [worker EXCEPT ![w] = [Resting EXCEPT
                        !.pc = "recover", !.src = s, !.ver = fs.src[s], !.del = del]]
     \/ \* RecoverSourceDeletion
        /\ fs.src[s] = Gone /\ del
        /\ Loads /\ from[fs.manifest].src = s /\ fs.deletion = fs.manifest
        /\ worker' = [worker EXCEPT ![w] = [Resting EXCEPT
                        !.pc = "deleted", !.src = s, !.del = del, !.file = fs.manifest]]
  /\ Reads

\* RecoverPublication reads the intent, and checks what it names.
ReadIntent(w) ==
  LET f == fs.intent
      usable == /\ from[f] = Origin(w) /\ SourceIs(w)
                /\ fs.target = f \/ (fs.target = NoFile /\ f \in fs.temps)
  IN  /\ At(w, "recover")
      /\ \/ f = NoFile /\ Goes(w, "check") /\ Reads
         \/ /\ f # NoFile /\ usable
            /\ worker' = [worker EXCEPT ![w].pc = "validate", ![w].file = f,
                                        ![w].missing = (fs.target = NoFile)]
            /\ Reads
         \/ f # NoFile /\ ~usable /\ Error(w)

\* The media is validated; then the same file must still be there, and is
\* linked if the target was missing.
Validate(w) ==
  LET f == worker[w].file
  IN  /\ At(w, "validate")
      /\ \/ /\ ~worker[w].missing /\ fs.target = f
            /\ Goes(w, "save") /\ Reads
         \/ /\ worker[w].missing /\ f \in fs.temps /\ fs.target \in {NoFile, f}
            /\ Goes(w, "save") /\ Directory([fs EXCEPT !.target = f])
         \/ /\ \/ Failing(w)
               \/ ~worker[w].missing /\ fs.target # f
               \/ worker[w].missing /\ (f \notin fs.temps \/ fs.target \notin {NoFile, f})
            /\ Error(w)

\* A product that stands is reused if its manifest names this source.
CheckTarget(w) ==
  /\ At(w, "check")
  /\ \/ fs.target = NoFile /\ Goes(w, "convert") /\ Reads
     \/ /\ fs.target # NoFile /\ Loads /\ from[fs.manifest].src = worker[w].src
        /\ Goes(w, "emit") /\ Reads
     \/ /\ fs.target # NoFile /\ ~(Loads /\ from[fs.manifest].src = worker[w].src)
        /\ Error(w)

\* ffmpeg writes a temporary file, which is validated and synced.
Convert(w) ==
  /\ At(w, "convert")
  /\ \/ \E f \in Files :
          /\ SourceIs(w)
          /\ from[f] = Unused /\ \A g \in 1..(f - 1) : from[g] # Unused
          /\ from' = [from EXCEPT ![f] = Origin(w)]
          /\ fs' = [fs EXCEPT !.temps = @ \cup {f}]
          /\ worker' = [worker EXCEPT ![w].pc = "publish", ![w].file = f, ![w].own = TRUE]
          /\ UNCHANGED <<disk, crashes>>
     \/ (~SourceIs(w) \/ Failing(w)) /\ Error(w)

------------------------------------------------------------------------------
(***************************************************************************)
(* publishValidated and finishPublication.                                 *)
(***************************************************************************)
LinkIntentToSource(w) ==     \* mutant: names the source, not the product
  /\ At(w, "publish") /\ fs.intent = NoFile
  /\ Goes(w, "intended") /\ Directory([fs EXCEPT !.intent = worker[w].src])

LinkIntent(w) ==
  /\ At(w, "publish")
  /\ \/ /\ SourceIs(w) /\ fs.intent = NoFile
        /\ Goes(w, "intended") /\ Directory([fs EXCEPT !.intent = worker[w].file])
     \/ (~SourceIs(w) \/ fs.intent # NoFile) /\ Error(w)

SyncIntentKeeping(w) ==      \* mutant: a failed sync leaves the intent behind
  /\ At(w, "intended")
  /\ \/ Goes(w, "link") /\ Syncs
     \/ Failing(w) /\ Error(w)

SyncIntent(w) ==
  /\ At(w, "intended")
  /\ \/ Goes(w, "link") /\ Syncs
     \/ Failing(w) /\ Aborts(w, WithoutIntent(worker[w].file))

RenameToTarget(w) ==         \* mutant: os.Rename, which replaces a file
  /\ At(w, "link")
  /\ Goes(w, "save") /\ Directory([fs EXCEPT !.target = worker[w].file])

\* os.Link never replaces a file; only the same one may be there already.
LinkTarget(w) ==
  LET f == worker[w].file
  IN  /\ At(w, "link")
      /\ \/ fs.target \in {NoFile, f} /\ Goes(w, "save") /\ Directory([fs EXCEPT !.target = f])
         \/ fs.target \notin {NoFile, f} /\ Aborts(w, WithoutIntent(f))

\* finishPublication looks at the target, saveManifest at source and manifest.
CheckSave(w) ==
  LET f == worker[w].file
  IN  /\ At(w, "save")
      /\ \/ fs.target # f /\ Error(w)
         \/ /\ fs.target = f /\ SourceIs(w) /\ fs.manifest = NoFile
            /\ Goes(w, "commit") /\ Reads
         \/ /\ fs.target = f /\ SourceIs(w) /\ fs.manifest = f
            /\ Goes(w, "committed") /\ Reads
         \/ /\ fs.target = f
            /\ ~SourceIs(w) \/ fs.manifest \notin {NoFile, f} \/ Failing(w)
            /\ Goes(w, "failed") /\ Reads

LinkManifest(w) ==
  LET f == worker[w].file
  IN  /\ At(w, "commit")
      /\ \/ fs.manifest \in {NoFile, f} /\ Goes(w, "committed") /\ Directory([fs EXCEPT !.manifest = f])
         \/ (fs.manifest \notin {NoFile, f} \/ Failing(w)) /\ Goes(w, "failed") /\ Reads

RollBackAtOnce(w) ==         \* mutant: does not look for another's commit
  At(w, "failed") /\ Goes(w, "rollback") /\ Reads

\* The manifest could not be saved: somebody has committed the same product,
\* somebody has committed another one, or this one is rolled back.
Reconsider(w) ==
  /\ At(w, "failed")
  /\ \/ Loads /\ fs.manifest = worker[w].file /\ Goes(w, "finish") /\ Reads
     \/ Loads /\ fs.manifest # worker[w].file /\ Error(w)
     \/ ~Loads /\ Goes(w, "rollback") /\ Reads

RollBackTarget(w) ==
  LET f == worker[w].file
  IN  /\ At(w, "rollback")
      /\ \/ Removable(fs.target, f) /\ Goes(w, "rolledback") /\ Directory([fs EXCEPT !.target = NoFile])
         \/ ~Removable(fs.target, f) /\ Error(w)

RollBackIntent(w) ==
  /\ At(w, "rolledback")
  /\ Aborts(w, WithoutIntent(worker[w].file))

SyncManifest(w) ==
  /\ At(w, "committed")
  /\ \/ Goes(w, "finish") /\ Syncs
     \/ Failing(w) /\ Error(w)

RemoveIntent(w) ==
  LET f == worker[w].file
  IN  /\ At(w, "finish")
      /\ \/ Removable(fs.intent, f) /\ Goes(w, "finished") /\ Directory([fs EXCEPT !.intent = NoFile])
         \/ ~Removable(fs.intent, f) /\ Error(w)

\* The directory is synced and the temporary file removed: the publisher goes
\* on, a recovery looks at the target it has restored.
SyncFinished(w) ==
  /\ At(w, "finished")
  /\ \/ /\ disk' = fs
        /\ fs' = [fs EXCEPT !.temps = @ \ {worker[w].file}]
        /\ Goes(w, IF worker[w].own THEN "emit" ELSE "check")
        /\ UNCHANGED <<from, crashes>>
     \/ Failing(w) /\ Error(w)

------------------------------------------------------------------------------
(***************************************************************************)
(* DeleteSourceValidated, finishSourceDeletion.                            *)
(***************************************************************************)
Emit(w) ==
  LET m == fs.manifest
  IN  /\ At(w, "emit")
      /\ \/ ~worker[w].del /\ Error(w)     \* nothing to delete: the stage ends
         \/ /\ worker[w].del /\ Loads /\ from[m] = Origin(w) /\ fs.deletion \in {NoFile, m}
            /\ worker' = [worker EXCEPT ![w].pc = "deleting", ![w].file = m, ![w].own = FALSE]
            /\ Directory([fs EXCEPT !.deletion = m])
         \/ /\ worker[w].del /\ ~(Loads /\ from[m] = Origin(w) /\ fs.deletion \in {NoFile, m})
            /\ Error(w)

SyncDeletion(w) ==
  /\ At(w, "deleting")
  /\ \/ Goes(w, "recheck") /\ Syncs
     \/ Failing(w) /\ Error(w)

Recheck(w) ==
  /\ At(w, "recheck")
  /\ \/ Loads /\ fs.manifest = worker[w].file /\ Goes(w, "delete") /\ Reads
     \/ ~(Loads /\ fs.manifest = worker[w].file) /\ Error(w)

RemoveSource(w) ==
  /\ At(w, "delete")
  /\ \/ /\ Removable(fs.src[worker[w].src], worker[w].ver)
        /\ Goes(w, "deleted")
        /\ Directory([fs EXCEPT !.src[worker[w].src] = Gone])
     \/ ~Removable(fs.src[worker[w].src], worker[w].ver) /\ Error(w)

SyncDeleted(w) ==
  /\ At(w, "deleted")
  /\ \/ Goes(w, "forget") /\ Syncs
     \/ Failing(w) /\ Error(w)

RemoveDeletion(w) ==
  /\ At(w, "forget")
  /\ \/ Removable(fs.deletion, worker[w].file) /\ Goes(w, "over")
        /\ Directory([fs EXCEPT !.deletion = NoFile])
     \/ ~Removable(fs.deletion, worker[w].file) /\ Error(w)

SyncOver(w) ==
  /\ At(w, "over")
  /\ \/ worker' = [worker EXCEPT ![w] = Resting] /\ Syncs
     \/ Failing(w) /\ Error(w)

------------------------------------------------------------------------------
\* Another program rewrites a source, and syncs it.
SourceChanges(s) ==
  /\ Faults /\ fs.src[s] = 1
  /\ FaultsWhenShared \/ (\E w \in Workers : Alone(w))
  /\ fs' = [fs EXCEPT !.src[s] = 2] /\ disk' = [disk EXCEPT !.src[s] = 2]
  /\ UNCHANGED <<from, worker, crashes>>

Dies ==
  /\ crashes < MaxCrashes /\ crashes' = crashes + 1
  /\ worker' = [w \in Workers |-> Resting]
  /\ UNCHANGED from

Crash == Dies /\ UNCHANGED <<fs, disk>>

\* Each directory entry is found as it is or as it was last synced.
PowerLoss ==
  /\ Dies
  /\ fs' \in {d \in [src : {[s \in Sources |-> fs.src[s]], [s \in Sources |-> disk.src[s]]},
                     target : {fs.target, disk.target},
                     temps : {fs.temps, disk.temps, fs.temps \cap disk.temps, fs.temps \cup disk.temps},
                     intent : {fs.intent, disk.intent},
                     manifest : {fs.manifest, disk.manifest},
                     deletion : {fs.deletion, disk.deletion}] : d # fs}
  /\ disk' = fs'

Execute(w) ==
  \/ \E s \in Sources, del \in BOOLEAN : Start(w, s, del)
  \/ ReadIntent(w) \/ Validate(w) \/ CheckTarget(w) \/ Convert(w)
  \/ LinkIntent(w) \/ SyncIntent(w) \/ LinkTarget(w) \/ CheckSave(w)
  \/ LinkManifest(w) \/ Reconsider(w) \/ RollBackTarget(w) \/ RollBackIntent(w)
  \/ SyncManifest(w) \/ RemoveIntent(w) \/ SyncFinished(w)
  \/ Emit(w) \/ SyncDeletion(w) \/ Recheck(w) \/ RemoveSource(w)
  \/ SyncDeleted(w) \/ RemoveDeletion(w) \/ SyncOver(w)

Next ==
  \/ \E w \in Workers : Execute(w)
  \/ \E s \in Sources : SourceChanges(s)
  \/ Crash \/ PowerLoss

Spec == Init /\ [][Next]_vars

------------------------------------------------------------------------------
TypeOK ==
  /\ fs \in Entries /\ disk \in Entries
  /\ from \in [Files -> [src : Sources \cup {None}, ver : {Gone} \cup Versions]]
  /\ worker \in [Workers ->
       [pc : {"idle", "recover", "validate", "check", "convert", "publish", "intended",
              "link", "save", "commit", "failed", "rollback", "rolledback", "committed",
              "finish", "finished", "emit", "deleting", "recheck", "delete", "deleted",
              "forget", "over"},
        src : Sources \cup {None}, ver : {Gone} \cup Versions, del : BOOLEAN,
        file : {NoFile} \cup Files, own : BOOLEAN, missing : BOOLEAN]]
  /\ crashes \in 0..MaxCrashes

\* A source is gone only while the product made of it stands at the target
\* with the manifest that says so: never are both lost, wherever a worker dies or
\* the power fails and whoever runs at the same time, provided that no sync or save
\* fails and no source is rewritten while two workers are active, and that nobody
\* starts during a rollback (FaultsWhenShared = FALSE).  Without that the code does
\* lose both: CommittedNotRolledBack shows how.
NeverLoseBoth ==
  \A s \in Sources :
    fs.src[s] = Gone => /\ fs.manifest # NoFile /\ fs.target = fs.manifest
                        /\ from[fs.manifest].src = s

\* While a source is as it was converted, its manifest lacks its target only
\* where intent and temporary file are there to put the target back, and its
\* intent finds the file it names, unless a file of somebody else stands at
\* the target, or a rollback is about to take the intent away.
Recoverable ==
  \A f \in Files : Current(f) =>
    /\ fs.manifest = f => fs.target = f \/ (fs.intent = f /\ f \in fs.temps)
    /\ fs.intent = f => \/ fs.target \in {Foreign, f} \/ f \in fs.temps
                        \/ \E w \in Workers : HalfRolledBack(w) /\ worker[w].file = f

\* Whatever workers leave behind, by an error, the loss of power or the end of
\* the process, stays recoverable: unless that comes before the intent was
\* synced, when a sync failed and the temporary file is gone, when the intent of
\* a manifest was removed before the manifest was synced (a recovery that meets
\* an unsynced commit does so), or halfway through a rollback.  Failures are as in
\* NeverLoseBoth: none beside another worker.
StaysRecoverable ==
  [][Recoverable =>
       \/ Recoverable'
       \/ /\ crashes' > crashes
          /\ \/ disk.intent # fs.intent \/ fs.intent \in disk.temps \ fs.temps
             \/ fs.manifest \notin {disk.manifest, fs.intent}
             \/ \E w \in Workers : HalfRolledBack(w)]_vars

(***************************************************************************)
(* The publication as one step: a product stands when its manifest and its *)
(* target do.                                                              *)
(***************************************************************************)
present == {s \in Sources : fs.src[s] # Gone}
product == IF fs.manifest # NoFile /\ fs.target = fs.manifest
           THEN from[fs.manifest].src ELSE None

\* What the recovery plan requires: once one worker has committed a product and
\* deleted its source, no other worker rolls that product back.
CommittedNotRolledBack ==
  [][\A w \in Workers :
       RollBackTarget(w) /\ product \in Sources \ present => fs'.target = fs.target]_vars

Atomic == INSTANCE AtomicPublication WITH present <- present, product <- product

\* Links, syncs, removals, recoveries and crashes implement a publication
\* that happens in one step and a deletion that needs it, under the assumption of
\* NeverLoseBoth on failures.
PublishesAtomically == Atomic!Spec
==============================================================================
