-------------------------- MODULE Migration_proofs --------------------------
(***************************************************************************)
(* Proofs about Migration: what retention keeps and the latest pointer     *)
(* names, a restore empties the database only behind a stopped server, and *)
(* posts keep their attachments while nothing fails, for any PCs, backups  *)
(* under way and bounds.                                                   *)
(***************************************************************************)
EXTENDS Migration, FiniteSetTheorems, TLAPS

-----------------------------------------------------------------------------
(* Types *)

\* No backup is a backup; tearing one or adding its attachments makes a backup of
\* it that is the same in all else.
LEMMA NoBackupType == NoBackup \in Backup
BY DEF NoBackup, Backup

LEMMA TornType ==
  ASSUME NEW b \in Backup
  PROVE  Torn(b) \in Backup /\ Torn(b).stamp = b.stamp /\ ~Torn(b).sound
<1>1. Torn(b) \in Backup
      BY DEF Torn, Backup
<1>2. Torn(b).stamp = b.stamp /\ ~Torn(b).sound
      BY DEF Torn, Backup
<1> QED BY <1>1, <1>2

LEMMA FilesType ==
  ASSUME NEW b \in Backup, NEW S \in SUBSET Nat
  PROVE  LET c == [b EXCEPT !.files = S] IN
           c \in Backup /\ c.stamp = b.stamp /\ c.sound = b.sound /\ c.pg = b.pg /\ c.files = S
<1> DEFINE c == [b EXCEPT !.files = S]
<1>1. c \in Backup
      BY DEF Backup
<1>2. c.stamp = b.stamp /\ c.sound = b.sound /\ c.pg = b.pg /\ c.files = S
      BY DEF Backup
<1> QED BY <1>1, <1>2

LEMMA FingerprintType == ASSUME NEW b \in Backup PROVE backup_fingerprint(b) \in Nat \X BOOLEAN
BY DEF backup_fingerprint, Backup

\* Setting what one job of one PC has.
LEMMA JobSet ==
  ASSUME NEW S, NEW f \in [PC -> [Job -> S]], NEW p \in PC, NEW j \in Job, NEW v \in S
  PROVE  LET g == [f EXCEPT ![p][j] = v] IN
           /\ g \in [PC -> [Job -> S]]
           /\ g[p][j] = v
           /\ \A i \in Job \ {j} : g[p][i] = f[p][i]
           /\ \A q \in PC \ {p} : g[q] = f[q]
OBVIOUS

\* A job goes to another step, or ends.
LEMMA StepSets ==
  ASSUME TypeOK, NEW p \in PC, NEW j \in Job, NEW s \in BackupSteps, Step(p, j, s)
  PROVE  /\ bpc' \in [PC -> [Job -> BackupSteps]]
         /\ bpc'[p][j] = s
         /\ \A i \in Job \ {j} : bpc'[p][i] = bpc[p][i]
         /\ \A q \in PC \ {p} : bpc'[q] = bpc[q]
<1>1. bpc \in [PC -> [Job -> BackupSteps]] /\ bpc' = [bpc EXCEPT ![p][j] = s]
      BY DEF TypeOK, Step
<1> QED BY <1>1, JobSet

LEMMA EndSets ==
  ASSUME TypeOK, NEW p \in PC, NEW j \in Job, EndJob(p, j)
  PROVE  /\ bpc' \in [PC -> [Job -> BackupSteps]] /\ draft' \in [PC -> [Job -> Backup]]
         /\ bpc'[p][j] = "idle"
         /\ \A i \in Job \ {j} : bpc'[p][i] = bpc[p][i] /\ draft'[p][i] = draft[p][i]
         /\ \A q \in PC \ {p} : bpc'[q] = bpc[q] /\ draft'[q] = draft[q]
<1>1. draft \in [PC -> [Job -> Backup]] /\ draft' = [draft EXCEPT ![p][j] = NoBackup]
      BY DEF TypeOK, EndJob
<1>2. Step(p, j, "idle") /\ "idle" \in BackupSteps
      BY DEF EndJob, BackupSteps
<1>3. /\ draft' \in [PC -> [Job -> Backup]]
      /\ \A i \in Job \ {j} : draft'[p][i] = draft[p][i]
      /\ \A q \in PC \ {p} : draft'[q] = draft[q]
      BY <1>1, JobSet, NoBackupType
<1> QED BY <1>2, <1>3, StepSets

\* The retention takes a subset, and keeps an archive that none is newer than.
LEMMA RotateKeepsNewest ==
  ASSUME NEW S \in SUBSET Backup, NEW b \in S, \A c \in S : c.stamp <= b.stamp
  PROVE  b \in rotate_backups(S)
<1>1. {c \in S : c.stamp > b.stamp} = {}
      BY DEF Backup
<1>2. Cardinality({c \in S : c.stamp > b.stamp}) = 0
      BY <1>1, FS_EmptySet
<1> QED BY <1>2, MigrationOK DEF rotate_backups

LEMMA TypeInit == Init => TypeOK
<1> SUFFICES ASSUME Init PROVE TypeOK OBVIOUS
<1>1. /\ mm \in [PC -> {"none", "up", "stopped"}]
      /\ pg \in [PC -> SUBSET Nat] /\ files \in [PC -> SUBSET Nat]
      BY DEF Init
<1>2. /\ kept \in [PC -> SUBSET Backup] /\ latest \in [PC -> Backup]
      /\ draft \in [PC -> [Job -> Backup]] /\ stage \in [PC -> Backup]
      BY NoBackupType DEF Init
<1>3. /\ marker \in [PC -> Nat \X BOOLEAN] /\ fp \in [PC -> Nat \X BOOLEAN]
      BY NoBackupType, FingerprintType DEF Init
<1>4. /\ served \in [PC -> BOOLEAN] /\ live \in [PC -> BOOLEAN]
      /\ together \in [PC -> BOOLEAN] /\ astray \in [PC -> BOOLEAN]
      /\ bpc \in [PC -> [Job -> BackupSteps]] /\ spc \in [PC -> StartSteps]
      BY DEF Init, BackupSteps, StartSteps
<1> QED BY <1>1, <1>2, <1>3, <1>4 DEF Init, TypeOK

\* What a start or a restore does to the types.
LEMMA TypeStart ==
  ASSUME TypeOK, NEW p \in PC, Starts(p) \/ Restores(p)
  PROVE  TypeOK'
<1> USE DEF TypeOK, Goto, dataVars, folderVars, backupVars, startVars, counters, bounds,
            Works, Fails, StartSteps
<1>1. ASSUME ScriptGone(p)
      PROVE  fp' \in [PC -> Nat \X BOOLEAN] /\ stage' \in [PC -> Backup] /\ live' \in [PC -> BOOLEAN]
      BY <1>1, NoBackupType, FingerprintType DEF ScriptGone
<1>2. CASE Start(p)
  <2>1. mm' \in [PC -> {"none", "up", "stopped"}]
        BY <1>2 DEF Start
  <2>2. spc' \in [PC -> StartSteps] /\ faulty' \in BOOLEAN
        BY <1>2 DEF Start
  <2> QED BY <1>2, <2>1, <2>2 DEF Start
<1>3. CASE CheckMarker(p)
  <2>1. fp' \in [PC -> Nat \X BOOLEAN]
        BY <1>3, FingerprintType DEF CheckMarker
  <2> QED BY <1>3, <2>1 DEF CheckMarker
<1>4. CASE StartBots(p)
  <2>1. ScriptGone(p) BY <1>4 DEF StartBots
  <2> QED BY <1>1, <1>4, <2>1 DEF StartBots
<1>5. CASE Extract(p)
  <2>1. stage' \in [PC -> Backup]
        BY <1>5 DEF Extract, Unpack
  <2>2. live' \in [PC -> BOOLEAN] /\ mm' \in [PC -> {"none", "up", "stopped"}]
        BY <1>5 DEF Extract
  <2>3. spc' \in [PC -> StartSteps]
        BY <1>5 DEF Extract
  <2> QED BY <1>5, <2>1, <2>2, <2>3 DEF Extract
<1>6. CASE CleanPg(p)
  <2>1. pg' \in [PC -> SUBSET Nat]
        BY <1>6 DEF CleanPg
  <2>2. spc' \in [PC -> StartSteps] /\ faulty' \in BOOLEAN
    <3>1. \E s \in StartSteps : spc' = [spc EXCEPT ![p] = s]
          BY <1>6 DEF CleanPg
    <3>2. faulty' \in BOOLEAN
          BY <1>6 DEF CleanPg
    <3> QED BY <3>1, <3>2
  <2> QED BY <1>6, <2>1, <2>2 DEF CleanPg
<1>7. CASE LoadPg(p)
  <2>1. \A S \in SUBSET stage[p].pg : S \in SUBSET Nat
        BY DEF Backup
  <2>2. stage[p].pg \in SUBSET Nat
        BY DEF Backup
  <2>3. pg' \in [PC -> SUBSET Nat]
    <3>1. PICK S \in SUBSET Nat : pg' = [pg EXCEPT ![p] = @ \cup S]
          BY <1>7, <2>1, <2>2 DEF LoadPg
    <3> QED BY <3>1
  <2>4. spc' \in [PC -> StartSteps] /\ faulty' \in BOOLEAN
    <3>1. \E s \in StartSteps : spc' = [spc EXCEPT ![p] = s]
          BY <1>7 DEF LoadPg
    <3>2. faulty' \in BOOLEAN
          BY <1>7 DEF LoadPg
    <3> QED BY <3>1, <3>2
  <2> QED BY <1>7, <2>3, <2>4 DEF LoadPg
<1>8. CASE RestoreFiles(p)
  <2>1. \A S \in SUBSET stage[p].files : S \in SUBSET Nat
        BY DEF Backup
  <2>2. stage[p].files \in SUBSET Nat
        BY DEF Backup
  <2>3. files' \in [PC -> SUBSET Nat]
    <3>1. PICK S \in SUBSET Nat : files' = [files EXCEPT ![p] = @ \cup S]
          BY <1>8, <2>1, <2>2 DEF RestoreFiles
    <3> QED BY <3>1
  <2>4. spc' \in [PC -> StartSteps] /\ faulty' \in BOOLEAN
        BY <1>8 DEF RestoreFiles
  <2> QED BY <1>8, <2>3, <2>4 DEF RestoreFiles
<1>9. CASE Finish(p)
      BY <1>9 DEF Finish
<1> QED BY <1>2, <1>3, <1>4, <1>5, <1>6, <1>7, <1>8, <1>9 DEF Starts, Restores

\* What a backup does to the types.
LEMMA TypeBacks ==
  ASSUME TypeOK, NEW p \in PC, NEW j \in Job, Backs(p, j)
  PROVE  TypeOK'
<1> USE DEF dataVars, folderVars, backupVars, startVars, counters, bounds, Works, Fails
<1>1. draft[p][j] \in Backup /\ kept[p] \in SUBSET Backup /\ files[p] \in SUBSET Nat
      /\ pg[p] \in SUBSET Nat /\ nBackups + 1 \in Nat
      BY DEF TypeOK
<1>2. Torn(draft[p][j]) \in Backup
      BY <1>1, TornType
<1>3. bpc' \in [PC -> [Job -> BackupSteps]]
  <2>1. \/ EndJob(p, j)
        \/ \E s \in BackupSteps : Step(p, j, s)
        BY DEF Backs, DumpPg, TarFiles, BundleBegin, BundleEnd, CopyBegin, CopyEnd, Rotate,
               BackupSteps
  <2> QED BY <2>1, StepSets, EndSets
<1>4. draft' \in [PC -> [Job -> Backup]]
  <2>1. CASE DumpPg(p, j)
    <3>1. [stamp |-> nBackups', sound |-> TRUE, pg |-> pg[p], files |-> {}] \in Backup
          BY <1>1, <2>1 DEF DumpPg, Backup
    <3> QED BY <2>1, <3>1, JobSet DEF DumpPg, TypeOK
  <2>2. CASE TarFiles(p, j)
    <3>0. files[p] \in SUBSET Nat
          BY DEF TypeOK
    <3> PICK S \in SUBSET Nat : draft' = [draft EXCEPT ![p][j] = [@ EXCEPT !.files = S]]
        BY <2>2, <3>0 DEF TarFiles
    <3> DEFINE b == [draft[p][j] EXCEPT !.files = S]
    <3>1. b \in Backup
          BY <1>1, FilesType
    <3>2. draft' = [draft EXCEPT ![p][j] = b]
          OBVIOUS
    <3>3. draft \in [PC -> [Job -> Backup]]
          BY DEF TypeOK
    <3> HIDE DEF b
    <3>4. [draft EXCEPT ![p][j] = b] \in [PC -> [Job -> Backup]]
          BY <3>1, <3>3, JobSet
    <3> QED BY ONLY <3>2, <3>3, <3>4
  <2>3. CASE ~DumpPg(p, j) /\ ~TarFiles(p, j)
    <3>1. draft' = draft \/ EndJob(p, j)
          BY <2>3 DEF Backs, BundleBegin, BundleEnd, CopyBegin, CopyEnd, Rotate
    <3> QED BY <3>1, EndSets DEF TypeOK
  <2> QED BY <2>1, <2>2, <2>3
<1>5. kept' \in [PC -> SUBSET Backup]
  <2>1. rotate_backups(kept[p]) \in SUBSET Backup
        BY <1>1 DEF rotate_backups
  <2>2. \/ kept' = kept
        \/ kept' = [kept EXCEPT ![p] = @ \cup {Torn(draft[p][j])}]
        \/ kept' = [kept EXCEPT ![p] = (@ \ {Torn(draft[p][j])}) \cup {draft[p][j]}]
        \/ kept' = [kept EXCEPT ![p] = rotate_backups(@)]
        BY DEF Backs, DumpPg, TarFiles, BundleBegin, BundleEnd, CopyBegin, CopyEnd, Rotate
  <2>3. kept \in [PC -> SUBSET Backup]
        BY DEF TypeOK
  <2> QED BY <1>1, <1>2, <2>1, <2>2, <2>3
<1>6. latest' \in [PC -> Backup]
  <2>1. \/ latest' = latest
        \/ latest' = [latest EXCEPT ![p] = Torn(draft[p][j])]
        \/ latest' = [latest EXCEPT ![p] = draft[p][j]]
        BY DEF Backs, DumpPg, TarFiles, BundleBegin, BundleEnd, CopyBegin, CopyEnd, Rotate
  <2> QED BY <1>1, <1>2, <2>1 DEF TypeOK
<1>7. together' \in [PC -> BOOLEAN] /\ astray' \in [PC -> BOOLEAN]
  <2>1. together' = together \/ together' = [together EXCEPT ![p] = Busy(p) # {}]
        BY DEF Backs, DumpPg, TarFiles, BundleBegin, BundleEnd, CopyBegin, CopyEnd, Rotate
  <2>2. \/ astray' = astray
        \/ astray' = [astray EXCEPT ![p] = @ \/ Busy(p) # {}]
        \/ astray' = [astray EXCEPT ![p] = TRUE]
        \/ astray' = [astray EXCEPT ![p] = together[p]]
        BY DEF Backs, DumpPg, TarFiles, BundleBegin, BundleEnd, CopyBegin, CopyEnd, Rotate
  <2>3. together \in [PC -> BOOLEAN] /\ astray \in [PC -> BOOLEAN]
        BY DEF TypeOK
  <2>4. (Busy(p) # {}) \in BOOLEAN /\ (astray[p] \/ Busy(p) # {}) \in BOOLEAN
        OBVIOUS
  <2> QED BY <2>1, <2>2, <2>3, <2>4
<1>8. /\ UNCHANGED <<mm, pg, files, marker, spc, fp, stage, live, served, nPosts, nStarts, nCrashes>>
      /\ nBackups' \in Nat /\ faulty' \in BOOLEAN
      BY <1>1 DEF Backs, DumpPg, TarFiles, BundleBegin, BundleEnd, CopyBegin, CopyEnd, Rotate, TypeOK
<1> QED BY <1>3, <1>4, <1>5, <1>6, <1>7, <1>8 DEF TypeOK

LEMMA TypeRest ==
  ASSUME TypeOK, NEW p \in PC, Write(p) \/ Crash(p) \/ \E q \in PC : CopyFolder(p, q)
  PROVE  TypeOK'
<1> USE DEF TypeOK, dataVars, folderVars, backupVars, startVars, counters, bounds
<1>1. CASE Write(p)
      BY <1>1 DEF Write
<1>2. CASE Crash(p)
  <2>1. draft' \in [PC -> [Job -> Backup]] /\ bpc' \in [PC -> [Job -> BackupSteps]]
        BY <1>2, NoBackupType DEF Crash, BackupSteps
  <2>2. fp' \in [PC -> Nat \X BOOLEAN] /\ stage' \in [PC -> Backup] /\ live' \in [PC -> BOOLEAN]
        BY <1>2, NoBackupType, FingerprintType DEF Crash, ScriptGone
  <2>3. astray' \in [PC -> BOOLEAN]
    <3>1. (astray[p] \/ Copying(p)) \in BOOLEAN
          BY DEF Copying
    <3> QED BY <1>2, <3>1 DEF Crash
  <2>4. spc' \in [PC -> StartSteps]
        BY <1>2 DEF Crash, StartSteps
  <2> QED BY <1>2, <2>1, <2>2, <2>3, <2>4 DEF Crash
<1>3. CASE \E q \in PC : CopyFolder(p, q)
  <2>1. PICK q \in PC : CopyFolder(p, q)
        BY <1>3
  <2>2. astray' \in [PC -> BOOLEAN]
    <3>1. (astray[q] \/ astray[p] \/ Copying(p)) \in BOOLEAN
          BY DEF Copying
    <3> QED BY <2>1, <3>1 DEF CopyFolder
  <2> QED BY <2>1, <2>2 DEF CopyFolder
<1> QED BY <1>1, <1>2, <1>3

LEMMA TypeStep == TypeOK /\ [Next]_vars => TypeOK'
<1> SUFFICES ASSUME TypeOK, [Next]_vars PROVE TypeOK'
    OBVIOUS
<1>1. CASE UNCHANGED vars
      BY <1>1 DEF vars, dataVars, folderVars, backupVars, startVars, counters, bounds, TypeOK
<1>2. CASE Next
      BY <1>2, TypeStart, TypeBacks, TypeRest DEF Next
<1> QED BY <1>1, <1>2

\* Type correctness of the model of the backup, restore and start scripts.
THEOREM TypeCorrect == Spec => []TypeOK
BY TypeInit, TypeStep, PTL DEF Spec
-----------------------------------------------------------------------------
(***************************************************************************)
(* What retention keeps and the latest pointer names.  Folder is what      *)
(* holds of every PC: a backup that overlaps no other has the newest stamp *)
(* of the folder, and from its copy on its archive is there and whole.     *)
(***************************************************************************)
Own(p, j) ==
  /\ draft[p][j].sound
  /\ \A c \in kept[p] : c.stamp <= draft[p][j].stamp
  /\ bpc[p][j] \in {"point", "copy", "rotate"} => draft[p][j] \in kept[p]

Points(p) == \/ Newest(p, latest[p])
             \/ latest[p] = NoBackup /\ \A c \in kept[p] : ~c.sound

Folder(p) ==
  /\ mm[p] = "none" => Busy(p) = {}
  /\ together[p] => astray[p]
  /\ \A c \in kept[p] : c.stamp <= nBackups
  /\ \A j \in Busy(p) : draft[p][j].stamp <= nBackups
  /\ ~together[p] => \A j \in Busy(p) : Busy(p) = {j} /\ Own(p, j)
  /\ ~astray[p] /\ ~Copying(p) => Points(p)

FolderInv == TypeOK /\ \A p \in PC : Folder(p)

LEMMA FolderInit == Init => FolderInv
<1> SUFFICES ASSUME Init, NEW p \in PC PROVE Folder(p)
    BY TypeInit DEF FolderInv
<1>1. Busy(p) = {} /\ ~together[p] /\ kept[p] = {} /\ latest[p] = NoBackup
      BY DEF Init, Busy
<1> QED BY <1>1 DEF Folder, Points

\* What Folder speaks of, at one PC.
Seen(p) == <<mm[p], kept[p], latest[p], bpc[p], draft[p], together[p], astray[p]>>

LEMMA FolderFrame ==
  ASSUME TypeOK, NEW p \in PC, Folder(p), UNCHANGED Seen(p), nBackups' \in {nBackups, nBackups + 1}
  PROVE  Folder(p)'
<1>1. \A c \in kept[p] : c.stamp \in Nat
      BY DEF TypeOK, Backup
<1>2. \A j \in Job : draft[p][j].stamp \in Nat
      BY DEF TypeOK, Backup
<1>3. nBackups \in Nat
      BY DEF TypeOK
<1> USE DEF Seen
<1>4. Busy(p)' = Busy(p) /\ Copying(p)' = Copying(p) /\ Points(p)' = Points(p)
      BY DEF Busy, Copying, Points, Newest
<1>5. \A j \in Job : Own(p, j) => Own(p, j)'
      BY <1>2, <1>3 DEF Own
<1>6. \A c \in kept'[p] : c.stamp <= nBackups'
      BY <1>1, <1>3 DEF Folder
<1>7. Busy(p) \subseteq Job
      BY DEF Busy
<1>8. \A j \in Busy(p)' : draft'[p][j].stamp <= nBackups'
      BY <1>2, <1>3, <1>4, <1>7 DEF Folder
<1> QED BY <1>4, <1>5, <1>6, <1>7, <1>8 DEF Folder

\* What a backup does to its folder.
LEMMA FolderDump ==
  ASSUME TypeOK, NEW p \in PC, NEW j \in Job, Folder(p), DumpPg(p, j)
  PROVE  Folder(p)'
<1> USE DEF dataVars, folderVars, startVars
<1> DEFINE b == [stamp |-> nBackups + 1, sound |-> TRUE, pg |-> pg[p], files |-> {}]
<1>1. nBackups \in Nat /\ \A c \in kept[p] : c.stamp \in Nat
      BY DEF TypeOK, Backup
<1>2. b \in Backup
      BY <1>1 DEF Backup, TypeOK
<1>3. draft'[p][j] = b /\ \A i \in Job \ {j} : draft'[p][i] = draft[p][i]
  <2>1. draft' = [draft EXCEPT ![p][j] = b] /\ draft \in [PC -> [Job -> Backup]]
        BY DEF DumpPg, TypeOK
  <2> HIDE DEF b
  <2> QED BY <1>2, <2>1, JobSet
<1>4. /\ bpc[p][j] = "idle" /\ bpc'[p][j] = "files"
      /\ \A i \in Job \ {j} : bpc'[p][i] = bpc[p][i]
      BY StepSets DEF DumpPg, BackupSteps
<1>5. Busy(p)' = Busy(p) \cup {j} /\ j \notin Busy(p)
      BY <1>4 DEF Busy
<1>6. together'[p] = (Busy(p) # {}) /\ astray'[p] = (astray[p] \/ Busy(p) # {})
      BY DEF DumpPg, TypeOK
<1>7. kept' = kept /\ latest' = latest /\ mm' = mm /\ mm[p] # "none" /\ nBackups' = nBackups + 1
      BY DEF DumpPg
<1>8. Copying(p)' = Copying(p)
      BY <1>4 DEF Copying
<1>9. \A c \in kept[p] : c.stamp <= nBackups + 1
      BY <1>1 DEF Folder
<1>10. ~together'[p] => \A i \in Busy(p)' : Busy(p)' = {i} /\ Own(p, i)'
  <2> SUFFICES ASSUME Busy(p) = {} PROVE Busy(p)' = {j} /\ Own(p, j)'
      BY <1>5, <1>6
  <2>1. b.sound /\ b.stamp = nBackups'
        BY <1>7
  <2>2. \A c \in kept'[p] : c.stamp <= b.stamp
        BY <1>7, <1>9
  <2>3. Own(p, j)'
        BY <1>3, <1>4, <2>1, <2>2 DEF Own
  <2> QED BY <1>5, <2>3
<1>11. Points(p) => Points(p)'
       BY <1>7 DEF Points, Newest
<1>12. \A i \in Busy(p)' : draft'[p][i].stamp <= nBackups'
  <2> SUFFICES ASSUME NEW i \in Busy(p)' PROVE draft'[p][i].stamp <= nBackups + 1
      BY <1>7
  <2>1. CASE i = j
        BY <1>1, <1>3, <2>1
  <2>2. CASE i # j
    <3>1. i \in Busy(p) /\ i \in Job \ {j}
          BY <1>5, <2>2 DEF Busy
    <3>2. draft'[p][i].stamp = draft[p][i].stamp /\ draft[p][i].stamp <= nBackups
          BY <1>3, <3>1 DEF Folder
    <3>3. draft[p][i].stamp \in Nat
          BY <3>1 DEF TypeOK, Backup
    <3> QED BY <1>1, <3>2, <3>3
  <2> QED BY <2>1, <2>2
<1> QED BY <1>6, <1>7, <1>8, <1>9, <1>10, <1>11, <1>12 DEF Folder

LEMMA FolderTar ==
  ASSUME TypeOK, NEW p \in PC, NEW j \in Job, Folder(p), TarFiles(p, j)
  PROVE  Folder(p)'
<1> USE DEF dataVars, folderVars, startVars, bounds
<1>0. files[p] \in SUBSET Nat /\ draft[p][j] \in Backup /\ draft \in [PC -> [Job -> Backup]]
      BY DEF TypeOK
<1> PICK S \in SUBSET Nat : draft' = [draft EXCEPT ![p][j] = [@ EXCEPT !.files = S]]
    BY <1>0 DEF TarFiles
<1> DEFINE b == [draft[p][j] EXCEPT !.files = S]
<1>1. b \in Backup /\ b.stamp = draft[p][j].stamp /\ b.sound = draft[p][j].sound
      BY <1>0, FilesType
<1>2. /\ draft'[p][j].stamp = draft[p][j].stamp /\ draft'[p][j].sound = draft[p][j].sound
      /\ \A i \in Job \ {j} : draft'[p][i] = draft[p][i]
  <2>1. draft' = [draft EXCEPT ![p][j] = b]
        OBVIOUS
  <2> HIDE DEF b
  <2> QED BY <1>0, <1>1, <2>1, JobSet
<1>3. /\ bpc[p][j] = "files" /\ bpc'[p][j] = "bundle"
      /\ \A i \in Job \ {j} : bpc'[p][i] = bpc[p][i]
      BY StepSets DEF TarFiles, BackupSteps
<1>4. Busy(p)' = Busy(p) /\ j \in Busy(p) /\ Copying(p)' = Copying(p)
      BY <1>3 DEF Busy, Copying
<1>5. UNCHANGED <<kept, latest, mm, nBackups, together, astray>>
      BY DEF TarFiles
<1>6. Points(p)' = Points(p)
      BY <1>5 DEF Points, Newest
<1>7. Own(p, j) => Own(p, j)'
      BY <1>2, <1>3, <1>5 DEF Own
<1>8. \A i \in Busy(p)' : draft'[p][i].stamp <= nBackups'
      BY <1>2, <1>4, <1>5 DEF Folder, Busy
<1> QED BY <1>4, <1>5, <1>6, <1>7, <1>8 DEF Folder

LEMMA FolderBundle ==
  ASSUME TypeOK, NEW p \in PC, NEW j \in Job, Folder(p), BundleBegin(p, j) \/ BundleEnd(p, j)
  PROVE  Folder(p)'
<1> USE DEF dataVars, startVars, bounds
<1> DEFINE b == draft[p][j]
           t == Torn(draft[p][j])
<1>1. b \in Backup /\ kept[p] \in SUBSET Backup /\ nBackups \in Nat
      BY DEF TypeOK
<1>2. t \in Backup /\ t.stamp = b.stamp /\ ~t.sound
      BY <1>1, TornType
<1>3. UNCHANGED <<latest, mm, nBackups, together, astray>>
      BY DEF BundleBegin, BundleEnd
<1>4. bpc[p][j] \in {"bundle", "archive"}
      BY DEF BundleBegin, BundleEnd
<1>5. bpc[p][j] # "idle" /\ bpc[p][j] \notin {"point", "copy"} /\ b.stamp \in Nat
      BY <1>1, <1>4 DEF Backup
<1>6. CASE EndJob(p, j) /\ kept' = kept
  <2>1. /\ bpc'[p][j] = "idle"
        /\ \A i \in Job \ {j} : bpc'[p][i] = bpc[p][i] /\ draft'[p][i] = draft[p][i]
        BY <1>6, EndSets
  <2>2. Busy(p)' = Busy(p) \ {j} /\ j \in Busy(p) /\ Copying(p)' = Copying(p)
        BY <1>5, <2>1 DEF Busy, Copying
  <2>3. Points(p)' = Points(p)
        BY <1>3, <1>6 DEF Points, Newest
  <2>4. \A i \in Busy(p)' : i \in Busy(p) /\ draft'[p][i] = draft[p][i]
        BY <2>1, <2>2 DEF Busy
  <2>5. ~together[p] => Busy(p)' = {}
        BY <2>2 DEF Folder
  <2> QED BY <1>3, <1>6, <2>2, <2>3, <2>4, <2>5 DEF Folder
<1>7. CASE Step(p, j, "archive") /\ kept' = [kept EXCEPT ![p] = @ \cup {t}] /\ draft' = draft
  <2>1. /\ bpc'[p][j] = "archive"
        /\ \A i \in Job \ {j} : bpc'[p][i] = bpc[p][i]
        BY <1>7, StepSets DEF BackupSteps
  <2>2. Busy(p)' = Busy(p) /\ j \in Busy(p) /\ Copying(p)' = Copying(p)
        BY <1>5, <2>1 DEF Busy, Copying
  <2> HIDE DEF b, t
  <2>3. kept'[p] = kept[p] \cup {t}
        BY <1>7 DEF TypeOK
  <2>4. Points(p) => Points(p)'
        BY <1>1, <1>2, <1>3, <2>3 DEF Points, Newest
  <2>5. Own(p, j) => Own(p, j)'
        BY <1>2, <1>3, <1>5, <1>7, <2>1, <2>3 DEF Own, b
  <2>6. \A c \in kept'[p] : c.stamp <= nBackups'
        BY <1>2, <1>3, <2>2, <2>3 DEF Folder, b
  <2>7. draft'[p] = draft[p]
        BY <1>7
  <2> QED BY <1>3, <2>2, <2>4, <2>5, <2>6, <2>7 DEF Folder
<1>8. CASE /\ Step(p, j, "point") /\ draft' = draft
           /\ kept' = [kept EXCEPT ![p] = (@ \ {t}) \cup {b}]
  <2>1. /\ bpc'[p][j] = "point"
        /\ \A i \in Job \ {j} : bpc'[p][i] = bpc[p][i]
        BY <1>8, StepSets DEF BackupSteps
  <2>2. Busy(p)' = Busy(p) /\ j \in Busy(p) /\ Copying(p)'
        BY <1>5, <2>1 DEF Busy, Copying
  <2> HIDE DEF b, t
  <2>3. kept'[p] = (kept[p] \ {t}) \cup {b}
        BY <1>8 DEF TypeOK
  <2>4. Own(p, j) => Own(p, j)'
        BY <1>3, <1>5, <1>8, <2>1, <2>3 DEF Own, b
  <2>5. \A c \in kept'[p] : c.stamp <= nBackups'
        BY <1>3, <2>2, <2>3 DEF Folder, b
  <2> QED BY <1>3, <1>8, <2>2, <2>4, <2>5 DEF Folder
<1> QED BY <1>6, <1>7, <1>8 DEF BundleBegin, BundleEnd

LEMMA FolderCopy ==
  ASSUME TypeOK, NEW p \in PC, NEW j \in Job, Folder(p), CopyBegin(p, j) \/ CopyEnd(p, j)
  PROVE  Folder(p)'
<1> USE DEF dataVars, startVars, bounds
<1> DEFINE b == draft[p][j]
<1>1. UNCHANGED <<kept, draft, mm, nBackups, together>>
      BY DEF CopyBegin, CopyEnd
<1>2. /\ bpc[p][j] \in {"point", "copy"} /\ bpc'[p][j] \in {"copy", "rotate"}
      /\ \A i \in Job \ {j} : bpc'[p][i] = bpc[p][i]
  <2>1. \E s \in {"copy", "rotate"} : Step(p, j, s)
        BY DEF CopyBegin, CopyEnd
  <2> QED BY <2>1, StepSets DEF BackupSteps, CopyBegin, CopyEnd
<1>3. Busy(p)' = Busy(p) /\ j \in Busy(p)
      BY <1>2 DEF Busy
<1>4. Own(p, j) => Own(p, j)'
      BY <1>1, <1>2 DEF Own
<1>5. \/ astray'[p] /\ astray' = [astray EXCEPT ![p] = TRUE]
      \/ astray'[p] = astray[p] /\ bpc'[p][j] = "copy"
      \/ astray'[p] = together[p] /\ latest'[p] = b /\ bpc[p][j] = "copy"
  <2>1. CASE CopyBegin(p, j)
    <3>1. \/ Step(p, j, "copy") /\ astray' = astray
          \/ astray' = [astray EXCEPT ![p] = TRUE]
          BY <2>1 DEF CopyBegin
    <3>2. Step(p, j, "copy") => bpc'[p][j] = "copy"
          BY StepSets DEF BackupSteps
    <3> QED BY <3>1, <3>2 DEF TypeOK
  <2>2. CASE CopyEnd(p, j)
    <3>1. \/ astray' = [astray EXCEPT ![p] = TRUE]
          \/ /\ astray' = [astray EXCEPT ![p] = together[p]]
             /\ latest' = [latest EXCEPT ![p] = b]
          BY <2>2 DEF CopyEnd
    <3>2. bpc[p][j] = "copy"
          BY <2>2 DEF CopyEnd
    <3> QED BY <3>1, <3>2 DEF TypeOK
  <2> QED BY <2>1, <2>2
<1>6. ~astray'[p] /\ ~Copying(p)' => Points(p)'
  <2> SUFFICES ASSUME ~astray'[p], ~Copying(p)' PROVE Points(p)'
      OBVIOUS
  <2>1. bpc'[p][j] # "copy"
        BY DEF Copying
  <2>2. ~together[p] /\ latest'[p] = b /\ bpc[p][j] = "copy"
        BY <1>5, <2>1
  <2>3. Own(p, j)
        BY <1>3, <2>2 DEF Folder
  <2> QED BY <1>1, <2>2, <2>3 DEF Own, Points, Newest
<1>7. together'[p] => astray'[p]
      BY <1>1, <1>5 DEF Folder
<1> QED BY <1>1, <1>3, <1>4, <1>6, <1>7 DEF Folder

\* A rotation: of a backup that runs alone, the archive is the newest and stays.
LEMMA OwnStays ==
  ASSUME TypeOK, NEW p \in PC, NEW j \in Job, Folder(p), Rotate(p, j), ~together[p]
  PROVE  /\ draft[p][j] \in kept'[p] /\ draft[p][j].sound
         /\ \A c \in kept[p] : c.stamp <= draft[p][j].stamp
         /\ \A c \in kept[p] : c.stamp = draft[p][j].stamp => c \in kept'[p]
<1>1. bpc[p][j] = "rotate" /\ j \in Busy(p)
      BY DEF Rotate, Busy
<1>2. Own(p, j)
      BY <1>1 DEF Folder
<1>3. kept'[p] = rotate_backups(kept[p]) /\ kept[p] \in SUBSET Backup
      BY DEF Rotate, TypeOK
<1>4. draft[p][j] \in kept[p] /\ \A c \in kept[p] : c.stamp <= draft[p][j].stamp
      BY <1>1, <1>2 DEF Own
<1> QED BY <1>2, <1>3, <1>4, RotateKeepsNewest DEF Own

LEMMA FolderRotate ==
  ASSUME TypeOK, NEW p \in PC, NEW j \in Job, Folder(p), Rotate(p, j)
  PROVE  Folder(p)'
<1> USE DEF dataVars, startVars, counters, bounds
<1>1. UNCHANGED <<latest, mm, nBackups, together, astray>> /\ bpc[p][j] = "rotate"
      BY DEF Rotate
<1>2. /\ bpc'[p][j] = "idle"
      /\ \A i \in Job \ {j} : bpc'[p][i] = bpc[p][i] /\ draft'[p][i] = draft[p][i]
      BY EndSets DEF Rotate
<1>3. Busy(p)' = Busy(p) \ {j} /\ j \in Busy(p) /\ Copying(p)' = Copying(p)
      BY <1>1, <1>2 DEF Busy, Copying
<1>4. kept'[p] \subseteq kept[p] /\ kept[p] \in SUBSET Backup
      BY DEF Rotate, rotate_backups, TypeOK
<1>5. ASSUME ~astray[p], Points(p) PROVE Points(p)'
  <2>1. ~together[p]
        BY <1>5 DEF Folder
  <2>2. /\ draft[p][j] \in kept'[p] /\ draft[p][j].sound
        /\ \A c \in kept[p] : c.stamp <= draft[p][j].stamp
        /\ \A c \in kept[p] : c.stamp = draft[p][j].stamp => c \in kept'[p]
        BY <2>1, OwnStays
  <2>3. Newest(p, latest[p])
        BY <1>4, <1>5, <2>2 DEF Points
  <2>4. latest[p].stamp <= draft[p][j].stamp /\ draft[p][j].stamp <= latest[p].stamp
        BY <1>4, <2>2, <2>3 DEF Newest
  <2>5. latest[p].stamp \in Nat /\ draft[p][j].stamp \in Nat
        BY DEF TypeOK, Backup
  <2>6. latest[p].stamp = draft[p][j].stamp
        BY <2>4, <2>5
  <2> QED BY <1>1, <1>4, <2>2, <2>3, <2>6 DEF Points, Newest
<1>6. \A i \in Busy(p)' : i \in Busy(p) /\ draft'[p][i] = draft[p][i]
      BY <1>2, <1>3 DEF Busy
<1>7. ~together[p] => Busy(p)' = {}
      BY <1>3 DEF Folder
<1> QED BY <1>1, <1>3, <1>4, <1>5, <1>6, <1>7 DEF Folder

\* What else can happen to a folder.
LEMMA FolderCrash ==
  ASSUME TypeOK, NEW p \in PC, Folder(p), Crash(p)
  PROVE  Folder(p)'
<1> USE DEF dataVars, folderVars
<1>1. UNCHANGED <<kept, latest, mm, nBackups, together>>
      BY DEF Crash
<1>2. Busy(p)' = {} /\ astray'[p] = (astray[p] \/ Copying(p))
      BY DEF Crash, Busy, TypeOK
<1>3. Points(p)' = Points(p)
      BY <1>1 DEF Points, Newest
<1> QED BY <1>1, <1>2, <1>3 DEF Folder

LEMMA FolderCopied ==
  ASSUME TypeOK, NEW p \in PC, NEW q \in PC, Folder(p), Folder(q), CopyFolder(p, q)
  PROVE  Folder(q)'
<1> USE DEF dataVars, startVars, counters, bounds
<1>1. UNCHANGED <<bpc, draft, mm, nBackups, together>> /\ mm[q] = "none"
      BY DEF CopyFolder
<1>2. /\ kept'[q] = kept[p] /\ latest'[q] = latest[p]
      /\ astray'[q] = (astray[q] \/ astray[p] \/ Copying(p))
      BY DEF CopyFolder, TypeOK
<1>3. Busy(q)' = {}
      BY <1>1 DEF Folder, Busy
<1>4. Points(p) => Points(q)'
      BY <1>2 DEF Points, Newest
<1> QED BY <1>1, <1>2, <1>3, <1>4 DEF Folder

LEMMA FolderRest ==
  ASSUME TypeOK, NEW p \in PC, Folder(p), Write(p) \/ Starts(p) \/ Restores(p)
  PROVE  Folder(p)'
<1> USE DEF dataVars, folderVars, backupVars, startVars, counters, bounds
<1>1. UNCHANGED <<kept, latest, bpc, draft, together, astray, nBackups>>
      BY DEF Write, Starts, Restores, Start, CheckMarker, StartBots, Extract, CleanPg, LoadPg,
             RestoreFiles, Finish
<1>2. mm'[p] = "none" => mm[p] = "none"
      BY DEF Write, Starts, Restores, Start, CheckMarker, StartBots, Extract, CleanPg, LoadPg,
             RestoreFiles, Finish, TypeOK
<1>3. Busy(p)' = Busy(p) /\ Copying(p)' = Copying(p) /\ Points(p)' = Points(p)
      /\ \A j \in Job : Own(p, j)' = Own(p, j)
      BY <1>1 DEF Busy, Copying, Points, Newest, Own
<1>4. Busy(p) \subseteq Job
      BY DEF Busy
<1> QED BY <1>1, <1>2, <1>3, <1>4 DEF Folder

\* A step of p leaves the other folders, but for the one it is copied to.
LEMMA OthersSeen ==
  ASSUME TypeOK, NEW p \in PC, NEW q \in PC, p # q,
         \/ Write(p) \/ Crash(p) \/ Starts(p) \/ Restores(p)
         \/ \E j \in Job : Backs(p, j)
         \/ \E r \in PC \ {q} : CopyFolder(p, r)
  PROVE  UNCHANGED Seen(q) /\ nBackups' \in {nBackups, nBackups + 1}
<1> USE DEF dataVars, folderVars, backupVars, startVars, counters, bounds, Seen
<1>1. CASE Write(p) \/ Starts(p) \/ Restores(p)
      BY <1>1 DEF Write, Starts, Restores, Start, CheckMarker, StartBots, Extract, CleanPg,
                  LoadPg, RestoreFiles, Finish, TypeOK
<1>2. CASE Crash(p)
      BY <1>2 DEF Crash, TypeOK
<1>3. CASE \E r \in PC \ {q} : CopyFolder(p, r)
      BY <1>3 DEF CopyFolder, TypeOK
<1>4. CASE \E j \in Job : Backs(p, j)
  <2>1. PICK j \in Job : Backs(p, j)
        BY <1>4
  <2>2. bpc'[q] = bpc[q]
    <3>1. \/ EndJob(p, j)
          \/ \E s \in BackupSteps : Step(p, j, s)
          BY <2>1 DEF Backs, DumpPg, TarFiles, BundleBegin, BundleEnd, CopyBegin, CopyEnd, Rotate,
                      BackupSteps
    <3> QED BY <3>1, StepSets, EndSets
  <2>3. draft'[q] = draft[q]
    <3>1. draft' = draft \/ \E v : draft' = [draft EXCEPT ![p][j] = v]
          BY <2>1 DEF Backs, DumpPg, TarFiles, BundleBegin, BundleEnd, CopyBegin, CopyEnd, Rotate,
                      EndJob
    <3> QED BY <3>1 DEF TypeOK
  <2>4. kept'[q] = kept[q]
    <3>1. kept' = kept \/ \E v : kept' = [kept EXCEPT ![p] = v]
          BY <2>1 DEF Backs, DumpPg, TarFiles, BundleBegin, BundleEnd, CopyBegin, CopyEnd, Rotate
    <3> QED BY <3>1 DEF TypeOK
  <2>5. latest'[q] = latest[q]
    <3>1. latest' = latest \/ \E v : latest' = [latest EXCEPT ![p] = v]
          BY <2>1 DEF Backs, DumpPg, TarFiles, BundleBegin, BundleEnd, CopyBegin, CopyEnd, Rotate
    <3> QED BY <3>1 DEF TypeOK
  <2>6. together'[q] = together[q] /\ astray'[q] = astray[q]
    <3>1. together' = together \/ \E v : together' = [together EXCEPT ![p] = v]
          BY <2>1 DEF Backs, DumpPg, TarFiles, BundleBegin, BundleEnd, CopyBegin, CopyEnd, Rotate
    <3>2. astray' = astray \/ \E v : astray' = [astray EXCEPT ![p] = v]
          BY <2>1 DEF Backs, DumpPg, TarFiles, BundleBegin, BundleEnd, CopyBegin, CopyEnd, Rotate
    <3> QED BY <3>1, <3>2 DEF TypeOK
  <2>7. mm' = mm /\ nBackups' \in {nBackups, nBackups + 1}
        BY <2>1 DEF Backs, DumpPg, TarFiles, BundleBegin, BundleEnd, CopyBegin, CopyEnd, Rotate
  <2> QED BY <2>2, <2>3, <2>4, <2>5, <2>6, <2>7
<1> QED BY <1>1, <1>2, <1>3, <1>4

LEMMA FolderStep == FolderInv /\ [Next]_vars => FolderInv'
<1> SUFFICES ASSUME FolderInv, [Next]_vars, NEW q \in PC PROVE Folder(q)'
    BY TypeStep DEF FolderInv
<1>1. TypeOK /\ \A r \in PC : Folder(r)
      BY DEF FolderInv
<1>2. CASE UNCHANGED vars
  <2>1. UNCHANGED Seen(q) /\ nBackups' = nBackups
        BY <1>2 DEF vars, dataVars, folderVars, backupVars, counters, bounds, Seen
  <2> QED BY <1>1, <2>1, FolderFrame
<1>3. CASE Next
  <2>1. PICK p \in PC : \/ Write(p) \/ Crash(p) \/ \E r \in PC : CopyFolder(p, r)
                        \/ \E j \in Job : Backs(p, j)
                        \/ Starts(p) \/ Restores(p)
        BY <1>3 DEF Next
  <2>2. CASE CopyFolder(p, q)
        BY <1>1, <2>2, FolderCopied
  <2>3. CASE q = p /\ ~CopyFolder(p, q)
    <3>1. CASE \E j \in Job : Backs(p, j)
          BY <1>1, <2>3, <3>1, FolderDump, FolderTar, FolderBundle, FolderCopy, FolderRotate DEF Backs
    <3>2. CASE \E r \in PC : CopyFolder(p, r)
      <4>1. UNCHANGED Seen(q) /\ nBackups' = nBackups
            BY <2>3, <3>2 DEF CopyFolder, TypeOK, dataVars, startVars, counters, bounds, Seen
      <4> QED BY <1>1, <4>1, FolderFrame
    <3> QED BY <1>1, <2>1, <2>3, <3>1, <3>2, FolderCrash, FolderRest
  <2>4. CASE q # p /\ ~CopyFolder(p, q)
    <3>1. UNCHANGED Seen(q) /\ nBackups' \in {nBackups, nBackups + 1}
          BY <1>1, <2>1, <2>4, OthersSeen
    <3> QED BY <1>1, <3>1, FolderFrame
  <2> QED BY <2>2, <2>3, <2>4
<1> QED BY <1>2, <1>3

\* The latest pointer is the newest whole archive of the folder as long as backups
\* neither overlap nor fail to be copied to it, whatever torn archives they leave
\* (bogo_backup.sh:170-181).
THEOREM LatestIsNewest == Spec => []PointsAtNewest
<1>1. FolderInv => PointsAtNewest
      BY DEF FolderInv, Folder, Points, PointsAtNewest
<1> QED BY FolderInit, FolderStep, <1>1, PTL DEF Spec

\* Retention never takes the newest whole archive away, however many torn ones
\* there are, but when backups overlap (bogo_backup.sh, rotate_backups).
RetentionStep ==
  \A p \in PC : together[p] \/
    \A b \in kept[p] : b.sound /\ b \notin kept'[p] =>
      \E c \in kept'[p] : c.sound /\ c.stamp > b.stamp

THEOREM RetentionIsSafe == Spec => RetentionKeepsGood
<1>1. ASSUME FolderInv, [Next]_vars PROVE [RetentionStep]_vars
  <2> SUFFICES ASSUME Next, NEW q \in PC, ~together[q],
                      NEW b \in kept[q], b.sound, b \notin kept'[q]
               PROVE  \E c \in kept'[q] : c.sound /\ c.stamp > b.stamp
      BY <1>1 DEF RetentionStep
  <2>1. TypeOK /\ Folder(q)
        BY <1>1 DEF FolderInv
  <2> USE DEF dataVars, folderVars, backupVars, startVars, counters, bounds
  <2>2. PICK p \in PC : \/ Write(p) \/ Crash(p) \/ \E r \in PC : CopyFolder(p, r)
                        \/ \E j \in Job : Backs(p, j)
                        \/ Starts(p) \/ Restores(p)
        BY DEF Next
  <2>3. kept'[q] # kept[q]
        OBVIOUS
  <2>4. ~CopyFolder(p, q)
        BY <2>1 DEF CopyFolder, TypeOK
  <2>5. q = p
    <3> SUFFICES ASSUME q # p PROVE FALSE
        OBVIOUS
    <3> QED BY <2>1, <2>2, <2>3, <2>4, OthersSeen DEF Seen
  <2>6. PICK j \in Job : Backs(p, j)
    <3>1. ~\E r \in PC : CopyFolder(p, r)
          BY <2>1, <2>3, <2>5 DEF CopyFolder, TypeOK
    <3> QED BY <2>2, <2>3, <3>1 DEF Write, Crash, Starts, Restores, Start, CheckMarker, StartBots,
               Extract, CleanPg, LoadPg, RestoreFiles, Finish
  <2>7. CASE Rotate(p, j)
    <3>1. /\ draft[p][j] \in kept'[p] /\ draft[p][j].sound
          /\ \A c \in kept[p] : c.stamp <= draft[p][j].stamp
          /\ \A c \in kept[p] : c.stamp = draft[p][j].stamp => c \in kept'[p]
          BY <2>1, <2>5, <2>7, OwnStays
    <3>2. b.stamp \in Nat /\ draft[p][j].stamp \in Nat
          BY <2>1 DEF TypeOK, Backup
    <3>3. b.stamp <= draft[p][j].stamp /\ b.stamp # draft[p][j].stamp
          BY <2>5, <3>1
    <3>4. draft[p][j].stamp > b.stamp
          BY <3>2, <3>3
    <3> QED BY <2>5, <3>1, <3>4
  <2>8. CASE ~Rotate(p, j)
    <3>1. \/ kept' = kept
          \/ kept' = [kept EXCEPT ![p] = @ \cup {Torn(draft[p][j])}]
          \/ kept' = [kept EXCEPT ![p] = (@ \ {Torn(draft[p][j])}) \cup {draft[p][j]}]
          BY <2>6, <2>8 DEF Backs, DumpPg, TarFiles, BundleBegin, BundleEnd, CopyBegin, CopyEnd
    <3>2. ~Torn(draft[p][j]).sound
          BY <2>1, TornType DEF TypeOK
    <3>3. b # Torn(draft[p][j])
          BY <3>2
    <3> QED BY <2>1, <2>5, <3>1, <3>3 DEF TypeOK
  <2> QED BY <2>7, <2>8
<1> QED BY FolderInit, FolderStep, <1>1, PTL DEF Spec, RetentionKeepsGood, RetentionStep
-----------------------------------------------------------------------------
(* No post vanishes before the eyes of its readers *)

\* While a restore is under way, Mattermost is down, unless it could not be stopped.
StoppedInRestore ==
  \A p \in PC : spc[p] \in {"clean", "load", "files", "finish"} => mm[p] = "stopped" \/ live[p]

LEMMA StoppedInit == Init => StoppedInRestore
BY DEF Init, StoppedInRestore

LEMMA StoppedStep == TypeOK /\ StoppedInRestore /\ [Next]_vars => StoppedInRestore'
<1> SUFFICES ASSUME TypeOK, StoppedInRestore, [Next]_vars PROVE StoppedInRestore'
    OBVIOUS
<1> USE DEF TypeOK, StoppedInRestore, Goto, ScriptGone, dataVars, folderVars, backupVars,
            startVars, counters, bounds
<1>1. CASE UNCHANGED vars
      BY <1>1 DEF vars
<1>2. CASE Next
  <2>1. PICK p \in PC : \/ Write(p) \/ Crash(p) \/ \E r \in PC : CopyFolder(p, r)
                        \/ \E j \in Job : Backs(p, j)
                        \/ Starts(p) \/ Restores(p)
        BY <1>2 DEF Next
  <2>2. CASE Write(p) \/ Crash(p) \/ \E r \in PC : CopyFolder(p, r)
        BY <2>2 DEF Write, Crash, CopyFolder
  <2>3. CASE \E j \in Job : Backs(p, j)
        BY <2>3 DEF Backs, DumpPg, TarFiles, BundleBegin, BundleEnd, CopyBegin, CopyEnd, Rotate
  <2>4. CASE Starts(p)
        BY <2>4 DEF Starts, Start, CheckMarker, StartBots
  <2>5. CASE Extract(p)
    <3>1. \/ spc'[p] = "bots"
          \/ mm'[p] = "stopped" \/ live'[p]
          BY <2>5 DEF Extract
    <3>2. \A q \in PC \ {p} : mm'[q] = mm[q] /\ live'[q] = live[q] /\ spc'[q] = spc[q]
          BY <2>5 DEF Extract
    <3> QED BY <3>1, <3>2
  <2>6. CASE CleanPg(p)
        BY <2>6 DEF CleanPg
  <2>7. CASE LoadPg(p)
        BY <2>7 DEF LoadPg
  <2>8. CASE RestoreFiles(p)
        BY <2>8 DEF RestoreFiles
  <2>9. CASE Finish(p)
        BY <2>9 DEF Finish
  <2> QED BY <2>1, <2>2, <2>3, <2>4, <2>5, <2>6, <2>7, <2>8, <2>9 DEF Restores
<1> QED BY <1>1, <1>2

\* No post vanishes from a server that is up, wherever a restore fails, unless what
\* fails is the stop it asks for (bogo_restore.sh:116).
THEOREM NoLiveLoss == Spec => NothingVanishesLive
<1>1. ASSUME TypeOK, StoppedInRestore, [Next]_vars
      PROVE  [\A p \in PC : mm[p] = "up" /\ mm'[p] = "up" /\ ~live[p] => pg[p] \subseteq pg'[p]]_vars
  <2> SUFFICES ASSUME Next, NEW q \in PC, mm[q] = "up", ~live[q] PROVE pg[q] \subseteq pg'[q]
      BY <1>1
  <2> USE <1>1 DEF TypeOK, StoppedInRestore, dataVars
  <2>1. CASE UNCHANGED pg
        BY <2>1
  <2>2. CASE \E p \in PC : Write(p)
        BY <2>2 DEF Write
  <2>3. CASE \E p \in PC : CleanPg(p)
        BY <2>3 DEF CleanPg
  <2>4. CASE \E p \in PC : LoadPg(p)
    <3>1. PICK p \in PC : LoadPg(p)
          BY <2>4
    <3>2. PICK S : pg' = [pg EXCEPT ![p] = @ \cup S]
          BY <3>1 DEF LoadPg
    <3> QED BY <3>2
  <2>5. CASE \E p \in PC : \E j \in Job : Backs(p, j)
        BY <2>5, <2>1 DEF Backs, DumpPg, TarFiles, BundleBegin, BundleEnd, CopyBegin, CopyEnd, Rotate
  <2>6. CASE \E p \in PC : Starts(p)
        BY <2>6, <2>1 DEF Starts, Start, CheckMarker, StartBots
  <2>7. CASE \E p \in PC : Extract(p) \/ RestoreFiles(p) \/ Finish(p)
        BY <2>7, <2>1 DEF Extract, RestoreFiles, Finish
  <2>8. CASE \E p \in PC : Crash(p) \/ \E r \in PC : CopyFolder(p, r)
        BY <2>8, <2>1 DEF Crash, CopyFolder
  <2> QED BY <2>2, <2>3, <2>4, <2>5, <2>6, <2>7, <2>8 DEF Next, Restores
<1> QED BY TypeInit, TypeStep, StoppedInit, StoppedStep, <1>1, PTL DEF Spec, NothingVanishesLive
-----------------------------------------------------------------------------
(***************************************************************************)
(* Without a failure, no post loses its attachment.  Moved is what holds   *)
(* of every PC then.                                                       *)
(***************************************************************************)
Complete(b) == b.sound => b.pg \subseteq b.files
Holds(p, b) == b.sound => b.files \subseteq files[p]

\* A PC that never finished a start makes no backups, and has no containers
\* unless its first start is under way.
FirstStart(p) ==
  /\ mm[p] = "none" => pg[p] = {} /\ files[p] = {} /\ ~served[p] /\ spc[p] = "idle"
  /\ ~served[p] => Busy(p) = {} /\ (spc[p] = "idle" => mm[p] = "none")

\* A backup in the making never holds a post without its attachment for long.
GoodDraft(p, j) ==
  /\ draft[p][j].files \subseteq files[p]
  /\ bpc[p][j] = "files" => draft[p][j].pg \subseteq files[p]
  /\ bpc[p][j] \notin {"idle", "files"} => draft[p][j].pg \subseteq draft[p][j].files

GoodBackups(p) ==
  /\ Complete(latest[p]) /\ stage[p].pg \subseteq stage[p].files
  /\ \A b \in kept[p] : Complete(b)

\* The posts of the database have their attachments, if need be in the backup
\* that a first start is restoring.
GoodPosts(p) ==
  CASE spc[p] = "load"  -> pg[p] = {}
    [] spc[p] = "files" -> /\ pg[p] \subseteq stage[p].files
                           /\ served[p] => pg[p] \subseteq files[p]
    [] OTHER            -> pg[p] \subseteq files[p]

\* A PC whose timer runs has the attachments of its latest backup, or a marker
\* that keeps every start from restoring it; a first start restores the backup
\* it found.
GoodRestore(p) ==
  /\ served[p] \/ spc[p] = "bots" =>
       Holds(p, latest[p]) \/ backup_fingerprint(latest[p]) = marker[p]
  /\ served[p] /\ spc[p] \in {"extract", "clean", "load", "files"} => Holds(p, latest[p])
  /\ served[p] /\ spc[p] \in {"clean", "load", "files"} => stage[p].files \subseteq files[p]
  /\ ~served[p] /\ spc[p] \in {"clean", "load", "files"} => stage[p] = latest[p]
  /\ spc[p] = "finish" => Holds(p, latest[p])

Moved(p) == /\ ~live[p] /\ FirstStart(p) /\ GoodBackups(p)
            /\ GoodPosts(p) /\ GoodRestore(p)
            /\ \A j \in Job : GoodDraft(p, j)

FlawlessInv == ~faulty /\ nCrashes = 0 => \A p \in PC : Moved(p)

\* What Moved speaks of, at one PC.
Here(p) == <<mm[p], pg[p], files[p], kept[p], latest[p], marker[p], bpc[p],
             draft[p], spc[p], stage[p], live[p], served[p]>>

LEMMA MovedFrame ==
  ASSUME NEW p \in PC, Moved(p), UNCHANGED Here(p)
  PROVE  Moved(p)'
BY DEF Here, Moved, FirstStart, GoodDraft, GoodBackups, GoodPosts, GoodRestore, Complete,
       Holds, Busy

-----------------------------------------------------------------------------
\* People write and start BOGO; nothing leaves the database or the volume.
LEMMA MovedWrite ==
  ASSUME TypeOK, StoppedInRestore, NEW p \in PC, Moved(p), Write(p)
  PROVE  Moved(p)'
<1> USE DEF TypeOK, Write, folderVars, backupVars, startVars
<1>1. pg'[p] = pg[p] \cup {nPosts'} /\ files'[p] = files[p] \cup {nPosts'}
      OBVIOUS
<1>2. mm[p] = "up" /\ spc[p] \notin {"clean", "load", "files", "finish"} /\ ~live[p]
      BY DEF StoppedInRestore, Moved
<1>3. FirstStart(p)' BY <1>2 DEF Moved, FirstStart, Busy
<1>4. ASSUME NEW j \in Job PROVE GoodDraft(p, j)'
      BY <1>1 DEF Moved, GoodDraft
<1>5. GoodBackups(p)' BY DEF Moved, GoodBackups, Complete
<1>6. GoodPosts(p)' BY <1>1, <1>2 DEF Moved, GoodPosts
<1>7. GoodRestore(p)' BY <1>1 DEF Moved, GoodRestore, Holds
<1> QED BY <1>2, <1>3, <1>4, <1>5, <1>6, <1>7 DEF Moved

\* The folder is copied to a PC that has nothing but its folder.
LEMMA MovedCopy ==
  ASSUME TypeOK, NEW p \in PC, NEW q \in PC, Moved(p), Moved(q), CopyFolder(p, q)
  PROVE  Moved(q)'
<1> USE DEF TypeOK, CopyFolder, dataVars, backupVars, startVars
<1>1. latest'[q] = latest[p] /\ kept'[q] = kept[p] /\ ~served[q] /\ spc[q] = "idle"
      BY DEF Moved, FirstStart
<1>2. FirstStart(q)' BY DEF Moved, FirstStart, Busy
<1>3. ASSUME NEW j \in Job PROVE GoodDraft(q, j)'
      BY DEF Moved, GoodDraft
<1>4. GoodBackups(q)' BY <1>1 DEF Moved, GoodBackups, Complete
<1>5. GoodPosts(q)' BY DEF Moved, GoodPosts
<1>6. GoodRestore(q)' BY <1>1 DEF Moved, GoodRestore
<1> QED BY <1>2, <1>3, <1>4, <1>5, <1>6 DEF Moved

-----------------------------------------------------------------------------
(* The backup script: a backup runs only where a start has ended, and what *)
(* it holds is in the volume, so that whatever start is under way meets a  *)
(* new latest unharmed.                                                    *)

\* What a step of a backup need show.
LEMMA MovedBacks ==
  ASSUME TypeOK, NEW p \in PC, NEW j \in Job, Moved(p), served[p],
         UNCHANGED <<dataVars, marker, startVars>>,
         \A i \in Job \ {j} : bpc'[p][i] = bpc[p][i] /\ draft'[p][i] = draft[p][i],
         GoodDraft(p, j)',
         latest'[p] = latest[p] \/ (Complete(latest'[p]) /\ Holds(p, latest'[p])),
         \A b \in kept'[p] : b \in kept[p] \/ Complete(b)
  PROVE  Moved(p)'
<1> USE DEF dataVars, startVars
<1>1. FirstStart(p)' BY DEF Moved, FirstStart
<1>2. ASSUME NEW i \in Job PROVE GoodDraft(p, i)'
  <2>1. CASE i = j BY <2>1
  <2>2. CASE i # j BY <2>2 DEF Moved, GoodDraft
  <2> QED BY <2>1, <2>2
<1>3. GoodBackups(p)' BY DEF Moved, GoodBackups, Complete
<1>4. GoodPosts(p)' BY DEF Moved, GoodPosts
<1>5. GoodRestore(p)' BY DEF Moved, GoodRestore, Holds
<1> QED BY <1>1, <1>2, <1>3, <1>4, <1>5 DEF Moved

LEMMA MovedDump ==
  ASSUME TypeOK, NEW p \in PC, NEW j \in Job, Moved(p), DumpPg(p, j)
  PROVE  Moved(p)'
<1> USE DEF dataVars, folderVars, startVars
<1> DEFINE b == [stamp |-> nBackups + 1, sound |-> TRUE, pg |-> pg[p], files |-> {}]
<1>1. b \in Backup
      BY DEF TypeOK, Backup
<1>2. draft'[p][j] = b /\ \A i \in Job \ {j} : draft'[p][i] = draft[p][i]
  <2>1. draft' = [draft EXCEPT ![p][j] = b] /\ draft \in [PC -> [Job -> Backup]]
        BY DEF DumpPg, TypeOK
  <2> HIDE DEF b
  <2> QED BY <1>1, <2>1, JobSet
<1>3. bpc'[p][j] = "files" /\ \A i \in Job \ {j} : bpc'[p][i] = bpc[p][i]
      BY StepSets DEF DumpPg, BackupSteps
<1>4. served[p] /\ pg[p] \subseteq files[p]
      BY DEF DumpPg, Moved, FirstStart, GoodPosts
<1>5. UNCHANGED <<dataVars, folderVars, startVars>>
      BY DEF DumpPg
<1>6. GoodDraft(p, j)'
      BY <1>2, <1>3, <1>4, <1>5 DEF GoodDraft
<1> QED BY <1>2, <1>3, <1>4, <1>5, <1>6, MovedBacks

LEMMA MovedTar ==
  ASSUME TypeOK, NEW p \in PC, NEW j \in Job, Moved(p), TarFiles(p, j), ~faulty'
  PROVE  Moved(p)'
<1> USE DEF dataVars, folderVars, startVars
<1> DEFINE b == [draft[p][j] EXCEPT !.files = files[p]]
<1>1. draft[p][j] \in Backup /\ files[p] \in SUBSET Nat
      BY DEF TypeOK
<1>2. b \in Backup /\ b.pg = draft[p][j].pg /\ b.files = files[p]
      BY <1>1, FilesType
<1>3. draft'[p][j] = b /\ \A i \in Job \ {j} : draft'[p][i] = draft[p][i]
  <2>1. draft' = [draft EXCEPT ![p][j] = b] /\ draft \in [PC -> [Job -> Backup]]
        BY DEF TarFiles, TypeOK, Fails
  <2> HIDE DEF b
  <2> QED BY <1>2, <2>1, JobSet
<1>4. /\ bpc[p][j] = "files" /\ bpc'[p][j] = "bundle"
      /\ \A i \in Job \ {j} : bpc'[p][i] = bpc[p][i]
      BY StepSets DEF TarFiles, BackupSteps
<1>5. served[p]
      BY <1>4 DEF Moved, FirstStart, Busy
<1>6. UNCHANGED <<dataVars, folderVars, startVars>>
      BY DEF TarFiles
<1>7. draft[p][j].pg \subseteq files[p]
      BY <1>4 DEF Moved, GoodDraft
<1>8. GoodDraft(p, j)'
      BY <1>2, <1>3, <1>4, <1>6, <1>7 DEF GoodDraft
<1> QED BY <1>3, <1>4, <1>5, <1>6, <1>8, MovedBacks

LEMMA MovedBundle ==
  ASSUME TypeOK, NEW p \in PC, NEW j \in Job, Moved(p),
         BundleBegin(p, j) \/ BundleEnd(p, j) \/ CopyBegin(p, j) \/ CopyEnd(p, j) \/ Rotate(p, j)
  PROVE  Moved(p)'
<1> USE DEF dataVars, folderVars, startVars, counters, bounds
<1> DEFINE b == draft[p][j]
           t == Torn(draft[p][j])
<1>1. b \in Backup /\ t \in Backup /\ ~t.sound
      BY TornType DEF TypeOK
<1>2. bpc[p][j] \in {"bundle", "archive", "point", "copy", "rotate"}
      BY DEF BundleBegin, BundleEnd, CopyBegin, CopyEnd, Rotate
<1>3. served[p]
      BY <1>2 DEF Moved, FirstStart, Busy
<1>4. b.files \subseteq files[p] /\ b.pg \subseteq b.files
      BY <1>2 DEF Moved, GoodDraft
<1>5. Complete(b) /\ Holds(p, b) /\ Complete(t) /\ Holds(p, t)
      BY <1>1, <1>4 DEF Complete, Holds
<1>6. UNCHANGED <<dataVars, marker, startVars>>
      BY DEF BundleBegin, BundleEnd, CopyBegin, CopyEnd, Rotate
<1>7. \/ EndJob(p, j)
      \/ /\ draft' = draft
         /\ \E s \in BackupSteps \ {"idle", "files"} : Step(p, j, s)
      BY DEF BundleBegin, BundleEnd, CopyBegin, CopyEnd, Rotate, BackupSteps
<1>8. /\ \A i \in Job \ {j} : bpc'[p][i] = bpc[p][i] /\ draft'[p][i] = draft[p][i]
      /\ GoodDraft(p, j)'
  <2>1. CASE EndJob(p, j)
    <3>1. /\ bpc'[p][j] = "idle"
          /\ \A i \in Job \ {j} : bpc'[p][i] = bpc[p][i] /\ draft'[p][i] = draft[p][i]
          BY <2>1, EndSets
    <3>2. draft'[p][j] = NoBackup
          BY <2>1, JobSet, NoBackupType DEF EndJob, TypeOK
    <3>3. draft'[p][j].files = {}
          BY <3>2 DEF NoBackup
    <3> QED BY <3>1, <3>3 DEF GoodDraft
  <2>2. CASE draft' = draft /\ \E s \in BackupSteps \ {"idle", "files"} : Step(p, j, s)
    <3>1. PICK s \in BackupSteps \ {"idle", "files"} : Step(p, j, s)
          BY <2>2
    <3>2. bpc'[p][j] = s /\ \A i \in Job \ {j} : bpc'[p][i] = bpc[p][i]
          BY <3>1, StepSets
    <3> QED BY <1>4, <1>6, <2>2, <3>1, <3>2 DEF GoodDraft
  <2> QED BY <1>7, <2>1, <2>2
<1>9. latest'[p] = latest[p] \/ latest'[p] = b \/ latest'[p] = t
  <2>1. latest' = latest \/ latest' = [latest EXCEPT ![p] = b] \/ latest' = [latest EXCEPT ![p] = t]
        BY DEF BundleBegin, BundleEnd, CopyBegin, CopyEnd, Rotate
  <2> HIDE DEF b, t
  <2> QED BY <2>1 DEF TypeOK
<1>10. \A c \in kept'[p] : c \in kept[p] \/ c = b \/ c = t
  <2>1. \/ kept' = kept
        \/ kept' = [kept EXCEPT ![p] = @ \cup {t}]
        \/ kept' = [kept EXCEPT ![p] = (@ \ {t}) \cup {b}]
        \/ kept' = [kept EXCEPT ![p] = rotate_backups(@)]
        BY DEF BundleBegin, BundleEnd, CopyBegin, CopyEnd, Rotate
  <2>2. rotate_backups(kept[p]) \subseteq kept[p]
        BY DEF rotate_backups
  <2> HIDE DEF b, t
  <2> QED BY <2>1, <2>2 DEF TypeOK
<1>11. latest'[p] = latest[p] \/ (Complete(latest'[p]) /\ Holds(p, latest'[p]))
       BY <1>5, <1>9
<1>12. \A c \in kept'[p] : c \in kept[p] \/ Complete(c)
       BY <1>5, <1>10
<1> QED BY <1>3, <1>6, <1>8, <1>11, <1>12, MovedBacks

-----------------------------------------------------------------------------
(* The start pipeline *)

\* The backups under way do not notice it.
LEMMA DraftsStay ==
  ASSUME NEW p \in PC, Moved(p), UNCHANGED <<bpc, draft>>, files[p] \subseteq files'[p]
  PROVE  \A j \in Job : GoodDraft(p, j)'
BY DEF Moved, GoodDraft

LEMMA MovedStart ==
  ASSUME TypeOK, NEW p \in PC, Moved(p), ~faulty', Starts(p) \/ Finish(p)
  PROVE  Moved(p)'
<1> USE DEF TypeOK, dataVars, folderVars, backupVars, startVars, counters, bounds, Goto,
            StartSteps, Fails
<1>1. \A j \in Job : GoodDraft(p, j)'
  <2>1. UNCHANGED <<bpc, draft, files>>
        BY DEF Starts, Start, CheckMarker, StartBots, Finish
  <2> QED BY <2>1, DraftsStay
<1>2. Busy(p)' = Busy(p)
      BY DEF Busy, Starts, Start, CheckMarker, StartBots, Finish
<1>3. CASE Start(p)
  <2>1. spc[p] = "idle" /\ spc'[p] = "check" /\ mm'[p] = "up"
        BY <1>3 DEF Start
  <2>2. UNCHANGED <<pg, files, folderVars, stage, live, served>>
        BY <1>3 DEF Start
  <2> USE <2>1, <2>2 DEF Moved
  <2>3. FirstStart(p)' BY <1>2 DEF FirstStart
  <2>4. GoodBackups(p)' BY DEF GoodBackups, Complete
  <2>5. GoodPosts(p)' BY DEF GoodPosts
  <2>6. GoodRestore(p)' BY DEF GoodRestore, Holds
  <2> QED BY <1>1, <2>3, <2>4, <2>5, <2>6
<1>4. CASE CheckMarker(p)
  <2>1. /\ spc[p] = "check"
        /\ \/ /\ spc'[p] = "bots"
              /\ ~latest[p].sound \/ backup_fingerprint(latest[p]) = marker[p]
           \/ spc'[p] = "extract" /\ backup_fingerprint(latest[p]) # marker[p]
        BY <1>4 DEF CheckMarker, NoBackup
  <2>2. UNCHANGED <<mm, pg, files, folderVars, stage, live, served>>
        BY <1>4 DEF CheckMarker
  <2> USE <2>1, <2>2 DEF Moved
  <2>3. FirstStart(p)' BY <1>2 DEF FirstStart
  <2>4. GoodBackups(p)' BY DEF GoodBackups, Complete
  <2>5. GoodPosts(p)' BY DEF GoodPosts
  <2>6. GoodRestore(p)' BY DEF GoodRestore, Holds
  <2> QED BY <1>1, <2>3, <2>4, <2>5, <2>6
<1>5. CASE Finish(p)
  <2>1. spc[p] = "finish" /\ spc'[p] = "bots" /\ mm'[p] = "up"
        BY <1>5 DEF Finish
  <2>2. UNCHANGED <<pg, files, kept, latest, stage, live, served>>
        BY <1>5 DEF Finish
  <2> USE <2>1, <2>2 DEF Moved
  <2>3. FirstStart(p)' BY <1>2 DEF FirstStart
  <2>4. GoodBackups(p)' BY DEF GoodBackups, Complete
  <2>5. GoodPosts(p)' BY DEF GoodPosts
  <2>6. GoodRestore(p)' BY DEF GoodRestore, Holds
  <2> QED BY <1>1, <2>3, <2>4, <2>5, <2>6
<1>6. CASE StartBots(p)
  <2>1. spc[p] = "bots" /\ spc'[p] = "idle" /\ served'[p] /\ mm'[p] = "up"
        BY <1>6 DEF StartBots
  <2>2. UNCHANGED <<pg, files, folderVars>>
        BY <1>6 DEF StartBots
  <2>3. stage'[p] = NoBackup /\ ~live'[p]
        BY <1>6 DEF StartBots, ScriptGone
  <2>4. stage'[p].pg = {}
        BY <2>3 DEF NoBackup
  <2> USE <2>1, <2>2 DEF Moved
  <2>5. FirstStart(p)' BY <1>2 DEF FirstStart
  <2>6. GoodBackups(p)' BY <2>4 DEF GoodBackups, Complete
  <2>7. GoodPosts(p)' BY DEF GoodPosts
  <2>8. GoodRestore(p)' BY DEF GoodRestore, Holds
  <2> QED BY <1>1, <2>3, <2>5, <2>6, <2>7, <2>8
<1> QED BY <1>3, <1>4, <1>5, <1>6 DEF Starts

LEMMA MovedRestore ==
  ASSUME TypeOK, NEW p \in PC, Moved(p), ~faulty',
         Extract(p) \/ CleanPg(p) \/ LoadPg(p) \/ RestoreFiles(p)
  PROVE  Moved(p)'
<1> USE DEF TypeOK, folderVars, backupVars, bounds, Goto, Fails
<1>1. \A j \in Job : GoodDraft(p, j)'
  <2>1. UNCHANGED <<bpc, draft>>
        BY DEF Extract, CleanPg, LoadPg, RestoreFiles
  <2>2. files' = files \/ files' = [files EXCEPT ![p] = @ \cup stage[p].files]
        BY DEF Extract, CleanPg, LoadPg, RestoreFiles
  <2>3. files[p] \subseteq files'[p]
        BY <2>2
  <2> QED BY <2>1, <2>3, DraftsStay
<1>2. Busy(p)' = Busy(p)
      BY DEF Busy, Extract, CleanPg, LoadPg, RestoreFiles
<1>3. UNCHANGED <<kept, latest, marker, served>>
      BY DEF Extract, CleanPg, LoadPg, RestoreFiles
<1>4. CASE Extract(p)
  <2>1. /\ spc[p] = "extract"
        /\ \/ /\ spc'[p] = "clean" /\ mm'[p] = "stopped" /\ ~live'[p]
              /\ latest[p].sound /\ stage'[p] = latest[p]
           \/ spc'[p] = "bots" /\ ~latest[p].sound /\ UNCHANGED <<stage, mm, live>>
        BY <1>4 DEF Extract, Unpack
  <2>2. UNCHANGED <<pg, files>>
        BY <1>4 DEF Extract
  <2> USE <1>3, <2>1, <2>2 DEF Moved
  <2>3. FirstStart(p)' BY <1>2 DEF FirstStart
  <2>4. GoodBackups(p)' BY DEF GoodBackups, Complete
  <2>5. GoodPosts(p)' BY DEF GoodPosts
  <2>6. GoodRestore(p)' BY DEF GoodRestore, Holds
  <2> QED BY <1>1, <2>3, <2>4, <2>5, <2>6
<1>5. CASE CleanPg(p)
  <2>1. spc[p] = "clean" /\ spc'[p] = "load" /\ pg'[p] = {}
        BY <1>5 DEF CleanPg
  <2>2. UNCHANGED <<mm, files, stage, live>>
        BY <1>5 DEF CleanPg
  <2> USE <1>3, <2>1, <2>2 DEF Moved
  <2>3. FirstStart(p)' BY <1>2 DEF FirstStart
  <2>4. GoodBackups(p)' BY DEF GoodBackups, Complete
  <2>5. GoodPosts(p)' BY DEF GoodPosts
  <2>6. GoodRestore(p)' BY DEF GoodRestore, Holds
  <2> QED BY <1>1, <2>3, <2>4, <2>5, <2>6
<1>6. CASE LoadPg(p)
  <2>1. spc[p] = "load" /\ spc'[p] = "files" /\ pg'[p] = pg[p] \cup stage[p].pg
        BY <1>6 DEF LoadPg
  <2>2. UNCHANGED <<mm, files, stage, live>>
        BY <1>6 DEF LoadPg
  <2> USE <1>3, <2>1, <2>2 DEF Moved
  <2>3. FirstStart(p)' BY <1>2 DEF FirstStart
  <2>4. GoodBackups(p)' BY DEF GoodBackups, Complete
  <2>5. GoodPosts(p)' BY DEF GoodPosts, GoodBackups, GoodRestore
  <2>6. GoodRestore(p)' BY DEF GoodRestore, Holds
  <2> QED BY <1>1, <2>3, <2>4, <2>5, <2>6
<1>7. CASE RestoreFiles(p)
  <2>1. spc[p] = "files" /\ spc'[p] = "finish" /\ files'[p] = files[p] \cup stage[p].files
        BY <1>7 DEF RestoreFiles
  <2>2. UNCHANGED <<mm, pg, stage, live>>
        BY <1>7 DEF RestoreFiles
  <2> USE <1>3, <2>1, <2>2 DEF Moved
  <2>3. FirstStart(p)' BY <1>2 DEF FirstStart
  <2>4. GoodBackups(p)' BY DEF GoodBackups, Complete
  <2>5. GoodPosts(p)' BY DEF GoodPosts
  <2>6. GoodRestore(p)' BY DEF GoodRestore, Holds
  <2> QED BY <1>1, <2>3, <2>4, <2>5, <2>6
<1> QED BY <1>4, <1>5, <1>6, <1>7

-----------------------------------------------------------------------------
\* A step that leaves no failure behind keeps every PC in order.
FlawlessBase == TypeOK /\ StoppedInRestore

LEMMA FlawlessStep == FlawlessBase /\ FlawlessInv /\ [Next]_vars => FlawlessInv'
<1> SUFFICES ASSUME FlawlessBase, FlawlessInv, [Next]_vars, ~faulty', nCrashes' = 0, NEW q \in PC
             PROVE  Moved(q)'
    BY DEF FlawlessInv
<1> USE DEF FlawlessBase
<1>1. CASE UNCHANGED vars
  <2>1. ~faulty /\ nCrashes = 0 /\ UNCHANGED Here(q)
        BY <1>1 DEF vars, dataVars, folderVars, backupVars, startVars, counters, bounds, Here
  <2> QED BY <2>1, MovedFrame DEF FlawlessInv
<1>2. CASE Next
  <2>1. PICK p \in PC : \/ Write(p) \/ Crash(p) \/ \E r \in PC : CopyFolder(p, r)
                        \/ \E j \in Job : Backs(p, j)
                        \/ Starts(p) \/ Restores(p)
        BY <1>2 DEF Next
  <2>2. ~Crash(p)
        BY DEF Crash, TypeOK
  <2>3. ~faulty /\ nCrashes = 0
    <3>1. CASE Write(p) \/ \E r \in PC : CopyFolder(p, r)
          BY <3>1 DEF Write, CopyFolder, counters, bounds
    <3>2. CASE \E j \in Job : Backs(p, j)
      <4>1. nCrashes' = nCrashes /\ (faulty' = faulty \/ faulty' = TRUE)
            BY <3>2 DEF Backs, DumpPg, TarFiles, BundleBegin, BundleEnd, CopyBegin, CopyEnd,
                        Rotate, Works, Fails, counters, bounds
      <4> QED BY <4>1
    <3>3. CASE Starts(p) \/ Restores(p)
      <4>1. nCrashes' = nCrashes /\ (faulty' = faulty \/ faulty' = TRUE)
            BY <3>3 DEF Starts, Restores, Start, CheckMarker, StartBots, Extract, CleanPg, LoadPg,
                        RestoreFiles, Finish, Works, Fails, counters, bounds
      <4> QED BY <4>1
    <3> QED BY <2>1, <2>2, <3>1, <3>2, <3>3
  <2>4. \A r \in PC : Moved(r)
        BY <2>3 DEF FlawlessInv
  <2>5. CASE CopyFolder(p, q)
        BY <2>4, <2>5, MovedCopy
  <2>6. CASE q = p /\ ~CopyFolder(p, q)
    <3>1. CASE \E r \in PC : CopyFolder(p, r)
      <4>1. UNCHANGED Here(q)
            BY <2>6, <3>1 DEF CopyFolder, TypeOK, dataVars, backupVars, startVars, Here
      <4> QED BY <2>4, <4>1, MovedFrame
    <3>2. CASE \E j \in Job : Backs(p, j)
          BY <2>4, <2>6, <3>2, MovedDump, MovedTar, MovedBundle DEF Backs
    <3> QED BY <2>1, <2>2, <2>4, <2>6, <3>1, <3>2, MovedWrite, MovedStart, MovedRestore DEF Restores
  <2>7. CASE q # p /\ ~CopyFolder(p, q)
    <3>1. UNCHANGED Seen(q)
          BY <2>1, <2>7, OthersSeen
    <3>2. UNCHANGED <<pg[q], files[q], marker[q]>>
      <4>1. CASE Write(p) \/ \E r \in PC : CopyFolder(p, r)
            BY <2>7, <4>1 DEF Write, CopyFolder, folderVars, dataVars, TypeOK
      <4>2. CASE \E j \in Job : Backs(p, j)
            BY <4>2 DEF Backs, DumpPg, TarFiles, BundleBegin, BundleEnd, CopyBegin, CopyEnd,
                        Rotate, dataVars, folderVars
      <4>3. CASE Starts(p)
            BY <4>3 DEF Starts, Start, CheckMarker, StartBots, dataVars, folderVars
      <4>4. CASE Restores(p)
        <5>1. pg' = pg \/ \E v : pg' = [pg EXCEPT ![p] = v]
              BY <4>4 DEF Restores, Extract, CleanPg, LoadPg, RestoreFiles, Finish
        <5>2. files' = files \/ \E v : files' = [files EXCEPT ![p] = v]
              BY <4>4 DEF Restores, Extract, CleanPg, LoadPg, RestoreFiles, Finish
        <5>3. marker' = marker \/ marker' = [marker EXCEPT ![p] = fp[p]]
              BY <4>4 DEF Restores, Extract, CleanPg, LoadPg, RestoreFiles, Finish, folderVars
        <5> QED BY <2>7, <5>1, <5>2, <5>3 DEF TypeOK
      <4> QED BY <2>1, <2>2, <4>1, <4>2, <4>3, <4>4
    <3>3. UNCHANGED <<spc[q], stage[q], live[q], served[q]>>
      <4>1. CASE Write(p) \/ \E r \in PC : CopyFolder(p, r)
            BY <4>1 DEF Write, CopyFolder, startVars
      <4>2. CASE \E j \in Job : Backs(p, j)
            BY <4>2 DEF Backs, DumpPg, TarFiles, BundleBegin, BundleEnd, CopyBegin, CopyEnd,
                        Rotate, startVars
      <4>3. CASE Starts(p) \/ Restores(p)
        <5>1. spc' = spc \/ \E v : spc' = [spc EXCEPT ![p] = v]
              BY <4>3 DEF Starts, Restores, Start, CheckMarker, StartBots, Extract, CleanPg,
                          LoadPg, RestoreFiles, Finish, Goto
        <5>2. stage' = stage \/ \E v : stage' = [stage EXCEPT ![p] = v]
              BY <4>3 DEF Starts, Restores, Start, CheckMarker, StartBots, Extract, CleanPg,
                          LoadPg, RestoreFiles, Finish, Unpack, ScriptGone
        <5>3. live' = live \/ \E v : live' = [live EXCEPT ![p] = v]
              BY <4>3 DEF Starts, Restores, Start, CheckMarker, StartBots, Extract, CleanPg,
                          LoadPg, RestoreFiles, Finish, ScriptGone
        <5>4. served' = served \/ \E v : served' = [served EXCEPT ![p] = v]
              BY <4>3 DEF Starts, Restores, Start, CheckMarker, StartBots, Extract, CleanPg,
                          LoadPg, RestoreFiles, Finish
        <5> QED BY <2>7, <5>1, <5>2, <5>3, <5>4 DEF TypeOK
      <4> QED BY <2>1, <2>2, <4>1, <4>2, <4>3
    <3>4. UNCHANGED Here(q)
          BY <3>1, <3>2, <3>3 DEF Here, Seen
    <3> QED BY <2>4, <3>4, MovedFrame
  <2> QED BY <2>5, <2>6, <2>7
<1> QED BY <1>1, <1>2

LEMMA FlawlessInit == Init => FlawlessInv
<1> SUFFICES ASSUME Init, NEW p \in PC PROVE Moved(p)
    BY DEF FlawlessInv
<1>1. /\ latest[p] = NoBackup /\ stage[p] = NoBackup /\ kept[p] = {} /\ files[p] = {}
      /\ pg[p] = {} /\ mm[p] = "none" /\ ~served[p] /\ spc[p] = "idle" /\ ~live[p]
      BY DEF Init
<1>2. NoBackup.files = {} /\ NoBackup.pg = {}
      BY DEF NoBackup
<1>3. \A j \in Job : bpc[p][j] = "idle" /\ draft[p][j] = NoBackup
      BY DEF Init
<1>4. FirstStart(p) /\ GoodPosts(p) /\ GoodRestore(p)
      BY <1>1, <1>3 DEF FirstStart, GoodPosts, GoodRestore, Busy
<1>5. GoodBackups(p)
      BY <1>1, <1>2 DEF GoodBackups, Complete
<1>6. \A j \in Job : GoodDraft(p, j)
      BY <1>1, <1>2, <1>3 DEF GoodDraft
<1> QED BY <1>1, <1>4, <1>5, <1>6 DEF Moved

\* Without a failing command or a power failure, no whole archive holds a post
\* without its attachment, and no server that is up shows one, whatever the
\* interleaving of people, timers, starts and copies, and however many backups
\* overlap (bogo_backup.sh, bogo_restore.sh).
THEOREM MovesComplete == Spec => []NothingDangles
<1>1. FlawlessBase /\ FlawlessInv => NothingDangles
  <2> SUFFICES ASSUME FlawlessBase, FlawlessInv, ~faulty, nCrashes = 0
               PROVE  /\ \A b \in Backups : b.sound => b.pg \subseteq b.files
                      /\ \A p \in PC : mm[p] = "up" => pg[p] \subseteq files[p]
      BY DEF NothingDangles
  <2>1. \A p \in PC : Moved(p)
        BY DEF FlawlessInv
  <2>2. \A b \in Backups : b.sound => b.pg \subseteq b.files
        BY <2>1 DEF Backups, Moved, GoodBackups, Complete
  <2>3. \A p \in PC : mm[p] = "up" => pg[p] \subseteq files[p]
        BY <2>1 DEF Moved, GoodPosts, FlawlessBase, StoppedInRestore
  <2> QED BY <2>2, <2>3
<1>2. Init => FlawlessBase
      BY TypeInit, StoppedInit DEF FlawlessBase
<1>3. FlawlessBase /\ [Next]_vars => FlawlessBase'
      BY TypeStep, StoppedStep DEF FlawlessBase
<1> QED BY <1>1, <1>2, <1>3, FlawlessInit, FlawlessStep, PTL DEF Spec
=============================================================================
