------------------------------ MODULE Migration ------------------------------
(***************************************************************************)
(* Moving BOGO between PCs: migration/bogo_backup.sh, which writes backups *)
(* into the program folder by timer, by hand and before a stop, without a  *)
(* lock; migration/bogo_restore.sh; and the start pipeline of              *)
(* bogo_oneclick.sh that calls it on every start between bringing up the   *)
(* containers and registering the services.  The folder (backups and       *)
(* restore marker) is what people copy; the chat lives in the Docker       *)
(* volumes and stays.                                                      *)
(***************************************************************************)
EXTENDS Integers, FiniteSets

CONSTANTS
  PC,           \* the computers
  Job,          \* the backups that may be under way on a PC at once
  RETAIN,       \* backups kept
  MaxPosts,     \* bound: posts ever written
  MaxBackups,   \* bound: backups ever begun
  MaxStarts,    \* bound: starts ever begun
  MaxCrashes    \* bound: power failures

VARIABLES
  mm,       \* mm[p]: container bogo-mm: "none", "up", "stopped"
  pg,       \* pg[p]: the posts in the database of p
  files,    \* files[p]: the posts whose attachment is in the MM data volume
  kept,     \* kept[p]: the bogo_backup_<stamp> files in p's folder
  latest,   \* latest[p]: bogo_backup_latest (NoBackup: none)
  marker,   \* marker[p]: fingerprint in .bogo_restored
  bpc,      \* bpc[p][j]: the step of backup j
  draft,    \* draft[p][j]: what it has gathered, then its archive
  together, \* together[p]: the backups under way, or the last, overlapped
  astray,   \* astray[p]: since the last backup that ran alone to its copy, one
            \* has overlapped another or has not been copied to latest
  spc,      \* spc[p]: the step of the start pipeline
  fp,       \* fp[p]: fingerprint the restore script computed
  stage,    \* stage[p]: the backup it extracted
  live,     \* live[p]: it could not stop Mattermost
  served,   \* served[p]: a start has registered p's backup timer
  faulty,   \* some docker, tar, cp or pg command has failed
  nPosts, nBackups, nStarts, nCrashes

dataVars   == <<mm, pg, files>>
folderVars == <<kept, latest, marker>>
backupVars == <<bpc, draft, together, astray>>
startVars  == <<spc, fp, stage, live, served>>
bounds     == <<nPosts, nBackups, nStarts, nCrashes>>
counters   == <<faulty, bounds>>
vars == <<dataVars, folderVars, backupVars, startVars, counters>>

\* An archive: the stamp in its name, whether it is all there, its posts, its
\* attachments (none when the volume could not be read).
Backup   == [stamp: Nat, sound: BOOLEAN, pg: SUBSET Nat, files: SUBSET Nat]
NoBackup == [stamp |-> 0, sound |-> FALSE, pg |-> {}, files |-> {}]
Torn(b)  == [b EXCEPT !.sound = FALSE]
backup_fingerprint(b) == <<b.stamp, b.sound>>

BackupSteps == {"idle", "files", "bundle", "archive", "point", "copy", "rotate"}
StartSteps  == {"idle", "check", "extract", "clean", "load", "files", "finish", "bots"}

ASSUME MigrationOK == /\ RETAIN \in Nat \ {0}
                      /\ MaxPosts \in Nat /\ MaxBackups \in Nat
                      /\ MaxStarts \in Nat /\ MaxCrashes \in Nat

Init ==
  /\ mm = [p \in PC |-> "none"] /\ pg = [p \in PC |-> {}] /\ files = [p \in PC |-> {}]
  /\ kept = [p \in PC |-> {}] /\ latest = [p \in PC |-> NoBackup]
  /\ marker = [p \in PC |-> backup_fingerprint(NoBackup)]
  /\ bpc = [p \in PC |-> [j \in Job |-> "idle"]]
  /\ draft = [p \in PC |-> [j \in Job |-> NoBackup]]
  /\ together = [p \in PC |-> FALSE] /\ astray = [p \in PC |-> FALSE]
  /\ spc = [p \in PC |-> "idle"] /\ fp = [p \in PC |-> backup_fingerprint(NoBackup)]
  /\ stage = [p \in PC |-> NoBackup] /\ live = [p \in PC |-> FALSE]
  /\ served = [p \in PC |-> FALSE]
  /\ faulty = FALSE /\ nPosts = 0 /\ nBackups = 0 /\ nStarts = 0 /\ nCrashes = 0

-----------------------------------------------------------------------------
Busy(p)    == {j \in Job : bpc[p][j] # "idle"}
Copying(p) == \E j \in Job : bpc[p][j] \in {"point", "copy"}

Works == UNCHANGED faulty
Fails == faulty' = TRUE

(* People *)

\* Somebody writes a post with an attachment.
Write(p) ==
  /\ mm[p] = "up" /\ nPosts < MaxPosts
  /\ nPosts' = nPosts + 1
  /\ pg' = [pg EXCEPT ![p] = @ \cup {nPosts'}]
  /\ files' = [files EXCEPT ![p] = @ \cup {nPosts'}]
  /\ UNCHANGED <<mm, folderVars, backupVars, startVars, faulty, nBackups, nStarts, nCrashes>>

\* The program folder of p, dot files included, is copied to a PC that has never
\* run BOGO, perhaps in the middle of a backup.
CopyFolder(p, q) ==
  /\ p # q /\ mm[p] # "none" /\ spc[p] = "idle"
  /\ mm[q] = "none" /\ kept[q] = {} /\ spc[q] = "idle"
  /\ kept' = [kept EXCEPT ![q] = kept[p]]
  /\ latest' = [latest EXCEPT ![q] = latest[p]]
  /\ marker' = [marker EXCEPT ![q] = marker[p]]
  /\ astray' = [astray EXCEPT ![q] = @ \/ astray[p] \/ Copying(p)]
  /\ UNCHANGED <<dataVars, bpc, draft, together, startVars, counters>>

\* What a restore had in its variables and its temporary folder ends with it.
ScriptGone(p) == /\ fp' = [fp EXCEPT ![p] = backup_fingerprint(NoBackup)]
                 /\ stage' = [stage EXCEPT ![p] = NoBackup]
                 /\ live' = [live EXCEPT ![p] = FALSE]

\* The power fails.  A container that was stopped by hand stays stopped.
Crash(p) ==
  /\ nCrashes < MaxCrashes /\ mm[p] # "none"
  /\ nCrashes' = nCrashes + 1
  /\ bpc' = [bpc EXCEPT ![p] = [j \in Job |-> "idle"]]
  /\ draft' = [draft EXCEPT ![p] = [j \in Job |-> NoBackup]]
  /\ astray' = [astray EXCEPT ![p] = @ \/ Copying(p)]
  /\ spc' = [spc EXCEPT ![p] = "idle"]
  /\ ScriptGone(p)
  /\ UNCHANGED <<dataVars, folderVars, together, served, faulty, nPosts, nBackups, nStarts>>

-----------------------------------------------------------------------------
(* bogo_backup.sh: run by hand, by the stop command, or by the timer of a PC *)
(* on which a start has registered it                                        *)

Step(p, j, step) == bpc' = [bpc EXCEPT ![p][j] = step]
EndJob(p, j) == Step(p, j, "idle") /\ draft' = [draft EXCEPT ![p][j] = NoBackup]

\* The stamp is taken, then the database is dumped (logically or, if that
\* fails, as its volume).
DumpPg(p, j) ==
  /\ bpc[p][j] = "idle" /\ mm[p] # "none" /\ nBackups < MaxBackups
  /\ spc[p] = "idle" \/ served[p]
  /\ nBackups' = nBackups + 1
  /\ draft' = [draft EXCEPT ![p][j] =
                 [stamp |-> nBackups', sound |-> TRUE, pg |-> pg[p], files |-> {}]]
  /\ together' = [together EXCEPT ![p] = Busy(p) # {}]
  /\ astray' = [astray EXCEPT ![p] = @ \/ Busy(p) # {}]
  /\ Step(p, j, "files")
  /\ UNCHANGED <<dataVars, folderVars, startVars, faulty, nPosts, nStarts, nCrashes>>

\* Then the volumes of Mattermost; of one that cannot be read to its end a part, or
\* nothing, is taken.
TarFiles(p, j) ==
  /\ bpc[p][j] = "files"
  /\ \/ draft' = [draft EXCEPT ![p][j] = [@ EXCEPT !.files = files[p]]] /\ Works
     \/ Fails /\ \E S \in SUBSET files[p] :
                  draft' = [draft EXCEPT ![p][j] = [@ EXCEPT !.files = S]]
  /\ Step(p, j, "bundle")
  /\ UNCHANGED <<dataVars, folderVars, together, astray, startVars, bounds>>

\* The archive appears in the folder under its stamp, unless the database has
\* not been dumped either way or the file cannot be made.
BundleBegin(p, j) ==
  /\ bpc[p][j] = "bundle"
  /\ \/ /\ kept' = [kept EXCEPT ![p] = @ \cup {Torn(draft[p][j])}]
        /\ Step(p, j, "archive") /\ Works /\ UNCHANGED draft
     \/ Fails /\ EndJob(p, j) /\ UNCHANGED kept
  /\ UNCHANGED <<dataVars, latest, marker, together, astray, startVars, bounds>>

\* Slip: the archive is not checked.
BundleEnd_unchecked(p, j) ==
  /\ bpc[p][j] = "archive" /\ Torn(draft[p][j]) \in kept[p]
  /\ \/ /\ kept' = [kept EXCEPT ![p] = (@ \ {Torn(draft[p][j])}) \cup {draft[p][j]}]
        /\ Works /\ UNCHANGED draft
     \/ Fails /\ UNCHANGED kept /\ draft' = [draft EXCEPT ![p][j] = Torn(@)]
  /\ Step(p, j, "point")
  /\ UNCHANGED <<dataVars, latest, marker, together, astray, startVars, bounds>>

\* It is whole and can be listed, or the script ends and leaves it as it is;
\* another backup may have pruned it.
BundleEnd(p, j) ==
  /\ bpc[p][j] = "archive"
  /\ \/ /\ Torn(draft[p][j]) \in kept[p]
        /\ kept' = [kept EXCEPT ![p] = (@ \ {Torn(draft[p][j])}) \cup {draft[p][j]}]
        /\ Step(p, j, "point") /\ Works /\ UNCHANGED draft
     \/ /\ Torn(draft[p][j]) \notin kept[p]
        /\ EndJob(p, j) /\ Works /\ UNCHANGED kept
     \/ Fails /\ EndJob(p, j) /\ UNCHANGED kept
  /\ UNCHANGED <<dataVars, latest, marker, together, astray, startVars, bounds>>

\* cp truncates the latest pointer, unless its source has been pruned meanwhile
\* or it fails; the script goes on.
CopyBegin(p, j) ==
  /\ bpc[p][j] = "point"
  /\ \/ /\ draft[p][j] \in kept[p]
        /\ latest' = [latest EXCEPT ![p] = Torn(draft[p][j])]
        /\ Step(p, j, "copy") /\ Works /\ UNCHANGED astray
     \/ /\ (draft[p][j] \notin kept[p] /\ Works) \/ Fails
        /\ Step(p, j, "rotate") /\ UNCHANGED latest
        /\ astray' = [astray EXCEPT ![p] = TRUE]
  /\ UNCHANGED <<dataVars, kept, marker, draft, together, startVars, bounds>>

\* Two copies at once leave one of them, or a mixture.
CopyEnd(p, j) ==
  LET b == draft[p][j]
      alone == latest[p] = Torn(b) /\ \A i \in Job \ {j} : bpc[p][i] # "copy"
  IN
  /\ bpc[p][j] = "copy"
  /\ \/ /\ latest' = [latest EXCEPT ![p] = b]
        /\ astray' = [astray EXCEPT ![p] = together[p]] /\ Works
     \/ /\ (~alone /\ Works) \/ Fails
        /\ latest' = [latest EXCEPT ![p] = Torn(b)] \/ UNCHANGED latest
        /\ astray' = [astray EXCEPT ![p] = TRUE]
  /\ Step(p, j, "rotate")
  /\ UNCHANGED <<dataVars, kept, marker, draft, together, startVars, bounds>>

\* Slip: the oldest are kept.
rotate_backups_oldest(S) ==
  {b \in S : Cardinality({c \in S : c.stamp < b.stamp}) < RETAIN}

\* The RETAIN newest by their names stay, whole or not.
rotate_backups(S) ==
  {b \in S : Cardinality({c \in S : c.stamp > b.stamp}) < RETAIN}

Rotate(p, j) ==
  /\ bpc[p][j] = "rotate"
  /\ kept' = [kept EXCEPT ![p] = rotate_backups(@)]
  /\ EndJob(p, j)
  /\ UNCHANGED <<dataVars, latest, marker, together, astray, startVars, counters>>

-----------------------------------------------------------------------------
(* bogo_oneclick.sh start *)

Goto(p, step) == spc' = [spc EXCEPT ![p] = step]

\* step_infra creates the containers or starts them again.
Start(p) ==
  /\ spc[p] = "idle" /\ nStarts < MaxStarts
  /\ Busy(p) = {} \/ served[p]
  /\ nStarts' = nStarts + 1
  /\ \/ mm' = [mm EXCEPT ![p] = "up"] /\ Goto(p, "check") /\ Works
     \/ Fails /\ UNCHANGED spc /\ (mm' = [mm EXCEPT ![p] = "up"] \/ UNCHANGED mm)
  /\ UNCHANGED <<pg, files, folderVars, backupVars, fp, stage, live, served,
                 nPosts, nBackups, nCrashes>>

\* step_restore: nothing to do without a backup, or with the one in the marker.
CheckMarker(p) ==
  /\ spc[p] = "check"
  /\ fp' = [fp EXCEPT ![p] = backup_fingerprint(latest[p])]
  /\ IF latest[p] = NoBackup \/ backup_fingerprint(latest[p]) = marker[p]
     THEN Goto(p, "bots") ELSE Goto(p, "extract")
  /\ UNCHANGED <<dataVars, folderVars, backupVars, stage, live, served, counters>>

\* The latest backup, which may be another one by now, is unpacked; one that is
\* not whole cannot be.
Unpack(p) ==
  latest[p].sound /\ stage' = [stage EXCEPT ![p] = latest[p]]

\* Slip: Mattermost is not stopped.
Extract_live(p) ==
  /\ spc[p] = "extract" /\ Unpack(p) /\ Goto(p, "clean")
  /\ live' = [live EXCEPT ![p] = FALSE]
  /\ UNCHANGED <<dataVars, folderVars, backupVars, fp, served, counters>>

\* Then Mattermost is stopped; that this may fail is ignored.
Extract(p) ==
  /\ spc[p] = "extract"
  /\ \/ /\ Unpack(p) /\ Goto(p, "clean")
        /\ \/ /\ mm' = [mm EXCEPT ![p] = "stopped"] /\ Works
              /\ live' = [live EXCEPT ![p] = FALSE]
           \/ Fails /\ UNCHANGED mm /\ live' = [live EXCEPT ![p] = TRUE]
     \/ /\ (~latest[p].sound /\ Works) \/ Fails
        /\ Goto(p, "bots") /\ UNCHANGED <<stage, mm, live>>
  /\ UNCHANGED <<pg, files, folderVars, backupVars, fp, served, bounds>>

\* The restore drops what the database holds, unless it fails before: then the
\* script gives up (the database never gets ready) or goes on with a warning.
CleanPg(p) ==
  /\ spc[p] = "clean"
  /\ \/ pg' = [pg EXCEPT ![p] = {}] /\ Goto(p, "load") /\ Works
     \/ Fails /\ UNCHANGED pg /\ \E s \in {"files", "bots"} : Goto(p, s)
  /\ UNCHANGED <<mm, files, folderVars, backupVars, fp, stage, live, served, bounds>>

\* An error of pg_restore is a warning and the script goes on; an error of the
\* physical path ends it.  Either may have loaded a part.
LoadPg(p) ==
  /\ spc[p] = "load"
  /\ \/ pg' = [pg EXCEPT ![p] = @ \cup stage[p].pg] /\ Goto(p, "files") /\ Works
     \/ /\ Fails
        /\ \E S \in SUBSET stage[p].pg : pg' = [pg EXCEPT ![p] = @ \cup S]
        /\ \E s \in {"files", "bots"} : Goto(p, s)
  /\ UNCHANGED <<mm, files, folderVars, backupVars, fp, stage, live, served, bounds>>

\* Slip: the attachments are forgotten.
RestoreFiles_skipped(p) ==
  /\ spc[p] = "files"
  /\ Goto(p, "finish")
  /\ UNCHANGED <<dataVars, folderVars, backupVars, fp, stage, live, served, counters>>

\* The attachments are unpacked over what is there; an error is a warning.
RestoreFiles(p) ==
  /\ spc[p] = "files"
  /\ \/ files' = [files EXCEPT ![p] = @ \cup stage[p].files] /\ Works
     \/ Fails /\ \E S \in SUBSET stage[p].files : files' = [files EXCEPT ![p] = @ \cup S]
  /\ Goto(p, "finish")
  /\ UNCHANGED <<mm, pg, folderVars, backupVars, fp, stage, live, served, bounds>>

\* Mattermost is started again, that this may fail is ignored, and the marker
\* is written.
Finish(p) ==
  /\ spc[p] = "finish"
  /\ \/ mm' = [mm EXCEPT ![p] = "up"] /\ Works
     \/ Fails /\ UNCHANGED mm
  /\ marker' = [marker EXCEPT ![p] = fp[p]]
  /\ Goto(p, "bots")
  /\ UNCHANGED <<pg, files, kept, latest, backupVars, fp, stage, live, served, bounds>>

\* step_bots calls infra_up.sh again, which starts a stopped Mattermost, and
\* registers the services and the backup timer, however the restore went.
StartBots(p) ==
  /\ spc[p] = "bots"
  /\ \/ mm' = [mm EXCEPT ![p] = "up"] /\ served' = [served EXCEPT ![p] = TRUE] /\ Works
     \/ /\ Fails /\ (mm' = [mm EXCEPT ![p] = "up"] \/ UNCHANGED mm)
        /\ served' = [served EXCEPT ![p] = TRUE] \/ UNCHANGED served
  /\ ScriptGone(p)
  /\ Goto(p, "idle")
  /\ UNCHANGED <<pg, files, folderVars, backupVars, bounds>>

Backs(p, j)  == \/ DumpPg(p, j) \/ TarFiles(p, j) \/ BundleBegin(p, j) \/ BundleEnd(p, j)
                \/ CopyBegin(p, j) \/ CopyEnd(p, j) \/ Rotate(p, j)
Starts(p)    == Start(p) \/ CheckMarker(p) \/ StartBots(p)
Restores(p)  == \/ Extract(p) \/ CleanPg(p) \/ LoadPg(p) \/ RestoreFiles(p) \/ Finish(p)

Next == \E p \in PC : \/ Write(p) \/ Crash(p) \/ \E q \in PC : CopyFolder(p, q)
                      \/ \E j \in Job : Backs(p, j)
                      \/ Starts(p) \/ Restores(p)

Spec == Init /\ [][Next]_vars

-----------------------------------------------------------------------------
TypeOK ==
  /\ mm \in [PC -> {"none", "up", "stopped"}]
  /\ pg \in [PC -> SUBSET Nat] /\ files \in [PC -> SUBSET Nat]
  /\ kept \in [PC -> SUBSET Backup] /\ latest \in [PC -> Backup]
  /\ marker \in [PC -> Nat \X BOOLEAN] /\ fp \in [PC -> Nat \X BOOLEAN]
  /\ bpc \in [PC -> [Job -> BackupSteps]] /\ draft \in [PC -> [Job -> Backup]]
  /\ together \in [PC -> BOOLEAN] /\ astray \in [PC -> BOOLEAN]
  /\ spc \in [PC -> StartSteps] /\ stage \in [PC -> Backup]
  /\ live \in [PC -> BOOLEAN] /\ served \in [PC -> BOOLEAN]
  /\ faulty \in BOOLEAN
  /\ nPosts \in Nat /\ nBackups \in Nat /\ nStarts \in Nat /\ nCrashes \in Nat

\* However backups fail or die, and whatever torn archives earlier ones have left,
\* the retention of one that overlaps no other takes a whole archive out of the
\* folder only when a newer whole one stays (bogo_backup.sh:181).
RetentionKeepsGood ==
  [][\A p \in PC : together[p] \/
       \A b \in kept[p] : b.sound /\ b \notin kept'[p] =>
         \E c \in kept'[p] : c.sound /\ c.stamp > b.stamp]_vars

\* After a backup that ran alone and was copied, until one overlaps another or is
\* not copied, the latest pointer is the newest whole archive of the folder: on the
\* PC that made it and on one the folder was copied to, whatever torn ones are
\* beside it (bogo_backup.sh:170-181).
Newest(p, b) == /\ b.sound /\ b \in kept[p]
                /\ \A c \in kept[p] : c.sound => c.stamp <= b.stamp
PointsAtNewest ==
  \A p \in PC : ~astray[p] /\ ~Copying(p) =>
    \/ Newest(p, latest[p])
    \/ latest[p] = NoBackup /\ \A c \in kept[p] : ~c.sound

\* A post vanishes from a server that is up only when the restore under way has
\* asked for a stop that failed, wherever it or anything before it failed
\* (bogo_restore.sh:116).
NothingVanishesLive ==
  [][\A p \in PC : mm[p] = "up" /\ mm'[p] = "up" /\ ~live[p] => pg[p] \subseteq pg'[p]]_vars

\* As long as neither a command nor the power fails, backups made while people
\* write, by a timer in the middle of a start, or on a restored PC hold the
\* attachments of all their posts, and so does every server that is up.
Backups == UNION {kept[p] \cup {latest[p]} : p \in PC}
NothingDangles ==
  ~faulty /\ nCrashes = 0 => /\ \A b \in Backups : b.sound => b.pg \subseteq b.files
                            /\ \A p \in PC : mm[p] = "up" => pg[p] \subseteq files[p]
=============================================================================
