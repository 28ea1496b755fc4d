------------------------------ MODULE BackupJob ------------------------------
(***************************************************************************)
(* The nightly backup of tca/ops/backup_job.py.  A run copies the database *)
(* to a temporary file, checks it, renames it to the day's backup, reads   *)
(* the retention count and removes the backups beyond it.  The copy and    *)
(* the removal run in threads: a run that is cancelled leaves its thread   *)
(* running, and the removal goes by the count read before it.              *)
(*                                                                         *)
(* A file is an inode with a content; a path names an inode.  An SQLite    *)
(* connection to a path that names none creates an empty database there,   *)
(* and an empty database passes the integrity check.                       *)
(***************************************************************************)
EXTENDS Naturals, Sequences, FiniteSets

CONSTANTS
  Runs,         \* bound: the runs that happen, each at most once
  MaxDay,       \* bound: the days that pass
  Retains,      \* the values of the setting backup.retain_count
  MaxDeaths,    \* bound: how often the process dies
  Overlap,      \* whether a run may start while the thread of another one runs
  NoFile

ASSUME BackupAssumption ==
  /\ MaxDay \in Nat \ {0} /\ MaxDeaths \in Nat /\ Overlap \in BOOLEAN
  /\ Retains \subseteq Nat \ {0} /\ NoFile \notin Nat

VARIABLES
  today,     \* the day the clock shows
  retain,    \* the setting
  content,   \* the content of each inode ever made, "empty" or "full"
  tmp,       \* day -> the inode named tca-<day>.db.tmp
  backup,    \* day -> the inode named tca-<day>.db
  run,       \* run -> where its coroutine is
  thread,    \* run -> where its thread is, the copying one and then the removing one
  day,       \* run -> the date it took when it began
  fd,        \* run -> the inode its thread copies to
  keep,      \* run -> the retain_count it has resolved
  stale,     \* run -> the backups its thread has listed and not yet removed
  notices,   \* run -> how many failure notifications it left
  deaths

backupVars ==
  <<today, retain, content, tmp, backup, run, thread, day, fd, keep, stale,
    notices, deaths>>
files == <<content, tmp, backup>>
env == <<today, retain, deaths>>

Days == 1 .. MaxDay

\* DEFAULT_BACKUP_RETAIN_COUNT
DefaultRetain == 14

BackupTypeOK ==
  /\ today \in Days /\ retain \in Retains /\ deaths \in 0 .. MaxDeaths
  /\ content \in Seq({"empty", "full"})
  /\ tmp \in [Days -> 1 .. Len(content) \cup {NoFile}]
  /\ backup \in [Days -> 1 .. Len(content) \cup {NoFile}]
  /\ \A d \in Days : tmp[d] # NoFile => tmp[d] # backup[d]
  /\ run \in [Runs -> {"new", "copying", "reading", "cleaning", "ok", "failed",
                       "cancelled", "dead"}]
  /\ thread \in [Runs -> {"none", "unlink", "open", "copy", "check", "replace", "undo",
                          "done", "list", "remove", "cleaned", "error"}]
  /\ \A r \in Runs : run[r] = "copying" => thread[r] # "none"
  /\ day \in [Runs -> 0 .. MaxDay] /\ notices \in [Runs -> 0 .. 1]
  /\ fd \in [Runs -> 1 .. Len(content) \cup {NoFile}]
  /\ keep \in [Runs -> Retains \cup {DefaultRetain}] /\ stale \in [Runs -> SUBSET Days]

BackupInit ==
  /\ today = 1 /\ retain \in Retains /\ deaths = 0
  /\ content = <<>>
  /\ tmp = [d \in Days |-> NoFile] /\ backup = [d \in Days |-> NoFile]
  /\ run = [r \in Runs |-> "new"] /\ thread = [r \in Runs |-> "none"]
  /\ day = [r \in Runs |-> 0] /\ fd = [r \in Runs |-> NoFile]
  /\ keep = [r \in Runs |-> DefaultRetain] /\ stale = [r \in Runs |-> {}]
  /\ notices = [r \in Runs |-> 0]

-----------------------------------------------------------------------------
(* The copying thread: _create_backup_and_run_integrity_check *)

\* A thread of the run is at work.
Working(r) ==
  thread[r] \in {"unlink", "open", "copy", "check", "replace", "undo", "list", "remove"}

\* The run has not ended.
UnderWay(r) == run[r] \in {"copying", "reading", "cleaning"}

BeginBackup(r) ==
  /\ run[r] = "new"
  /\ Overlap \/ ~ \E q \in Runs : Working(q) \/ UnderWay(q)
  /\ run' = [run EXCEPT ![r] = "copying"]
  /\ thread' = [thread EXCEPT ![r] = "unlink"]
  /\ day' = [day EXCEPT ![r] = today]
  /\ UNCHANGED <<fd, keep, stale, notices>> /\ UNCHANGED files /\ UNCHANGED env

ThreadAt(r, from, to) ==
  /\ thread[r] = from
  /\ thread' = [thread EXCEPT ![r] = to]
  /\ UNCHANGED <<run, day, keep, stale, notices>> /\ UNCHANGED env

\* What an earlier run left at the temporary path is removed.
Unlink(r) ==
  /\ ThreadAt(r, "unlink", "open")
  /\ tmp' = [tmp EXCEPT ![day[r]] = NoFile]
  /\ UNCHANGED <<content, backup, fd>>

\* The inode a connection to the temporary path opens, created if need be.
Opened(r) == IF tmp[day[r]] = NoFile THEN Len(content) + 1 ELSE tmp[day[r]]

Connect(r) ==
  /\ content' = IF tmp[day[r]] = NoFile THEN Append(content, "empty") ELSE content
  /\ tmp' = [tmp EXCEPT ![day[r]] = Opened(r)]
  /\ UNCHANGED backup

\* As OpenTmp, copying to the backup's own name.
OpenBackup(r) ==
  /\ ThreadAt(r, "open", "copy")
  /\ content' = Append(content, "empty")
  /\ backup' = [backup EXCEPT ![day[r]] = Len(content')]
  /\ fd' = [fd EXCEPT ![r] = Len(content')]
  /\ UNCHANGED tmp

\* The destination of the copy.
OpenTmp(r) ==
  /\ ThreadAt(r, "open", "copy")
  /\ Connect(r)
  /\ fd' = [fd EXCEPT ![r] = Opened(r)]

\* sqlite3.Connection.backup, in one transaction on the destination.
Copy(r) ==
  /\ ThreadAt(r, "copy", "check")
  /\ content' = [content EXCEPT ![fd[r]] = "full"]
  /\ UNCHANGED <<tmp, backup, fd>>

\* PRAGMA integrity_check says "ok" of an empty database too.
Check(r) ==
  /\ ThreadAt(r, "check", "replace")
  /\ Connect(r)
  /\ UNCHANGED fd

\* The rename is atomic; it raises when the temporary file is gone.
Replace(r) ==
  /\ ThreadAt(r, "replace", "done")
  /\ tmp[day[r]] # NoFile
  /\ backup' = [backup EXCEPT ![day[r]] = tmp[day[r]]]
  /\ tmp' = [tmp EXCEPT ![day[r]] = NoFile]
  /\ UNCHANGED <<content, fd>>

\* The copy, the check or the rename raises; any of them may.
Raise(r) ==
  /\ \E at \in {"open", "copy", "check", "replace"} : ThreadAt(r, at, "undo")
  /\ UNCHANGED fd /\ UNCHANGED files

\* As Undo, of the backup's name.
UndoBackup(r) ==
  /\ ThreadAt(r, "undo", "error")
  /\ backup' = [backup EXCEPT ![day[r]] = NoFile]
  /\ UNCHANGED <<content, tmp, fd>>

\* The temporary file is removed and the error raised again.
Undo(r) ==
  /\ ThreadAt(r, "undo", "error")
  /\ tmp' = [tmp EXCEPT ![day[r]] = NoFile]
  /\ UNCHANGED <<content, backup, fd>>

\* The database file is missing, the directory cannot be made, or the old
\* temporary file cannot be removed: nothing is undone.
RaiseEarly(r) ==
  /\ ThreadAt(r, "unlink", "error")
  /\ UNCHANGED fd /\ UNCHANGED files

-----------------------------------------------------------------------------
(* The removing thread: _cleanup_old_backups *)

CleanAt(r, from, to) ==
  /\ thread[r] = from
  /\ thread' = [thread EXCEPT ![r] = to]
  /\ UNCHANGED <<content, tmp, run, day, fd, keep, notices>> /\ UNCHANGED env

\* Only the backups are listed, newest name first: the first n of them.
Newest(n) ==
  {d \in Days : backup[d] # NoFile
                /\ Cardinality({e \in Days : e > d /\ backup[e] # NoFile}) < n}

\* As ListOld, with the names in ascending order.
ListOldestFirst(r) ==
  /\ CleanAt(r, "list", "remove")
  /\ stale' = [stale EXCEPT ![r] = {d \in Days : backup[d] # NoFile /\
       Cardinality({e \in Days : e < d /\ backup[e] # NoFile}) >= keep[r]}]
  /\ UNCHANGED backup

\* The names beyond the count the run has read.
ListOld(r) ==
  /\ CleanAt(r, "list", "remove")
  /\ stale' = [stale EXCEPT ![r] = {d \in Days : backup[d] # NoFile} \ Newest(keep[r])]
  /\ UNCHANGED backup

\* They are removed one by one in the order of the list.
RemoveOld(r) ==
  /\ CleanAt(r, "remove", "remove")
  /\ \E d \in stale[r] :
       /\ \A e \in stale[r] : e <= d
       /\ backup[d] # NoFile
       /\ backup' = [backup EXCEPT ![d] = NoFile]
       /\ stale' = [stale EXCEPT ![r] = @ \ {d}]

RemovedOld(r) ==
  /\ stale[r] = {}
  /\ CleanAt(r, "remove", "cleaned")
  /\ UNCHANGED <<backup, stale>>

\* The directory cannot be listed or a backup cannot be removed: the rest of the
\* list stays.  A thread that had not begun when its run was cancelled never does.
CleanupRaises(r) ==
  /\ CleanAt(r, "list", "error") \/ (stale[r] # {} /\ CleanAt(r, "remove", "error"))
  /\ stale' = [stale EXCEPT ![r] = {}]
  /\ UNCHANGED backup

-----------------------------------------------------------------------------
(* The coroutine: run_once *)

RunAt(r, from, to) ==
  /\ run[r] = from
  /\ run' = [run EXCEPT ![r] = to]
  /\ UNCHANGED <<day, fd, stale>> /\ UNCHANGED files /\ UNCHANGED env

Copied(r) ==
  /\ thread[r] = "done"
  /\ RunAt(r, "copying", "reading")
  /\ UNCHANGED <<thread, keep, notices>>

\* The setting is read, and its count goes to the thread that is started next: a
\* PUT after this step does not concern the run.  A setting that cannot be read,
\* has no row or is not a positive number counts as the default.
ResolveRetainCount(r) ==
  /\ RunAt(r, "reading", "cleaning")
  /\ thread' = [thread EXCEPT ![r] = "list"]
  /\ \E n \in {retain, DefaultRetain} : keep' = [keep EXCEPT ![r] = n]
  /\ UNCHANGED notices

Finished(r) ==
  /\ thread[r] = "cleaned"
  /\ RunAt(r, "cleaning", "ok")
  /\ UNCHANGED <<thread, keep, notices>>

\* The copy or the cleanup raised: the run raises too, after a high-severity
\* notification, unless that cannot be written.
Failed(r) ==
  /\ thread[r] = "error"
  /\ \E at \in {"copying", "cleaning"} : RunAt(r, at, "failed")
  /\ \E written \in 0 .. 1 : notices' = [notices EXCEPT ![r] = @ + written]
  /\ UNCHANGED <<thread, keep>>

\* The awaiting task is cancelled: no notification, and its thread goes on.
Cancel(r) ==
  /\ \E at \in {"copying", "reading", "cleaning"} : RunAt(r, at, "cancelled")
  /\ UNCHANGED <<thread, keep, notices>>

-----------------------------------------------------------------------------

NextDay ==
  /\ today < MaxDay /\ today' = today + 1
  /\ UNCHANGED <<retain, deaths, run, thread, day, fd, keep, stale, notices>> /\ UNCHANGED files

\* PUT /settings/backup.retain_count.
PutRetain(n) ==
  /\ retain' = n
  /\ UNCHANGED <<today, deaths, run, thread, day, fd, keep, stale, notices>> /\ UNCHANGED files

\* The process dies with all its threads; files stay as they are.
ProcessDies ==
  /\ deaths < MaxDeaths /\ deaths' = deaths + 1
  /\ run' = [r \in Runs |-> IF UnderWay(r) THEN "dead" ELSE run[r]]
  /\ thread' = [r \in Runs |-> IF Working(r) THEN "error" ELSE thread[r]]
  /\ stale' = [r \in Runs |-> {}]
  /\ UNCHANGED <<today, retain, day, fd, keep, notices>> /\ UNCHANGED files

Thread(r) == Unlink(r) \/ OpenTmp(r) \/ Copy(r) \/ Check(r) \/ Replace(r)
             \/ Raise(r) \/ Undo(r) \/ RaiseEarly(r)

CleanThread(r) == ListOld(r) \/ RemoveOld(r) \/ RemovedOld(r) \/ CleanupRaises(r)

RunOnce(r) == BeginBackup(r) \/ Copied(r) \/ ResolveRetainCount(r) \/ Finished(r)
              \/ Failed(r) \/ Cancel(r)

BackupNext ==
  \/ \E r \in Runs : Thread(r) \/ CleanThread(r) \/ RunOnce(r)
  \/ NextDay \/ (\E n \in Retains : PutRetain(n)) \/ ProcessDies

BackupSpec == BackupInit /\ [][BackupNext]_backupVars

-----------------------------------------------------------------------------
(* Properties *)

\* What stands under a backup's name is a whole copy of the database, after
\* any failure, cancellation or crash, also of a later run of the same day, as
\* long as no run starts under the thread a cancelled one has left (~Overlap).
BackupsAreWhole == \A d \in Days : backup[d] # NoFile => content[backup[d]] = "full"

\* A run that ends well leaves the backup it made, and no more backups than the
\* count it has read from the setting, whatever the runs before it left over that
\* were cancelled, failed or died during their removal.
SuccessKeepsItsBackup ==
  [][\A r \in Runs : run[r] # "ok" /\ run'[r] = "ok"
       => /\ backup'[day[r]] # NoFile
          /\ Cardinality({d \in Days : backup'[d] # NoFile}) <= keep[r]]_backupVars

\* A day that has a backup loses it only to the removing thread of a run, and
\* only while as many newer ones as that run has read from the setting are left,
\* also when its removal is cut short or the setting is changed meanwhile: a
\* failing run of the same day never costs the backup that was there.
BackupIsLostToNewerOnes ==
  [][\A d \in Days : backup[d] # NoFile /\ backup'[d] = NoFile
       => \E r \in Runs :
            /\ thread[r] = "remove"
            /\ Cardinality({e \in Days : e > d /\ backup'[e] # NoFile}) >= keep[r]]_backupVars
===============================================================================
