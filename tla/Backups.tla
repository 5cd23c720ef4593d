------------------------------ MODULE Backups ------------------------------
(***************************************************************************)
(* The nightly backup (src/scripts/backup-db.ts, started by                *)
(* src/src/modules/admin/backup.scheduler.ts), its verification            *)
(* (backup-verification.service.ts, started by                             *)
(* backup-verification.scheduler.ts) and a restore                         *)
(* (backup-restore.service.ts), on one directory of files.                 *)
(*                                                                         *)
(* The unit of time is a day; today counts from 1970 as Date.now does.  A  *)
(* file is named after the second it was begun in, so ids stand for names. *)
(* A day's jobs run at most once; a restore may run at any time.           *)
(***************************************************************************)
EXTENDS Integers, FiniteSets

CONSTANTS
    FirstDay,            \* days since 1970
    MaxDays,             \* bound on the days a behaviour lasts
    RETENTION_DAYS, RETENTION_WEEKLY,
    DaysPerWeek,
    NoDay

ASSUME BackupAssumption ==
    /\ FirstDay \in Nat /\ MaxDays \in Nat
    /\ {RETENTION_DAYS, RETENTION_WEEKLY, DaysPerWeek} \subseteq Nat \ {0}
    /\ RETENTION_DAYS < FirstDay   \* a week, and half a century

VARIABLES
    today,
    files,      \* backup files in BACKUP_DIR: [day, whole]
    script,     \* where the backup script of today is
    check,      \* the verification of today, and the file it took
    restore,    \* a restore, and the file it took
    target      \* what is in the database a restore goes to

backupVars == <<today, files, script, check, restore, target>>
-----------------------------------------------------------------------------
Sunday(day) == (day - FirstDay) % DaysPerWeek = 0

\* getBackupFiles sorts by modification time: the first is the newest.
Newest == CHOOSE d \in {f.day : f \in files} : \A f \in files : f.day <= d
Whole(day) == [day |-> day, whole |-> TRUE]
Begun(day) == [day |-> day, whole |-> FALSE]

BackupInit ==
    /\ today = FirstDay /\ files = {}
    /\ script = "due"
    /\ check = [pc |-> "due", day |-> NoDay, valid |-> FALSE]
    /\ restore = [pc |-> "idle", day |-> NoDay] /\ target = "old"

\* What did not run, or is still running, is not caught up with.
NextBackupDay ==
    /\ today < FirstDay + MaxDays
    /\ today' = today + 1
    /\ script' = "due"
    /\ check' = [pc |-> "due", day |-> NoDay, valid |-> FALSE]
    /\ UNCHANGED <<files, restore, target>>
-----------------------------------------------------------------------------
\* createBackup: pg_dump, then a pipeline into the file.

Dump ==
    /\ script = "due"
    /\ script' = "write" /\ files' = files \union {Begun(today)}
    /\ UNCHANGED <<today, check, restore, target>>

WriteFile ==
    /\ script = "write"
    /\ script' = "upload" /\ files' = (files \ {Begun(today)}) \union {Whole(today)}
    /\ UNCHANGED <<today, check, restore, target>>

\* An upload that fails is logged and changes nothing.
Upload ==
    /\ script = "upload"
    /\ script' = "clean"
    /\ UNCHANGED <<today, files, check, restore, target>>

\* cleanOldBackups compares an age with a point in time, which is larger by
\* half a century: every file is kept.
Kept(f) ==
    LET age == today - f.day
        cutoffDaily == today - RETENTION_DAYS
        cutoffWeekly == today - RETENTION_WEEKLY * DaysPerWeek
    IN  age < cutoffDaily \/ (age < cutoffWeekly /\ Sunday(f.day))

Clean ==
    /\ script = "clean"
    /\ script' = "done" /\ files' = {f \in files : Kept(f)}
    /\ UNCHANGED <<today, check, restore, target>>

\* pg_dump or the pipeline fails, or the scheduler's five minutes are over:
\* what is in the directory stays there.
FailBackup ==
    /\ script \in {"due", "write", "upload", "clean"}
    /\ script' = "failed"
    /\ UNCHANGED <<today, files, check, restore, target>>
-----------------------------------------------------------------------------
\* verifyLatestBackup, and in any case the drop of its temporary database.

FindNewest ==
    /\ check.pc = "due"
    /\ check' = IF files = {} THEN [check EXCEPT !.pc = "done"]
                ELSE [check EXCEPT !.pc = "load", !.day = Newest]
    /\ UNCHANGED <<today, files, script, restore, target>>

\* A truncated file cannot be decompressed; createdb and psql may fail too.
LoadTemporary ==
    /\ check.pc = "load"
    /\ \E ok \in {Whole(check.day) \in files, FALSE} :
         check' = [check EXCEPT !.pc = IF ok THEN "query" ELSE "done"]
    /\ UNCHANGED <<today, files, script, restore, target>>

\* verifyDatabase counts the rows of "tenant", which is not what the table is
\* called: the query fails on every database.
HasTable(name) == name \in {"Tenant", "User", "Membership"}
QueryTemporary ==
    /\ check.pc = "query"
    /\ check' = [check EXCEPT !.pc = "done", !.valid = HasTable("tenant")]
    /\ UNCHANGED <<today, files, script, restore, target>>
-----------------------------------------------------------------------------
\* restoreLatestBackup and restoreBackupByName: the target is dropped, created
\* and loaded, in this order.

ChooseFile ==
    /\ restore.pc = "idle"
    /\ \E f \in files : restore' = [pc |-> "drop", day |-> f.day]
    /\ UNCHANGED <<today, files, script, check, target>>

\* A drop that fails, as it does while somebody is connected, is logged only.
DropTarget ==
    /\ restore.pc = "drop"
    /\ target' \in {"none", target}
    /\ restore' = [restore EXCEPT !.pc = "create"]
    /\ UNCHANGED <<today, files, script, check>>

\* createdb fails if the database is there: what the swallowed error rests on.
\* Mutant: a creation that takes a database that is there.
Creatable_Any == TRUE
Creatable == target = "none"

CreateTarget ==
    /\ restore.pc = "create" /\ Creatable
    /\ target' = IF target = "none" THEN "empty" ELSE target
    /\ restore' = [restore EXCEPT !.pc = "load"]
    /\ UNCHANGED <<today, files, script, check>>

\* gunzipSync of the whole file comes before psql.
Readable(day) == Whole(day) \in files

\* psql goes on after a statement that fails, and ends as if all had been done:
\* whatever of the file is loaded, the restore reports success.
LoadTarget ==
    /\ restore.pc = "load" /\ Readable(restore.day)
    /\ target' \in IF target = "empty" THEN {"restored", "partial"} ELSE {"mixed"}
    /\ restore' = [restore EXCEPT !.pc = "succeeded"]
    /\ UNCHANGED <<today, files, script, check>>

\* The file is truncated or gone, the database is there, or a command fails; the
\* connection may be lost in the middle of the file.
FailRestore ==
    /\ restore.pc \in {"create", "load"}
    /\ restore' = [restore EXCEPT !.pc = "failed"]
    /\ \/ UNCHANGED target
       \/ /\ restore.pc = "load" /\ Readable(restore.day)
          /\ target' = IF target = "empty" THEN "partial" ELSE "mixed"
    /\ UNCHANGED <<today, files, script, check>>

\* The answer was read, and another restore may follow.
EndRestore ==
    /\ restore.pc \in {"succeeded", "failed"}
    /\ restore' = [pc |-> "idle", day |-> NoDay]
    /\ UNCHANGED <<today, files, script, check, target>>

BackupNext ==
    \/ NextBackupDay
    \/ Dump \/ WriteFile \/ Upload \/ Clean \/ FailBackup
    \/ FindNewest \/ LoadTemporary \/ QueryTemporary
    \/ ChooseFile \/ DropTarget \/ CreateTarget \/ LoadTarget \/ FailRestore \/ EndRestore

BackupSpec == BackupInit /\ [][BackupNext]_backupVars
-----------------------------------------------------------------------------
\* A restore never loads a backup over what was in the target: the error of the
\* drop is swallowed (restoreBackupToDatabase), and nothing else keeps the two
\* apart.  One that reports success has left the old data behind.
RestoreReplaces ==
    /\ target # "mixed"
    /\ restore.pc = "succeeded" => target \in {"restored", "partial"}

-----------------------------------------------------------------------------
\* Why RestoreReplaces holds: an invariant that is inductive.
TargetSound ==
    /\ target \in {"old", "none", "empty", "restored", "partial"}
    /\ restore.pc \in {"idle", "drop", "create", "load", "succeeded", "failed"}
    /\ DOMAIN restore = {"pc", "day"}
    /\ restore.pc = "load" => target = "empty"

BackupInv == TargetSound /\ RestoreReplaces
=============================================================================
