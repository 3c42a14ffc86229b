--------------------------- MODULE RuntimeMigration ---------------------------
(***************************************************************************)
(* migrate_runtime_database(): an operator brings the runtime tables of a   *)
(* database to the latest version while the server may run.  A dry run      *)
(* reads the database through a connection of its own and rehearses the     *)
(* migration on a copy in memory; an apply does that first, then takes the  *)
(* exclusive lock, compares, links a backup and migrates in a transaction.  *)
(*                                                                         *)
(* The database is in WAL mode (storage/db.py): what is committed is in the *)
(* log until a checkpoint, and the last connection to close removes it.  A  *)
(* connection that finds no log opens the file as immutable and sees the    *)
(* file only, whatever is committed later.  A hash is what was hashed.      *)
(***************************************************************************)
EXTENDS Naturals, FiniteSets

CONSTANTS
  Calls,        \* calls of migrate_runtime_database(), one after or beside the other
  BackupPaths,
  MaxWrites,    \* bound: transactions of the server
  MaxMoments    \* bound: the clock, which may be set back between two calls

LatestVersion == 3

VARIABLES
  main,     \* the database file
  wal,      \* its log: what it makes of the file, a set of at most one content
  locker,   \* who is inside a write transaction, at most one
  backups,  \* what was linked at each path, at most one content each
  calls,    \* where each call is and what it has read
  writes,   \* transactions the server has committed
  migrated  \* history: the migrations committed

migrationVars == <<main, wal, locker, backups, calls, writes, migrated>>

Database == IF wal = {} THEN main ELSE CHOOSE d \in wal : TRUE

-----------------------------------------------------------------------------
(* A database: its version, the call that named its store (or "old"), when  *)
(* its last migration was applied, whether the schema is the version's own, *)
(* whether it holds evidence, and the rows of the server.                   *)
InspectTarget(c) ==
  [state |-> IF ~c.sound THEN "INVALID"
             ELSE IF c.version = 0 THEN "UNINITIALIZED"
             ELSE IF c.version = LatestVersion THEN "VALID_LATEST_VERSION"
             ELSE "VALID_CURRENT_VERSION",
   version |-> c.version, store |-> IF c.sound THEN c.store ELSE "none"]
AuditPassed(i) == i.state # "INVALID"
LegacyBlock(c, i) == i.version \in {1, 2} /\ c.legacy

\* The pending migrations from version v on, at time t: a table that exists
\* already is an error, and so is a history that goes back in time.
CanApply(c, v, t) ==
  /\ c.sound /\ c.version = v /\ ~LegacyBlock(c, InspectTarget(c))
  /\ v \in 1..(LatestVersion - 1) => c.applied <= t
Applied(c, t, k) ==
  IF c.version = LatestVersion THEN c
  ELSE [c EXCEPT !.version = LatestVersion, !.applied = t,
                 !.store = IF c.version < 2 THEN k ELSE @]

-----------------------------------------------------------------------------
Unstarted == [at |-> "idle"]
\* A database of any version; one of version 1 or 2 may hold evidence.
MigrationInit ==
  /\ \E v \in 0..LatestVersion, l \in BOOLEAN, s \in BOOLEAN :
       /\ l => v \in {1, 2}
       /\ main = [version |-> v, store |-> IF v >= 2 THEN "old" ELSE "none",
                  applied |-> IF v = 0 THEN 0 ELSE 1, sound |-> s, legacy |-> l, rows |-> 0]
  /\ wal = {} /\ locker = {} /\ writes = 0 /\ migrated = {}
  /\ backups = [p \in BackupPaths |-> {}]
  /\ calls = [k \in Calls |-> Unstarted]

At(k, place) == calls[k].at = place
Goes(k, place) == calls' = [calls EXCEPT ![k].at = place]
Refused(k) == Goes(k, "refused") /\ UNCHANGED <<main, wal, locker, backups, writes, migrated>>
\* What the read-only connection of a call shows.
Seen(k) == IF calls[k].immutable THEN main ELSE Database

\* The files are hashed before they are opened.
Begin(k, apply, path, t) ==
  /\ At(k, "idle")
  /\ calls' = [calls EXCEPT ![k] =
       [at |-> "hashed", apply |-> apply, path |-> path, time |-> t,
        mainSha |-> main, walSha |-> wal]]
  /\ UNCHANGED <<main, wal, locker, backups, writes, migrated>>

\* Each of the following reads is a transaction of its own.
Inspect(k) ==
  /\ At(k, "hashed")
  /\ LET immutable == wal = {}
         seen == IF immutable THEN main ELSE Database
     IN calls' = [calls EXCEPT ![k] = [at |-> "inspected", apply |-> @.apply, path |-> @.path,
          time |-> @.time, mainSha |-> @.mainSha, walSha |-> @.walSha,
          immutable |-> immutable, inspection |-> InspectTarget(seen)]]
  /\ UNCHANGED <<main, wal, locker, backups, writes, migrated>>

HashLogical(k) ==
  /\ At(k, "inspected")
  /\ LET c == calls[k]
     IN calls' = [calls EXCEPT ![k] = [at |-> "read", apply |-> c.apply, path |-> c.path,
          time |-> c.time, mainSha |-> c.mainSha, walSha |-> c.walSha,
          immutable |-> c.immutable, inspection |-> c.inspection, source |-> Seen(k)]]
  /\ UNCHANGED <<main, wal, locker, backups, writes, migrated>>

CheckBlock(k) ==
  /\ At(k, "read")
  /\ IF AuditPassed(calls[k].inspection) /\ ~LegacyBlock(Seen(k), calls[k].inspection)
     THEN Goes(k, "checked") /\ UNCHANGED <<main, wal, locker, backups, writes, migrated>>
     ELSE Refused(k)

Rehearse(k) ==
  /\ At(k, "checked")
  /\ IF CanApply(Seen(k), calls[k].inspection.version, calls[k].time)
     THEN Goes(k, "rehearsed") /\ UNCHANGED <<main, wal, locker, backups, writes, migrated>>
     ELSE Refused(k)

\* Files and contents must be what they were; a dry run ends here.
Unchanged(k) == main = calls[k].mainSha /\ wal = calls[k].walSha /\ Database = calls[k].source
CompareAfterRehearsal(k) ==
  /\ At(k, "rehearsed")
  /\ IF ~Unchanged(k) THEN Refused(k)
     ELSE /\ Goes(k, IF calls[k].apply THEN "compared" ELSE "reported")
          /\ UNCHANGED <<main, wal, locker, backups, writes, migrated>>

\* BEGIN EXCLUSIVE, which opens the log; a lock that stays taken is an error.
BeginExclusive(k) ==
  /\ At(k, "compared")
  /\ IF locker # {} THEN Refused(k)
     ELSE /\ locker' = {k} /\ wal' = {Database}
          /\ Goes(k, "locked") /\ UNCHANGED <<main, backups, writes, migrated>>

BackOut(k) ==
  Goes(k, "refused") /\ locker' = {} /\ UNCHANGED <<main, wal, backups, writes, migrated>>

SameUnderLockLoosely(k) == InspectTarget(Database) = calls[k].inspection
SameUnderLock(k) ==
  InspectTarget(Database) = calls[k].inspection /\ Database = calls[k].source

\* What is backed up is read by a connection of its own, under the lock.
BackedUpEarly(k) == calls[k].mainSha
BackedUp(k) == Database
CompareAndBackup(k) ==
  /\ At(k, "locked")
  /\ IF SameUnderLock(k) /\ backups[calls[k].path] = {}
     THEN /\ backups' = [backups EXCEPT ![calls[k].path] = {BackedUp(k)}]
          /\ Goes(k, "saved") /\ UNCHANGED <<main, wal, locker, writes, migrated>>
     ELSE BackOut(k)

Commit(k) ==
  /\ At(k, "saved")
  /\ LET c == calls[k] IN
     IF ~CanApply(Database, c.inspection.version, c.time) THEN BackOut(k)
     ELSE LET after == Applied(Database, c.time, k) IN
          /\ wal' = {after} /\ locker' = {}
          /\ migrated' = IF after = Database THEN migrated
                         ELSE migrated \cup {[by |-> k, rehearsed |-> c.source, path |-> c.path,
                                              before |-> Database, after |-> after]}
          /\ calls' = [calls EXCEPT ![k] =
               [at |-> "committed", source |-> c.source, inspection |-> c.inspection,
                final |-> InspectTarget(after)]]
          /\ UNCHANGED <<main, backups, writes>>

\* The result is read back; what the server has committed since may be in it.
Verify(k) ==
  /\ At(k, "committed")
  /\ LET c == calls[k] IN
     IF /\ InspectTarget(Database) = c.final
        /\ (c.inspection.version < LatestVersion) <=> (c.source # Database)
     THEN Goes(k, "reported") /\ UNCHANGED <<main, wal, locker, backups, writes, migrated>>
     ELSE Refused(k)

\* The process may die anywhere: an open transaction is rolled back.
Die(k) ==
  /\ calls[k].at \notin {"idle", "refused", "reported", "dead"}
  /\ Goes(k, "dead") /\ locker' = locker \ {k}
  /\ UNCHANGED <<main, wal, backups, writes, migrated>>

-----------------------------------------------------------------------------
(* The server.                                                             *)
Write(legacy) ==
  /\ locker = {} /\ writes < MaxWrites
  /\ legacy => Database.version \in {1, 2}
  /\ writes' = writes + 1
  /\ wal' = {[[Database EXCEPT !.rows = @ + 1] EXCEPT !.legacy = @ \/ legacy]}
  /\ UNCHANGED <<main, locker, backups, calls, migrated>>

Checkpoint ==
  /\ wal # {} /\ main # Database
  /\ main' = Database /\ UNCHANGED <<wal, locker, backups, calls, writes, migrated>>

\* The last connection closes: no call holds one that uses the log.
Reading(k) == calls[k].at \in {"inspected", "read", "checked"} /\ ~calls[k].immutable
CloseLast ==
  /\ wal # {} /\ locker = {}
  /\ \A k \in Calls : ~Reading(k)
  /\ main' = Database /\ wal' = {}
  /\ UNCHANGED <<locker, backups, calls, writes, migrated>>

MigrationNext ==
  \/ \E k \in Calls :
       \/ \E apply \in BOOLEAN, path \in BackupPaths, t \in 0..MaxMoments : Begin(k, apply, path, t)
       \/ Inspect(k) \/ HashLogical(k) \/ CheckBlock(k) \/ Rehearse(k)
       \/ CompareAfterRehearsal(k) \/ BeginExclusive(k) \/ CompareAndBackup(k)
       \/ Commit(k) \/ Verify(k) \/ Die(k)
  \/ \E legacy \in BOOLEAN : Write(legacy)
  \/ Checkpoint \/ CloseLast
MigrationSpec == MigrationInit /\ [][MigrationNext]_migrationVars

-----------------------------------------------------------------------------
\* What was migrated is what was rehearsed, is in its backup and held no legacy
\* evidence; nothing the server committed is lost; and a call that was refused
\* has migrated nothing, whichever calls, writes, checkpoints and deaths there
\* were at whichever point.
MigrationIsSafe ==
  /\ \A d \in migrated :
       /\ d.before = d.rehearsed /\ backups[d.path] = {d.before} /\ ~d.before.legacy
       /\ ~At(d.by, "refused")
  /\ Database.rows = writes
  /\ \A k \in Calls : At(k, "reported") /\ "apply" \notin DOMAIN calls[k] =>
       Database.version = LatestVersion
=============================================================================
