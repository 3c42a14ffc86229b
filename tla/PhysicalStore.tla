---------------------------- MODULE PhysicalStore ----------------------------
(***************************************************************************)
(* The physical evidence store (stock_tracker/runtime_evidence/            *)
(* physical_store.py): a SQLite catalogue of intents and publications next *)
(* to a directory of immutable record files.  Several processes open the   *)
(* same root; BEGIN IMMEDIATE lets one transaction run at a time, but      *)
(* append() uses two of them, files are written between a transaction's    *)
(* begin and its commit, and a process may die at any of those points.     *)
(*                                                                         *)
(* A transaction that ends without a commit loses its rows and keeps its   *)
(* files.  SHA-256 is taken to be collision free: the hash of a record is  *)
(* the triple that makes it unique.  Power loss is not modelled: the store *)
(* itself reports power_loss_certified = False.                            *)
(***************************************************************************)
EXTENDS Integers, Sequences

CONSTANTS
  Writers,     \* processes that call append() and recover()
  Readers,     \* processes that page through a snapshot
  Inputs,      \* the EvidenceInput documents that may be appended
  PageLimit,   \* largest page a reader asks for
  MaxTime,     \* bound of the clock
  None         \* not an input and not a process

ASSUME InputsAssumption ==
  \A i \in Inputs : /\ DOMAIN i = {"key", "partition", "observedAt", "payload"}
                    /\ i.observedAt \in Nat
ASSUME ConstantsAssumption ==
  /\ None \notin Inputs \cup Writers
  /\ PageLimit \in Nat \ {0}
  /\ MaxTime \in Nat

VARIABLES
  intents,     \* committed rows of table intents, by append_order
  pubs,        \* committed rows of table publications: published_at, by append_order
  draft,       \* the row of intents an open transaction has inserted
  stamp,       \* the row of publications an open transaction has inserted
  records,     \* files under records/
  staging,     \* files under staging/
  lock,        \* the process holding SQLite's write lock, or None
  pc,          \* where each writer is in append() or recover()
  input,       \* the argument of each writer's append(), None in recover()
  acks,        \* records that a call has returned to its caller
  snap,        \* the PhysicalSnapshot each reader holds
  page,        \* the records a reader has been given under that snapshot
  clock        \* the wall clock

catalogue == <<intents, pubs>>
open == <<draft, stamp, lock>>
files == <<records, staging>>
readers == <<snap, page>>
vars == <<catalogue, open, files, pc, input, acks, readers, clock>>

-----------------------------------------------------------------------------
(* Hashes, chains and the audit.                                           *)

Zero == <<0>>
HashOf(r) == <<r.order, r.input, r.recordedAt>>

\* The head of the global chain after the first n records of rows.
Head_(rows, n) == IF n = 0 THEN Zero ELSE HashOf(rows[n])

\* The last of the first n records of rows in partition q, as a set of at most one.
LastInPartition(rows, n, q) ==
  {k \in 1..n : /\ rows[k].input.partition = q
                /\ \A j \in 1..n : rows[j].input.partition = q => j <= k}
AnyOf(S) == CHOOSE k \in S : TRUE
PartitionHead(rows, n, q) ==
  LET last == LastInPartition(rows, n, q)
  IN IF last = {} THEN Zero ELSE HashOf(rows[AnyOf(last)])

\* Mutant: the partition chain is computed before the last record is counted.
NewRecordStalePartition(rows, i, now) ==
  [order |-> Len(rows) + 1, input |-> i, recordedAt |-> now,
   prevGlobal |-> Head_(rows, Len(rows)),
   prevPartition |-> PartitionHead(rows, IF rows = <<>> THEN 0 ELSE Len(rows) - 1, i.partition)]

NewRecord(rows, i, now) ==
  [order         |-> Len(rows) + 1,
   input         |-> i,
   recordedAt    |-> now,
   prevGlobal    |-> Head_(rows, Len(rows)),
   prevPartition |-> PartitionHead(rows, Len(rows), i.partition)]

\* The latest time stored in the catalogue; 0 is the creation of the store.
LatestTime(rows, done) ==
  IF Len(done) < Len(rows) THEN rows[Len(rows)].recordedAt
  ELSE IF done = <<>> THEN 0 ELSE done[Len(done)]

Ready(rows, done) == Len(done) = Len(rows)
Exists(dir, r) == \E f \in dir : f.record = r
Intact(dir, r) == [record |-> r, whole |-> TRUE] \in dir
                  /\ [record |-> r, whole |-> FALSE] \notin dir

\* GLOBAL_CHAIN_OR_CLOCK_MISMATCH, PARTITION_CHAIN_MISMATCH, PUBLICATION_CLOCK_MISMATCH
ChainIntact(rows, done) ==
  \A k \in 1..Len(rows) :
    /\ rows[k].order = k
    /\ rows[k].prevGlobal = Head_(rows, k - 1)
    /\ rows[k].prevPartition = PartitionHead(rows, k - 1, rows[k].input.partition)
    /\ k > 1 => done[k - 1] <= rows[k].recordedAt
    /\ k <= Len(done) => rows[k].recordedAt <= done[k]

\* MULTIPLE_PENDING_INTENTS, PUBLICATION_PREFIX_GAP
PrefixPublished(rows, done) == Len(done) <= Len(rows) /\ Len(rows) <= Len(done) + 1

\* PENDING_FILE_CONFLICT, COMMITTED_FILE_MISMATCH, COMMITTED_STAGING_RESIDUE
FilesAgree(rows, done) ==
  \A k \in 1..Len(rows) :
    /\ Exists(records, rows[k]) => Intact(records, rows[k])
    /\ k <= Len(done) => Exists(records, rows[k]) /\ ~Exists(staging, rows[k])

\* UNKNOWN_RECORD_FILE, UNKNOWN_STAGING_FILE
NothingUnknown(rows, done) ==
  /\ \A f \in records : \E k \in 1..Len(rows) : f.record = rows[k]
  /\ \A f \in staging : Len(done) < Len(rows) /\ f.record = rows[Len(rows)]

Audit(rows, done) ==
  /\ PrefixPublished(rows, done)
  /\ ChainIntact(rows, done)
  /\ FilesAgree(rows, done)
  /\ NothingUnknown(rows, done)

\* STORE_CLOCK_ROLLBACK
ClockSane(rows, done) == clock >= LatestTime(rows, done)

\* _session() followed by _audit(): the write lock is free, the audit passes.
SessionAudit ==
  /\ lock = None
  /\ Audit(intents, pubs)
  /\ ClockSane(intents, pubs)

-----------------------------------------------------------------------------
Init ==
  /\ intents = <<>> /\ pubs = <<>> /\ draft = <<>> /\ stamp = <<>>
  /\ records = {} /\ staging = {}
  /\ lock = None
  /\ pc = [p \in Writers |-> "idle"]
  /\ input = [p \in Writers |-> None]
  /\ acks = {}
  /\ snap = [r \in Readers |-> [highWater |-> 0, head |-> Zero]]
  /\ page = [r \in Readers |-> <<>>]
  /\ clock = 0

Goto(p, label) == pc' = [pc EXCEPT ![p] = label]

\* Mutant: the lookup compares request ids where it should compare keys.
RowsByRequest(i) == {k \in 1..Len(intents) : intents[k].input = i}

\* The row of intents with the (stream, record_key) of i.
Rows(i) == {k \in 1..Len(intents) : intents[k].input.key = i.key}

(* append(), first transaction.  IDEMPOTENCY_CONFLICT, RECOVERY_REQUIRED   *)
(* and FUTURE_OBSERVATION_OR_CLOCK_ROLLBACK raise before anything changes: *)
(* they are the cases no disjunct below covers.                            *)
AppendPublished(p, i) ==
  /\ pc[p] = "idle"
  /\ SessionAudit
  /\ \E k \in Rows(i) : /\ intents[k].input = i
                        /\ k <= Len(pubs)
                        /\ acks' = acks \cup {intents[k]}
  /\ UNCHANGED <<catalogue, open, files, pc, input, readers, clock>>

AppendPendingAgain(p, i) ==
  /\ pc[p] = "idle"
  /\ SessionAudit
  /\ \E k \in Rows(i) : intents[k].input = i /\ k > Len(pubs)
  /\ Goto(p, "intent_committed")
  /\ input' = [input EXCEPT ![p] = i]
  /\ UNCHANGED <<catalogue, open, files, acks, readers, clock>>

InsertIntent(p, i) ==
  /\ pc[p] = "idle"
  /\ SessionAudit
  /\ Rows(i) = {}
  /\ Ready(intents, pubs)
  /\ clock >= i.observedAt
  /\ draft' = <<NewRecord(intents, i, clock)>>
  /\ lock' = p
  /\ Goto(p, "intent_before_commit")
  /\ input' = [input EXCEPT ![p] = i]
  /\ UNCHANGED <<catalogue, stamp, files, acks, readers, clock>>

\* Mutant: the caller is answered as soon as the intent is durable.
CommitIntentAnswering(p) ==
  /\ pc[p] = "intent_before_commit"
  /\ intents' = intents \o draft
  /\ acks' = acks \cup {draft[1]}
  /\ draft' = <<>> /\ lock' = None
  /\ Goto(p, "intent_committed")
  /\ UNCHANGED <<pubs, stamp, files, input, readers, clock>>

CommitIntent(p) ==
  /\ pc[p] = "intent_before_commit"
  /\ intents' = intents \o draft
  /\ draft' = <<>>
  /\ lock' = None
  /\ Goto(p, "intent_committed")
  /\ UNCHANGED <<pubs, stamp, files, input, acks, readers, clock>>

(* append(), second transaction: another process may have recovered the    *)
(* intent in between, and appended more.                                   *)
\* Mutant: the row found is returned without looking at published_at.
FindAnyRow(p) ==
  /\ pc[p] = "intent_committed" /\ SessionAudit
  /\ \E k \in 1..Len(intents) : intents[k].input = input[p] /\ acks' = acks \cup {intents[k]}
  /\ Goto(p, "idle")
  /\ input' = [input EXCEPT ![p] = None]
  /\ UNCHANGED <<catalogue, open, files, readers, clock>>

FindPublished(p) ==
  /\ pc[p] = "intent_committed"
  /\ SessionAudit
  /\ \E k \in 1..Len(pubs) : /\ intents[k].input = input[p]
                             /\ acks' = acks \cup {intents[k]}
  /\ Goto(p, "idle")
  /\ input' = [input EXCEPT ![p] = None]
  /\ UNCHANGED <<catalogue, open, files, readers, clock>>

FindPending(p) ==
  /\ pc[p] = "intent_committed"
  /\ SessionAudit
  /\ \E k \in 1..Len(intents) : k > Len(pubs) /\ intents[k].input = input[p]
  /\ lock' = p
  /\ Goto(p, "publish")
  /\ UNCHANGED <<catalogue, draft, stamp, files, input, acks, readers, clock>>

\* recover(): finish the pending intent of whoever left it.
Recover(p) ==
  /\ pc[p] = "idle"
  /\ SessionAudit
  /\ ~Ready(intents, pubs)
  /\ lock' = p
  /\ Goto(p, "publish")
  /\ UNCHANGED <<catalogue, draft, stamp, files, input, acks, readers, clock>>

Pending == intents[Len(intents)]
File(r, whole) == [record |-> r, whole |-> whole]
Without(dir, r) == {f \in dir : f.record # r}

(* _publish().  A final file already there was linked by a writer that     *)
(* died later on: only its staging name is removed.                        *)
FinalAlreadyLinked(p) ==
  /\ pc[p] = "publish"
  /\ Intact(records, Pending)
  /\ staging' = Without(staging, Pending)
  /\ Goto(p, "file_published")
  /\ UNCHANGED <<catalogue, open, records, input, acks, readers, clock>>

\* A killed writer's partial staging file is removed before a new one is opened.
OpenStage(p) ==
  /\ pc[p] = "publish"
  /\ ~Exists(records, Pending)
  /\ staging' = Without(staging, Pending) \cup {File(Pending, FALSE)}
  /\ Goto(p, "writing")
  /\ UNCHANGED <<catalogue, open, records, input, acks, readers, clock>>

SyncStage(p) ==
  /\ pc[p] = "writing"
  /\ staging' = Without(staging, Pending) \cup {File(Pending, TRUE)}
  /\ Goto(p, "temp_synced")
  /\ UNCHANGED <<catalogue, open, records, input, acks, readers, clock>>

LinkFinal(p) ==
  /\ pc[p] = "temp_synced"
  /\ records' = records \cup {f \in staging : f.record = Pending}
  /\ Goto(p, "linked_before_staging_cleanup")
  /\ UNCHANGED <<catalogue, open, staging, input, acks, readers, clock>>

UnlinkStage(p) ==
  /\ pc[p] = "linked_before_staging_cleanup"
  /\ staging' = Without(staging, Pending)
  /\ Intact(records, Pending)
  /\ Goto(p, "file_published")
  /\ UNCHANGED <<catalogue, open, records, input, acks, readers, clock>>

\* _finish_pending() after _publish(): the clock is read and checked once more.
InsertPublication(p) ==
  /\ pc[p] = "file_published"
  /\ clock >= LatestTime(intents, pubs)
  /\ stamp' = <<clock>>
  /\ Goto(p, "publication_before_commit")
  /\ UNCHANGED <<catalogue, draft, lock, files, input, acks, readers, clock>>

CommitPublication(p) ==
  /\ pc[p] = "publication_before_commit"
  /\ Audit(intents, pubs \o stamp)
  /\ ClockSane(intents, pubs \o stamp)
  /\ pubs' = pubs \o stamp
  /\ stamp' = <<>>
  /\ lock' = None
  /\ acks' = acks \cup {Pending}
  /\ Goto(p, "idle")
  /\ input' = [input EXCEPT ![p] = None]
  /\ UNCHANGED <<intents, draft, files, readers, clock>>

(* An exception, an injected fault, a busy timeout or the death of the     *)
(* process: the connection closes, SQLite rolls back, the files stay.      *)
Interrupt(p) ==
  /\ pc[p] # "idle"
  /\ IF lock = p THEN draft' = <<>> /\ stamp' = <<>> /\ lock' = None
                 ELSE UNCHANGED open
  /\ Goto(p, "idle")
  /\ input' = [input EXCEPT ![p] = None]
  /\ UNCHANGED <<catalogue, files, acks, readers, clock>>

-----------------------------------------------------------------------------
(* snapshot() and read_page(): each is one transaction that is rolled back.*)
\* Mutant: the high water mark counts a pending intent.
TakeSnapshotOfIntents(r) ==
  /\ SessionAudit
  /\ snap' = [snap EXCEPT ![r] = [highWater |-> Len(intents), head |-> Head_(intents, Len(intents))]]
  /\ page' = [page EXCEPT ![r] = <<>>]
  /\ UNCHANGED <<catalogue, open, files, pc, input, acks, clock>>

TakeSnapshot(r) ==
  /\ SessionAudit
  /\ Ready(intents, pubs)
  /\ snap' = [snap EXCEPT ![r] = [highWater |-> Len(pubs), head |-> Head_(intents, Len(pubs))]]
  /\ page' = [page EXCEPT ![r] = <<>>]
  /\ UNCHANGED <<catalogue, open, files, pc, input, acks, clock>>

(* The page starts after the last record read; MAX_PAGE_BYTES may cut it   *)
(* before PageLimit, but never to nothing (a record is at most 2 MiB).     *)
ReadPage(r) ==
  LET s == snap[r]
      after == Len(page[r])
  IN /\ SessionAudit
     /\ Ready(intents, pubs)
     /\ s.highWater <= Len(pubs)
     /\ s.head = Head_(intents, s.highWater)
     /\ \E n \in 1..PageLimit :
          /\ after + n <= s.highWater
          /\ page' = [page EXCEPT ![r] = @ \o SubSeq(intents, after + 1, after + n)]
     /\ UNCHANGED <<catalogue, open, files, pc, input, acks, snap, clock>>

\* The host's clock moves on, or is set back.
SetClock ==
  /\ clock' \in 0..MaxTime
  /\ UNCHANGED <<catalogue, open, files, pc, input, acks, readers>>

Next ==
  \/ \E p \in Writers :
       \/ \E i \in Inputs : AppendPublished(p, i) \/ AppendPendingAgain(p, i) \/ InsertIntent(p, i)
       \/ CommitIntent(p)
       \/ FindPublished(p)
       \/ FindPending(p)
       \/ Recover(p)
       \/ FinalAlreadyLinked(p)
       \/ OpenStage(p)
       \/ SyncStage(p)
       \/ LinkFinal(p)
       \/ UnlinkStage(p)
       \/ InsertPublication(p)
       \/ CommitPublication(p)
       \/ Interrupt(p)
  \/ \E r \in Readers : TakeSnapshot(r) \/ ReadPage(r)
  \/ SetClock

Spec == Init /\ [][Next]_vars

-----------------------------------------------------------------------------
Hash == {Zero} \cup (Nat \X Inputs \X Nat)
Locked == {"intent_before_commit", "publish", "writing", "temp_synced",
           "linked_before_staging_cleanup", "file_published", "publication_before_commit"}
Labels == Locked \cup {"idle", "intent_committed"}

Record == [order : Nat, input : Inputs, recordedAt : Nat,
           prevGlobal : Hash,
           prevPartition : Hash]
FileOf == [record : Record, whole : BOOLEAN]

\* The type invariant of the store.
TypeOK ==
  /\ intents \in Seq(Record) /\ pubs \in Seq(Nat)
  /\ draft \in Seq(Record) /\ stamp \in Seq(Nat)
  /\ records \in SUBSET FileOf /\ staging \in SUBSET FileOf
  /\ lock \in Writers \cup {None}
  /\ pc \in [Writers -> Labels]
  /\ input \in [Writers -> Inputs \cup {None}]
  /\ acks \in SUBSET Record
  /\ snap \in [Readers -> [highWater : Nat, head : Hash]]
  /\ page \in [Readers -> Seq(Record)]
  /\ clock \in 0..MaxTime

(* Whatever was interrupted and wherever, the committed catalogue and the  *)
(* files always pass the audit every operation starts with: only the clock *)
(* can make _audit() refuse a store that nobody tampered with.             *)
StoreAuditable == Audit(intents, pubs)

(* A record that append() or recover() has returned to a caller is         *)
(* published, and its file is there, whole: across crashes, retries and    *)
(* recoveries by other processes.                                          *)
AcknowledgedDurable ==
  \A r \in acks : \E k \in 1..Len(pubs) : intents[k] = r /\ Intact(records, r)

(* Retries of one input, by any process, before or after a crash, are all  *)
(* given the same record, and two inputs with one key never both get one.  *)
OneRecordPerKey ==
  \A r, s \in acks : r.input.key = s.input.key => r = s

(* What a reader has collected page by page is a prefix of the records its *)
(* snapshot covers, whatever was published meanwhile, and a snapshot that  *)
(* was taken is never refused as a mismatch later.                         *)
SnapshotStable ==
  \A r \in Readers :
    /\ snap[r].highWater <= Len(pubs)
    /\ snap[r].head = Head_(intents, snap[r].highWater)
    /\ Len(page[r]) <= snap[r].highWater
    /\ \A k \in 1..Len(page[r]) : page[r][k] = intents[k]

(* A pending intent is only ever finished as it was committed: no step     *)
(* replaces it, drops it, or adds an intent behind it.                     *)
PendingOnlyPublished ==
  [][Len(pubs) < Len(intents) => /\ intents' = intents
                                 /\ pubs' \in {pubs} \cup {Append(pubs, t) : t \in 0..MaxTime}]_vars

-----------------------------------------------------------------------------
(* The store implements the append-only log: a publication's commit is the *)
(* step that publishes, a caller is told of published records only, and    *)
(* every other step (intents, files, crashes, recoveries) is invisible.    *)
PublishedLog == [k \in 1..Len(pubs) |-> intents[k].input]
Told == {<<r.order, r.input>> : r \in acks}
Log == INSTANCE EvidenceLog WITH log <- PublishedLog, told <- Told
ImplementsLog == Log!Spec
=============================================================================
