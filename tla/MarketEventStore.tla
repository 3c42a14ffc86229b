--------------------------- MODULE MarketEventStore ---------------------------
(***************************************************************************)
(* The market event store (market_events/store.py): append-only event      *)
(* files, a hash chain and a manifest file per partition, and the SQLite   *)
(* catalog of them.  The ingestion process is its only writer.             *)
(*                                                                         *)
(* A record is its content: a hash is the record it was computed from, and *)
(* a file is the record in it. The rows and the manifest of a partition    *)
(* are functions of the append order; one that lists nothing is no file.   *)
(* Left out: payloads and source times, hence the minute bars, a table     *)
(* derived from them in the same transaction, and the findings on          *)
(* provider_seq and source time; and the statistics of ingestion_runs.     *)
(***************************************************************************)
EXTENDS Naturals, Sequences, FiniteSetsExt

CONSTANTS
  None,
  Symbols,       \* subscribed symbols; with one trading day a symbol is a partition
  MaxSessions,   \* bound: sidecar sessions
  MaxSeq         \* bound: callbacks of a session

Sessions == 1..MaxSessions
Events == [session : Sessions, seq : 1..MaxSeq, symbol : Symbols]

VARIABLES
  rows,        \* table events, in append_order: each event with the hash of its predecessor
  lastSeq,     \* table sessions: last_callback_seq; 0 while there is no row
  findings,    \* table findings: the gaps and disorders of callback_seq
  partitions,  \* table partitions: the manifest each row has the hash of
  files,       \* the event files, each named after its event
  manifests,   \* by partition: its manifest file
  tx           \* append()'s open transaction

storeVars == <<rows, lastSeq, findings, partitions, files, manifests, tx>>

Zero == <<>>
Hash(record) == <<record.event, record.prev>>
Partition(event) == event.symbol
PartitionRows(table, p) == [i \in {j \in DOMAIN table : Partition(table[j].event) = p} |-> table[i]]
NoRows == PartitionRows(<<>>, None)
Filed(e) == {f \in files : f.event = e}
Stored == {rows[i].event : i \in DOMAIN rows}

StoreInit ==
  /\ rows = <<>> /\ findings = {} /\ tx = None
  /\ lastSeq = [s \in Sessions |-> 0]
  /\ partitions = [p \in Symbols |-> NoRows]
  /\ files = {}
  /\ manifests = [p \in Symbols |-> NoRows]

\* The hash of the row before i.
HashBefore(chain, i) ==
  LET before == {j \in DOMAIN chain : j < i} IN IF before = {} THEN Zero ELSE Hash(chain[Max(before)])
\* Mutant: the last record of any partition.
PreviousOfAny(p) == HashBefore(rows, Len(rows) + 1)
PreviousHash(p) == HashBefore(PartitionRows(rows, p), Len(rows) + 1)

SequenceFindings(e) ==
  LET stored == {x.seq : x \in {y \in Stored : y.session = e.session}}
      last == Max(stored)
      Finding(kind) == [kind |-> kind, session |-> e.session, expected |-> last + 1, observed |-> e.seq]
  IN IF stored = {} THEN {}
     ELSE IF e.seq <= last THEN {Finding("OUT_OF_ORDER")}
     ELSE IF e.seq > last + 1 THEN {Finding("CALLBACK_SEQUENCE")}
     ELSE {}

\* append() finds the event in the catalog; its file must still be what was stored.
IsDuplicate(e) == e \in Stored
DuplicateIntact(e) == \E i \in DOMAIN rows : rows[i].event = e /\ Filed(e) = {rows[i]}

NewRow(e) == [event |-> e, prev |-> PreviousHash(Partition(e))]
\* Mutant: any file of the event's name is a collision.
CollidesWithAny(e) == Filed(e) # {}
Collides(e) == Filed(e) \notin {{}, {NewRow(e)}}
\* The event's file is written, or a file with exactly this record is adopted.
WriteEventFile(e) ==
  /\ files' = files \cup {NewRow(e)}
  /\ tx' = [row |-> NewRow(e), created |-> Filed(e) = {}]
  /\ UNCHANGED <<rows, lastSeq, findings, partitions, manifests>>

\* Mutant: the manifest is written of the rows that are committed already.
WriteOldManifest ==
  LET p == Partition(tx.row.event)
  IN /\ manifests' = [manifests EXCEPT ![p] = PartitionRows(rows, p)]
     /\ UNCHANGED <<rows, lastSeq, findings, partitions, files, tx>>
\* The manifest file is replaced before the transaction commits.
WriteManifest ==
  LET p == Partition(tx.row.event)
  IN /\ manifests' = [manifests EXCEPT ![p] = PartitionRows(Append(rows, tx.row), p)]
     /\ UNCHANGED <<rows, lastSeq, findings, partitions, files, tx>>

Commit ==
  LET e == tx.row.event
  IN /\ rows' = Append(rows, tx.row)
     /\ lastSeq' = [lastSeq EXCEPT ![e.session] = Max({@, e.seq})]
     /\ findings' = findings \cup SequenceFindings(e)
     /\ partitions' = [partitions EXCEPT ![Partition(e)] = manifests[Partition(e)]]
     /\ tx' = None
     /\ UNCHANGED <<files, manifests>>

\* The handler of append(): rollback, and the event's file is unlinked if this call made it.
UndoAppend ==
  /\ files' = IF tx.created THEN files \ Filed(tx.row.event) ELSE files
  /\ tx' = None
  /\ UNCHANGED <<rows, lastSeq, findings, partitions, manifests>>

CommittedManifest(p) == PartitionRows(rows, p)
\* Mutant: an empty partition keeps the manifest of the event that failed.
RebuildIfAny(p) ==
  /\ IF CommittedManifest(p) = NoRows
     THEN UNCHANGED <<manifests, partitions>>
     ELSE /\ manifests' = [manifests EXCEPT ![p] = CommittedManifest(p)]
          /\ partitions' = [partitions EXCEPT ![p] = CommittedManifest(p)]
  /\ UNCHANGED <<rows, lastSeq, findings, files, tx>>
\* The manifest file is removed where there are no rows.
RebuildManifest(p) ==
  /\ manifests' = [manifests EXCEPT ![p] = CommittedManifest(p)]
  /\ partitions' = IF CommittedManifest(p) = NoRows THEN partitions
                   ELSE [partitions EXCEPT ![p] = CommittedManifest(p)]
  /\ UNCHANGED <<rows, lastSeq, findings, files, tx>>

\* verify_integrity(): the files and the chain of a partition, then its manifest.
ChainIntact(p) ==
  LET chain == PartitionRows(rows, p)
  IN \A i \in DOMAIN chain :
       Filed(chain[i].event) = {chain[i]} /\ chain[i].prev = HashBefore(chain, i)
ManifestIntact(p) ==
  LET chain == PartitionRows(rows, p)
  IN partitions[p] = chain /\ (chain # NoRows => manifests[p] = chain)
Verifies(p) == ChainIntact(p) /\ ManifestIntact(p)
=============================================================================
