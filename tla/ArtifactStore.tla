---------------------------- MODULE ArtifactStore ----------------------------
(***************************************************************************)
(* The runtime artifact store (runtime_evidence/store.py): a SQLite        *)
(* catalogue next to content-addressed record files.  append() links the   *)
(* file while its transaction is open and inserts the row before it        *)
(* commits; when it fails it rolls back, looks for a committed row, and    *)
(* only then unlinks the file it made.  A process that dies leaves the     *)
(* file behind.                                                            *)
(*                                                                         *)
(* A record is [order, artifact, storedAt, prev]; prev stands for the hash *)
(* of the previous record, which is collision free.                        *)
(***************************************************************************)
EXTENDS Integers, Sequences

CONSTANT Stores   \* artifact store ids


VARIABLES
  catalog,   \* table runtime_artifacts of each store
  files,     \* record files of each store
  tx         \* the open append transaction of each store: at most one [by, record, created]

storeVars == <<catalog, files, tx>>

Zero == <<0, 0, 0>>
HashOf(r) == <<r.order, r.artifact, r.storedAt>>
Last(s) == IF catalog[s] = <<>> THEN Zero ELSE HashOf(catalog[s][Len(catalog[s])])

Rows(s) == {catalog[s][k] : k \in DOMAIN catalog[s]}
RowOf(s, a) == {r \in Rows(s) : r.artifact = a}
FileOf(s, a) == {f \in files[s] : f.artifact = a}

\* _validate_state(): the chain, the clock and the inventory of files.
ChainIntact(s) ==
  \A k \in DOMAIN catalog[s] :
    /\ catalog[s][k].order = k
    /\ catalog[s][k].prev = (IF k = 1 THEN Zero ELSE HashOf(catalog[s][k - 1]))
    /\ k > 1 => catalog[s][k - 1].storedAt <= catalog[s][k].storedAt
FilesComplete(s) == Rows(s) \subseteq files[s]
Unexpected(s) == files[s] \ Rows(s)
Valid(s) == ChainIntact(s) /\ FilesComplete(s)

StoreInit ==
  /\ catalog = [s \in Stores |-> <<>>]
  /\ files = [s \in Stores |-> {}]
  /\ tx = [s \in Stores |-> <<>>]

-----------------------------------------------------------------------------
(* append(a) up to its insert, by the process p at time now.               *)

\* ARTIFACT_STORE_INVENTORY_MISMATCH: a file that is neither catalogued nor a's own.
AppendRefused(s, a) == ~Valid(s) \/ Unexpected(s) \ FileOf(s, a) # {}

\* Mutant: the hash chain starts anew.
NewRecordUnchained(s, a, now) ==
  [order |-> Len(catalog[s]) + 1, artifact |-> a, storedAt |-> now, prev |-> Zero]
NewRecord(s, a, now) ==
  [order |-> Len(catalog[s]) + 1, artifact |-> a, storedAt |-> now, prev |-> Last(s)]

\* An orphan file is adopted when it is the exact next record.
Adoptable(s, r, now) ==
  r.order = Len(catalog[s]) + 1 /\ r.prev = Last(s) /\ r.storedAt <= now

Orphan(s, a) == FileOf(s, a) \ Rows(s)

WriteFile(s, a, p, now) ==
  /\ Orphan(s, a) = {}
  /\ LET r == NewRecord(s, a, now)
     IN /\ files' = [files EXCEPT ![s] = @ \cup {r}]
        /\ tx' = [tx EXCEPT ![s] = <<[by |-> p, record |-> r, created |-> TRUE]>>]
  /\ UNCHANGED catalog

AdoptFile(s, a, p, now) ==
  \E r \in Orphan(s, a) :
    /\ Adoptable(s, r, now)
    /\ tx' = [tx EXCEPT ![s] = <<[by |-> p, record |-> r, created |-> FALSE]>>]
    /\ UNCHANGED <<catalog, files>>

\* ARTIFACT_ID_COLLISION
AppendCollides(s, a, now) == \E r \in Orphan(s, a) : ~Adoptable(s, r, now)

\* Mutant: the artifact is not looked up among the records.
NewEvenIfStored(s, a) == {}
Existing(s, a) == RowOf(s, a)

CommitRow(s) ==
  /\ catalog' = [catalog EXCEPT ![s] = Append(@, tx[s][1].record)]
  /\ tx' = [tx EXCEPT ![s] = <<>>]
  /\ UNCHANGED files

Rollback(s) == tx' = [tx EXCEPT ![s] = <<>>] /\ UNCHANGED <<catalog, files>>

UnlinkAllowed(s, r) == RowOf(s, r.artifact) = {}
Unlink(s, r) == files' = [files EXCEPT ![s] = @ \ {r}] /\ UNCHANGED <<catalog, tx>>

\* audit(): no orphan is allowed.
AuditPasses(s) == Valid(s) /\ Unexpected(s) = {}
=============================================================================
