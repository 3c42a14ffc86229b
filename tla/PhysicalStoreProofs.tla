------------------------- MODULE PhysicalStoreProofs -------------------------
(* Proofs about PhysicalStore, for any sets of processes and of inputs.    *)
EXTENDS PhysicalStore, SequenceTheorems, TLAPS

Publishing == Locked \ {"intent_before_commit"}

\* A writer is inside a transaction exactly when it holds the write lock.
LockInv == \A p \in Writers : lock = p <=> pc[p] \in Locked

\* What an open transaction has inserted and not committed.
DraftInv ==
  IF \E p \in Writers : pc[p] = "intent_before_commit"
  THEN \E i \in Inputs, t \in 0..MaxTime :
         /\ Rows(i) = {}
         /\ t >= LatestTime(intents, pubs)
         /\ Ready(intents, pubs)
         /\ draft = <<NewRecord(intents, i, t)>>
  ELSE draft = <<>>
StampInv ==
  IF \E p \in Writers : pc[p] = "publication_before_commit"
  THEN \E t \in 0..MaxTime : t >= LatestTime(intents, pubs) /\ stamp = <<t>>
  ELSE stamp = <<>>

\* Where the pending record's file is at each point of _publish().
PublishInv ==
  \A p \in Writers :
    /\ pc[p] \in Publishing => Len(intents) = Len(pubs) + 1
    /\ pc[p] = "temp_synced" => staging = {File(Pending, TRUE)}
    /\ pc[p] \in {"linked_before_staging_cleanup", "file_published", "publication_before_commit"}
         => File(Pending, TRUE) \in records
    /\ pc[p] \in {"file_published", "publication_before_commit"} => staging = {}

RecordsWhole == \A f \in records : f.whole = TRUE
KeysUnique ==
  \A j, k \in 1..Len(intents) : intents[j].input.key = intents[k].input.key => j = k

\* What concerns the catalogue, the files and the transactions only.
CoreInv ==
  /\ LockInv
  /\ DraftInv
  /\ StampInv
  /\ PublishInv
  /\ PrefixPublished(intents, pubs)
  /\ ChainIntact(intents, pubs)
  /\ FilesAgree(intents, pubs)
  /\ NothingUnknown(intents, pubs)
  /\ RecordsWhole
  /\ KeysUnique

AcksPublished == \A r \in acks : \E k \in 1..Len(pubs) : intents[k] = r

\* The inductive invariant behind every theorem of this module.
IInv == TypeOK /\ CoreInv /\ AcksPublished /\ SnapshotStable

-----------------------------------------------------------------------------
(* The initial state satisfies the invariant.                              *)
LEMMA InitInv == Init => IInv
<1> SUFFICES ASSUME Init PROVE IInv
  OBVIOUS
<1> USE ConstantsAssumption DEF Init
<1>1. TypeOK
  BY DEF TypeOK, Labels, Locked, Hash
<1>2. LockInv /\ DraftInv /\ StampInv /\ PublishInv
  BY DEF LockInv, DraftInv, StampInv, PublishInv, Publishing, Locked
<1>3. /\ PrefixPublished(intents, pubs) /\ ChainIntact(intents, pubs)
      /\ FilesAgree(intents, pubs) /\ NothingUnknown(intents, pubs)
  BY DEF PrefixPublished, ChainIntact, FilesAgree, NothingUnknown
<1>4. RecordsWhole /\ KeysUnique /\ AcksPublished
  BY DEF RecordsWhole, KeysUnique, AcksPublished
<1>5. SnapshotStable
  BY DEF SnapshotStable, Head_
<1> QED
  BY <1>1, <1>2, <1>3, <1>4, <1>5 DEF IInv, CoreInv

(* A step that leaves catalogue, transactions, files and labels alone      *)
(* leaves their invariant alone.                                           *)
LEMMA CoreFrame ==
  ASSUME CoreInv, UNCHANGED <<catalogue, open, files, pc>>
  PROVE  CoreInv'
<1> USE DEF CoreInv, catalogue, open, files
<1>1. (LockInv /\ RecordsWhole /\ KeysUnique)'
  BY DEF LockInv, RecordsWhole, KeysUnique
<1>2. DraftInv'
  BY DEF DraftInv, Rows
<1>3. StampInv'
  BY DEF StampInv
<1>4. PublishInv'
  BY DEF PublishInv, Pending
<1>5. (PrefixPublished(intents, pubs) /\ ChainIntact(intents, pubs))'
  OBVIOUS
<1>6. (FilesAgree(intents, pubs) /\ NothingUnknown(intents, pubs))'
  BY DEF FilesAgree, NothingUnknown, Exists, Intact
<1> QED
  BY <1>1, <1>2, <1>3, <1>4, <1>5, <1>6

(* A file that is there is there whole.                                    *)
LEMMA WholeIsIntact ==
  ASSUME TypeOK, RecordsWhole, NEW r, Exists(records, r)
  PROVE  Intact(records, r)
<1>1. PICK f \in records : f.record = r
  BY DEF Exists
<1>2. f \in FileOf /\ f.whole = TRUE
  BY DEF TypeOK, RecordsWhole
<1>3. f = [record |-> r, whole |-> TRUE]
  BY <1>1, <1>2 DEF FileOf
<1>4. [record |-> r, whole |-> FALSE] \notin records
  BY DEF RecordsWhole
<1> QED
  BY <1>3, <1>4 DEF Intact

(* A chain head depends on the records before it only.                     *)
LEMMA PartitionHeadPrefix ==
  ASSUME NEW s, NEW t, NEW n \in Nat, \A k \in 1..n : s[k] = t[k], NEW q
  PROVE  PartitionHead(s, n, q) = PartitionHead(t, n, q)
<1> DEFINE S == LastInPartition(s, n, q)
           T == LastInPartition(t, n, q)
<1>1. S = T
  BY DEF LastInPartition
<1>2. ASSUME S # {} PROVE AnyOf(S) \in 1..n
  BY <1>2 DEF AnyOf, LastInPartition
<1>3. ASSUME S # {} PROVE HashOf(s[AnyOf(S)]) = HashOf(t[AnyOf(T)])
  BY <1>1, <1>2, <1>3
<1> HIDE DEF S, T
<1> QED
  BY <1>1, <1>3 DEF PartitionHead, S, T

(* The head of a partition is a hash.                                      *)
LEMMA PartitionHeadType ==
  ASSUME NEW s \in Seq(Record), NEW n \in 0..Len(s), NEW q
  PROVE  PartitionHead(s, n, q) \in Hash
<1> DEFINE S == LastInPartition(s, n, q)
<1>1. CASE S = {}
  BY <1>1 DEF PartitionHead, Hash
<1>2. CASE S # {}
  <2>1. AnyOf(S) \in 1..n
    BY <1>2 DEF AnyOf, LastInPartition
  <2>2. s[AnyOf(S)] \in Record
    BY <2>1
  <2>3. HashOf(s[AnyOf(S)]) \in Hash
    BY <2>2 DEF HashOf, Record, Hash
  <2> QED
    BY <1>2, <2>3 DEF PartitionHead
<1> QED
  BY <1>1, <1>2

(* Steps that only answer a caller.                                        *)
LEMMA AppendPublishedInv ==
  ASSUME IInv, NEW p \in Writers, NEW i \in Inputs, AppendPublished(p, i)
  PROVE  IInv'
<1> USE DEF AppendPublished, IInv, catalogue, open, files, readers
<1>1. PICK k \in 1..Len(pubs) : k \in 1..Len(intents) /\ acks' = acks \cup {intents[k]}
  BY DEF Rows, TypeOK
<1>2. TypeOK'
  BY <1>1, SMTT(60) DEF TypeOK
<1>3. CoreInv'
  BY CoreFrame
<1>4. AcksPublished'
  BY <1>1 DEF AcksPublished
<1>5. SnapshotStable'
  BY DEF SnapshotStable
<1> QED
  BY <1>2, <1>3, <1>4, <1>5

(* A step that leaves the catalogue and the open rows alone, and neither   *)
(* enters nor leaves the two labels at which a row is open.                *)
LEMMA RowsFrame ==
  ASSUME CoreInv, UNCHANGED <<catalogue, draft, stamp>>,
         \A w \in Writers :
           /\ pc'[w] = "intent_before_commit" <=> pc[w] = "intent_before_commit"
           /\ pc'[w] = "publication_before_commit" <=> pc[w] = "publication_before_commit"
  PROVE  (/\ DraftInv /\ StampInv /\ KeysUnique
          /\ PrefixPublished(intents, pubs) /\ ChainIntact(intents, pubs))'
<1> USE DEF CoreInv, catalogue
<1>1. DraftInv'
  <2>1. (\E w \in Writers : pc[w] = "intent_before_commit")'
           <=> \E w \in Writers : pc[w] = "intent_before_commit"
    OBVIOUS
  <2> QED
    BY <2>1 DEF DraftInv, Rows
<1>2. StampInv'
  <2>1. (\E w \in Writers : pc[w] = "publication_before_commit")'
           <=> \E w \in Writers : pc[w] = "publication_before_commit"
    OBVIOUS
  <2> QED
    BY <2>1 DEF StampInv
<1> QED
  BY <1>1, <1>2 DEF KeysUnique

FilesInv == FilesAgree(intents, pubs) /\ NothingUnknown(intents, pubs) /\ RecordsWhole

(* Steps that touch neither files nor catalogue keep the files in order.   *)
LEMMA FilesFrame ==
  ASSUME FilesInv, UNCHANGED <<catalogue, files>>
  PROVE  FilesInv'
BY DEF FilesInv, catalogue, files, FilesAgree, NothingUnknown, RecordsWhole, Exists, Intact

(* Steps that only move a writer from "idle" or to it, without the lock.   *)
LEMMA FindPublishedInv ==
  ASSUME IInv, NEW p \in Writers, FindPublished(p)
  PROVE  IInv'
<1> USE DEF FindPublished, IInv, catalogue, open, files, readers, Goto
<1>1. PICK k \in 1..Len(pubs) : acks' = acks \cup {intents[k]}
  OBVIOUS
<1>2. TypeOK'
  BY <1>1, SMTT(60) DEF TypeOK, CoreInv, PrefixPublished, Labels, Locked
<1>3. CoreInv'
  <2> USE DEF CoreInv, TypeOK
  <2>1. \A w \in Writers : pc'[w] # pc[w] => pc[w] = "intent_committed" /\ pc'[w] = "idle"
    OBVIOUS
  <2>2. LockInv'
    BY <2>1 DEF LockInv, Locked
  <2>3. PublishInv'
    BY <2>1 DEF PublishInv, Pending, Publishing, Locked
  <2> QED
    BY <2>1, <2>2, <2>3, RowsFrame, FilesFrame DEF FilesInv
<1>4. AcksPublished'
  BY <1>1 DEF AcksPublished
<1>5. SnapshotStable'
  BY DEF SnapshotStable
<1> QED
  BY <1>2, <1>3, <1>4, <1>5

LEMMA AppendPendingAgainInv ==
  ASSUME IInv, NEW p \in Writers, NEW i \in Inputs, AppendPendingAgain(p, i)
  PROVE  IInv'
<1> USE DEF AppendPendingAgain, IInv, catalogue, open, files, readers, Goto
<1>1. TypeOK'
  BY DEF TypeOK, Labels
<1>2. CoreInv'
  <2> USE DEF CoreInv, TypeOK
  <2>1. \A w \in Writers : pc'[w] # pc[w] => pc[w] = "idle" /\ pc'[w] = "intent_committed"
    OBVIOUS
  <2>2. LockInv'
    BY <2>1 DEF LockInv, Locked
  <2>3. PublishInv'
    BY <2>1 DEF PublishInv, Pending, Publishing, Locked
  <2> QED
    BY <2>1, <2>2, <2>3, RowsFrame, FilesFrame DEF FilesInv
<1>3. AcksPublished'
  BY DEF AcksPublished
<1>4. SnapshotStable'
  BY DEF SnapshotStable
<1> QED
  BY <1>1, <1>2, <1>3, <1>4

(* Steps that take the lock to publish the pending intent.                 *)
LEMMA StartPublishInv ==
  ASSUME IInv, NEW p \in Writers, FindPending(p) \/ Recover(p)
  PROVE  IInv'
<1> USE DEF FindPending, Recover, IInv, catalogue, files, readers, Goto
<1>1. lock = None /\ lock' = p /\ pc[p] \in {"idle", "intent_committed"}
      /\ pc' = [pc EXCEPT ![p] = "publish"]
  BY DEF SessionAudit
<1>2. Len(intents) = Len(pubs) + 1
  BY DEF CoreInv, PrefixPublished, Ready, TypeOK
<1>3. TypeOK'
  BY <1>1 DEF TypeOK, Labels, Locked
<1>4. CoreInv'
  <2> USE DEF CoreInv, TypeOK
  <2>1. \A w \in Writers : pc'[w] # pc[w] => w = p /\ pc'[w] = "publish"
    BY <1>1
  <2>2. \A w \in Writers : pc[w] \notin Locked
    BY <1>1, ConstantsAssumption DEF LockInv
  <2>3. LockInv'
    BY <1>1, <2>1, <2>2, ConstantsAssumption DEF LockInv, Locked
  <2>4. PublishInv'
    BY <1>1, <1>2, <2>1, <2>2 DEF PublishInv, Pending, Publishing, Locked
  <2> QED
    BY <1>1, <2>1, <2>3, <2>4, RowsFrame, FilesFrame DEF FilesInv
<1>5. AcksPublished'
  BY DEF AcksPublished
<1>6. SnapshotStable'
  BY DEF SnapshotStable
<1> QED
  BY <1>3, <1>4, <1>5, <1>6

(* The first transaction of append() inserts a row that extends the chains.*)
LEMMA NewRecordType ==
  ASSUME TypeOK, NEW i \in Inputs, NEW t \in Nat
  PROVE  NewRecord(intents, i, t) \in Record
<1>1. Head_(intents, Len(intents)) \in Hash
  <2>1. CASE Len(intents) = 0
    BY <2>1 DEF Head_, Hash
  <2>2. CASE Len(intents) # 0
    <3>1. intents[Len(intents)] \in Record
      BY <2>2 DEF TypeOK
    <3> QED
      BY <2>2, <3>1 DEF Head_, HashOf, Record, Hash
  <2> QED
    BY <2>1, <2>2
<1>2. PartitionHead(intents, Len(intents), i.partition) \in Hash
  <2>1. intents \in Seq(Record) /\ Len(intents) \in 0..Len(intents)
    BY DEF TypeOK
  <2> QED
    BY <2>1, PartitionHeadType
<1>3. Len(intents) + 1 \in Nat
  BY DEF TypeOK
<1> QED
  BY <1>1, <1>2, <1>3 DEF NewRecord, Record

LEMMA InsertIntentInv ==
  ASSUME IInv, NEW p \in Writers, NEW i \in Inputs, InsertIntent(p, i)
  PROVE  IInv'
<1> USE DEF InsertIntent, IInv, catalogue, files, readers, Goto
<1>1. TypeOK'
  <2>1. clock \in Nat
    BY ConstantsAssumption DEF TypeOK
  <2>2. draft' \in Seq(Record)
    BY <2>1, NewRecordType
  <2> QED
    BY <2>2 DEF TypeOK, Labels, Locked
<1>2. CoreInv'
  <2> USE DEF CoreInv
  <2>1. \A w \in Writers : pc[w] \notin Locked
    BY ConstantsAssumption DEF LockInv, SessionAudit
  <2>2. \A w \in Writers : pc'[w] = IF w = p THEN "intent_before_commit" ELSE pc[w]
    BY DEF TypeOK
  <2>3. LockInv'
    BY <2>1, <2>2, ConstantsAssumption DEF LockInv, Locked
  <2>4. DraftInv'
    <3>1. clock \in 0..MaxTime /\ clock >= LatestTime(intents, pubs)
      BY DEF TypeOK, SessionAudit, ClockSane
    <3> QED
      BY <2>2, <3>1 DEF DraftInv, Rows
  <2>5. StampInv'
    <3>1. (\E w \in Writers : pc[w] = "publication_before_commit")'
             <=> \E w \in Writers : pc[w] = "publication_before_commit"
      BY <2>1, <2>2 DEF Locked
    <3> QED
      BY <3>1 DEF StampInv
  <2>6. PublishInv'
    <3>1. \A w \in Writers : pc'[w] \notin Publishing
      BY <2>1, <2>2 DEF Publishing, Locked
    <3> QED
      BY <3>1 DEF PublishInv, Publishing, Locked
  <2> QED
    BY <2>3, <2>4, <2>5, <2>6, FilesFrame DEF FilesInv, KeysUnique
<1>3. AcksPublished'
  BY DEF AcksPublished
<1>4. SnapshotStable'
  BY DEF SnapshotStable
<1> QED
  BY <1>1, <1>2, <1>3, <1>4

(* The commit of an intent appends it behind a fully published catalogue.  *)
LEMMA CommitIntentInv ==
  ASSUME IInv, NEW p \in Writers, CommitIntent(p)
  PROVE  IInv'
<1> USE DEF CommitIntent, IInv, files, readers, Goto
<1> DEFINE n == Len(intents)
<1>1. PICK i \in Inputs, t \in 0..MaxTime :
        /\ Rows(i) = {}
        /\ t >= LatestTime(intents, pubs)
        /\ Ready(intents, pubs)
        /\ draft = <<NewRecord(intents, i, t)>>
  BY DEF CoreInv, DraftInv
<1> DEFINE r == NewRecord(intents, i, t)
<1>2. r \in Record /\ r.order = n + 1 /\ r.input = i /\ r.recordedAt = t
      /\ r.prevGlobal = Head_(intents, n)
      /\ r.prevPartition = PartitionHead(intents, n, i.partition)
  BY <1>1, NewRecordType, ConstantsAssumption DEF NewRecord
<1>3. intents' = intents \o <<r>>
  BY <1>1
<1> HIDE DEF r
<1>4. /\ n \in Nat /\ intents' \in Seq(Record) /\ Len(intents') = n + 1
      /\ \A k \in 1..n : intents'[k] = intents[k]
      /\ intents'[n + 1] = r
  BY <1>2, <1>3 DEF TypeOK
<1>5. Len(pubs) = n
  BY <1>1 DEF Ready
<1>6. TypeOK'
  BY <1>4 DEF TypeOK, Labels, open
<1>7. CoreInv'
  <2> USE DEF CoreInv
  <2>1. \A w \in Writers : pc[w] \in Locked <=> w = p
    BY ConstantsAssumption DEF LockInv, Locked
  <2>2. \A w \in Writers : pc'[w] = IF w = p THEN "intent_committed" ELSE pc[w]
    BY DEF TypeOK
  <2>3. \A w \in Writers : pc'[w] \notin Locked
    BY <2>1, <2>2 DEF Locked
  <2>4. (LockInv /\ DraftInv /\ StampInv /\ PublishInv)'
    <3>1. \A w \in Writers : pc[w] # "publication_before_commit"
      BY <2>1 DEF Locked
    <3> QED
      BY <2>3, <3>1, ConstantsAssumption DEF LockInv, DraftInv, StampInv, PublishInv, Publishing, Locked
  <2>5. PrefixPublished(intents, pubs)'
    BY <1>4, <1>5 DEF PrefixPublished
  <2>6. ChainIntact(intents, pubs)'
    <3> SUFFICES ASSUME NEW k \in 1..(n + 1)
                 PROVE  /\ intents'[k].order = k
                        /\ intents'[k].prevGlobal = Head_(intents', k - 1)
                        /\ intents'[k].prevPartition = PartitionHead(intents', k - 1, intents'[k].input.partition)
                        /\ k > 1 => pubs[k - 1] <= intents'[k].recordedAt
                        /\ k <= Len(pubs) => intents'[k].recordedAt <= pubs[k]
      BY <1>4 DEF ChainIntact
    <3>1. Head_(intents', k - 1) = Head_(intents, k - 1)
      BY <1>4 DEF Head_
    <3>2. \A q : PartitionHead(intents', k - 1, q) = PartitionHead(intents, k - 1, q)
      <4>1. k - 1 \in Nat /\ \A j \in 1..(k - 1) : intents'[j] = intents[j]
        BY <1>4
      <4> QED
        BY ONLY <4>1, PartitionHeadPrefix, ZenonT(60)
    <3>3. CASE k \in 1..n
      BY <1>4, <3>1, <3>2, <3>3, SMTT(60) DEF ChainIntact
    <3>4. CASE k = n + 1
      <4>1. k > 1 => pubs[k - 1] <= t
        BY <1>1, <1>4, <1>5, <3>4 DEF LatestTime, TypeOK
      <4> QED
        BY <1>2, <1>4, <1>5, <3>1, <3>2, <3>4, <4>1
    <3> QED
      BY <1>4, <3>3, <3>4
  <2>7. RecordsWhole' /\ FilesAgree(intents, pubs)'
    <3>1. RecordsWhole'
      BY DEF RecordsWhole
    <3>2. \A x : Exists(records, x) => Intact(records, x)
      BY WholeIsIntact
    <3> QED
      BY <1>4, <1>5, <3>1, <3>2 DEF FilesAgree, Exists, Intact
  <2>8. NothingUnknown(intents, pubs)'
    <3>1. staging = {}
      BY <1>5 DEF NothingUnknown
    <3> QED
      BY <1>4, <3>1 DEF NothingUnknown
  <2>9. KeysUnique'
    <3>1. \A k \in 1..n : intents[k].input.key # i.key
      BY <1>1 DEF Rows
    <3>2. \A j, k \in 1..n : intents'[j].input.key = intents'[k].input.key => j = k
      BY <1>4 DEF KeysUnique
    <3>3. \A k \in 1..n : intents'[k].input.key # intents'[n + 1].input.key
      BY <1>2, <1>4, <3>1
    <3>4. 1..Len(intents') = (1..n) \cup {n + 1}
      BY <1>4
    <3>5. SUFFICES ASSUME NEW j \in 1..Len(intents'), NEW k \in 1..Len(intents'),
                          intents'[j].input.key = intents'[k].input.key
                   PROVE  j = k
      BY DEF KeysUnique
    <3>6. (j \in 1..n \/ j = n + 1) /\ (k \in 1..n \/ k = n + 1)
      BY ONLY <3>4, <3>5
    <3> QED
      BY ONLY <3>2, <3>3, <3>5, <3>6
  <2> QED
    BY <2>4, <2>5, <2>6, <2>7, <2>8, <2>9
<1>8. AcksPublished'
  BY <1>4, <1>5 DEF AcksPublished
<1>9. SnapshotStable'
  BY <1>4, <1>5 DEF SnapshotStable, Head_, TypeOK
<1> QED
  BY <1>6, <1>7, <1>8, <1>9

(* What every step of _publish() has in common: the writer holds the lock, *)
(* the pending row is the last one, and staging/ holds files of it alone.  *)
Files_ == {"publish", "writing", "temp_synced", "linked_before_staging_cleanup", "file_published"}
LEMMA PublishStepFrame ==
  ASSUME IInv, NEW p \in Writers, pc[p] \in Files_, NEW l \in Files_,
         Goto(p, l), UNCHANGED <<catalogue, open>>
  PROVE  /\ Len(intents) = Len(pubs) + 1 /\ Len(intents) \in 1..Len(intents)
         /\ Pending \in Record
         /\ \A f \in staging : f.record = Pending
         /\ \A k \in 1..Len(pubs) : intents[k] # Pending
         /\ \A w \in Writers : pc'[w] \in Locked => w = p /\ pc'[w] = l
         /\ pc' \in [Writers -> Labels]
         /\ LockInv'
         /\ (/\ DraftInv /\ StampInv /\ KeysUnique
             /\ PrefixPublished(intents, pubs) /\ ChainIntact(intents, pubs))'
<1> USE DEF IInv, CoreInv, Files_, Goto
<1>1. Len(intents) = Len(pubs) + 1 /\ Len(intents) \in 1..Len(intents) /\ Len(pubs) \in Nat
  <2>1. Len(pubs) \in Nat /\ Len(intents) \in Nat
    BY DEF TypeOK
  <2>2. pc[p] \in Publishing
    BY DEF Publishing, Locked
  <2>3. Len(intents) = Len(pubs) + 1
    BY <2>2 DEF PublishInv
  <2> QED
    BY <2>1, <2>3
<1>2. Pending \in Record
  BY <1>1 DEF TypeOK, Pending
<1>3. \A f \in staging : f.record = Pending
  BY DEF NothingUnknown, Pending
<1>4. \A k \in 1..Len(pubs) : intents[k] # Pending
  BY <1>1 DEF ChainIntact, Pending
<1>5. \A w \in Writers : pc[w] \in Locked <=> w = p
  BY ConstantsAssumption DEF LockInv, Locked
<1>6. \A w \in Writers : pc'[w] = IF w = p THEN l ELSE pc[w]
  BY DEF TypeOK
<1>7. pc' \in [Writers -> Labels]
  BY DEF TypeOK, Labels, Locked
<1>8. LockInv'
  BY <1>5, <1>6 DEF LockInv, Locked, open
<1>9. (/\ DraftInv /\ StampInv /\ KeysUnique
       /\ PrefixPublished(intents, pubs) /\ ChainIntact(intents, pubs))'
  BY <1>6, RowsFrame DEF open
<1> QED
  BY <1>1, <1>2, <1>3, <1>4, <1>5, <1>6, <1>7, <1>8, <1>9

\* Files stay in order as long as staging/ holds files of the pending record only.
LEMMA StagingFrame ==
  ASSUME IInv, Len(intents) = Len(pubs) + 1, Pending \in Record,
         \A k \in 1..Len(pubs) : intents[k] # Pending,
         UNCHANGED catalogue,
         records' \in {records, records \cup {File(Pending, TRUE)}},
         \A f \in staging' : f.record = Pending
  PROVE  FilesInv' /\ records' \in SUBSET FileOf
<1> USE DEF IInv, CoreInv, catalogue, FilesInv
<1>1. Len(intents) \in 1..Len(intents) /\ Len(pubs) \in Nat
  BY DEF TypeOK
<1>2. RecordsWhole'
  BY DEF RecordsWhole, File
<1>3. records' \in SUBSET FileOf
  <2>1. File(Pending, TRUE) \in FileOf
    BY DEF FileOf, File
  <2> QED
    BY <2>1 DEF TypeOK
<1>4. NothingUnknown(intents, pubs)'
  BY <1>1 DEF NothingUnknown, Pending, File
<1>5. \A x : (\E f \in records' : f.record = x) => File(x, TRUE) \in records' /\ File(x, FALSE) \notin records'
  <2> SUFFICES ASSUME NEW f \in records'
               PROVE  File(f.record, TRUE) \in records' /\ File(f.record, FALSE) \notin records'
    OBVIOUS
  <2>1. f \in FileOf /\ f.whole = TRUE
    BY <1>2, <1>3 DEF RecordsWhole
  <2>2. f = File(f.record, TRUE)
    BY <2>1 DEF FileOf, File
  <2>3. File(f.record, FALSE) \notin records'
    BY <1>2 DEF RecordsWhole, File
  <2> QED
    BY <2>2, <2>3
<1>6. FilesAgree(intents, pubs)'
  BY <1>1, <1>5 DEF FilesAgree, Exists, Intact, File
<1> QED
  BY <1>2, <1>3, <1>4, <1>6

LEMMA FinalAlreadyLinkedInv ==
  ASSUME IInv, NEW p \in Writers, FinalAlreadyLinked(p)
  PROVE  IInv'
<1> USE DEF FinalAlreadyLinked, IInv, readers
<1>1. Files_ # {} /\ pc[p] \in Files_ /\ "file_published" \in Files_
  BY DEF Files_
<1> USE PublishStepFrame, <1>1
<1>2. staging' = {}
  BY DEF Without
<1>3. FilesInv'
  BY <1>2, StagingFrame
<1>4. TypeOK'
  BY <1>2 DEF TypeOK, catalogue, open
<1>5. PublishInv'
  BY <1>2 DEF PublishInv, Publishing, Locked, Intact, File, Pending, catalogue
<1>6. CoreInv'
  BY <1>3, <1>5 DEF CoreInv, FilesInv
<1>7. AcksPublished' /\ SnapshotStable'
  BY DEF AcksPublished, SnapshotStable, catalogue
<1> QED
  BY <1>4, <1>6, <1>7

LEMMA WriteStageInv ==
  ASSUME IInv, NEW p \in Writers, OpenStage(p) \/ SyncStage(p)
  PROVE  IInv'
<1> USE DEF IInv, readers
<1>1. PICK l \in {"writing", "temp_synced"}, b \in BOOLEAN :
        /\ pc[p] \in {"publish", "writing"}
        /\ staging' = Without(staging, Pending) \cup {File(Pending, b)}
        /\ l = "temp_synced" => b = TRUE
        /\ Goto(p, l)
        /\ UNCHANGED <<catalogue, open, records, input, acks, readers, clock>>
  BY DEF OpenStage, SyncStage
<1>2. pc[p] \in Files_ /\ l \in Files_
  BY <1>1 DEF Files_
<1> USE PublishStepFrame, <1>1, <1>2
<1>3. staging' = {File(Pending, b)}
  BY DEF Without
<1>4. FilesInv'
  BY <1>3, StagingFrame DEF File
<1>5. TypeOK'
  BY <1>3 DEF TypeOK, catalogue, open, FileOf, File
<1>6. PublishInv'
  <2>1. ASSUME NEW w \in Writers, pc'[w] \in Publishing PROVE pc'[w] = l
    BY <2>1 DEF Publishing
  <2>2. Len(intents') = Len(pubs') + 1 /\ Pending' = Pending
    BY DEF Pending, catalogue
  <2>3. l = "temp_synced" => staging' = {File(Pending', TRUE)}
    BY ONLY <1>1, <1>3, <2>2, Zenon
  <2> QED
    BY <1>3, <2>1, <2>2, <2>3 DEF PublishInv, Publishing, Locked
<1>7. CoreInv'
  BY <1>4, <1>6 DEF CoreInv, FilesInv
<1>8. AcksPublished' /\ SnapshotStable'
  BY DEF AcksPublished, SnapshotStable, catalogue
<1> QED
  BY <1>5, <1>7, <1>8

LEMMA LinkFinalInv ==
  ASSUME IInv, NEW p \in Writers, LinkFinal(p)
  PROVE  IInv'
<1> USE DEF LinkFinal, IInv, readers
<1>1. pc[p] \in Files_ /\ "linked_before_staging_cleanup" \in Files_
  BY DEF Files_
<1> USE PublishStepFrame, <1>1
<1>2. staging = {File(Pending, TRUE)}
  BY DEF CoreInv, PublishInv
<1>3. records' = records \cup {File(Pending, TRUE)}
  BY <1>2 DEF File
<1>4. FilesInv' /\ records' \in SUBSET FileOf
  BY <1>3, StagingFrame
<1>5. TypeOK'
  BY <1>4 DEF TypeOK, catalogue, open
<1>6. PublishInv'
  <2>1. ASSUME NEW w \in Writers, pc'[w] \in Publishing PROVE pc'[w] = "linked_before_staging_cleanup"
    BY <2>1 DEF Publishing
  <2>2. Len(intents') = Len(pubs') + 1 /\ File(Pending', TRUE) \in records'
    BY <1>3 DEF Pending, catalogue
  <2> QED
    BY ONLY <2>1, <2>2 DEF PublishInv, Publishing, Locked
<1>7. CoreInv'
  BY <1>4, <1>6 DEF CoreInv, FilesInv
<1>8. AcksPublished' /\ SnapshotStable'
  BY DEF AcksPublished, SnapshotStable, catalogue
<1> QED
  BY <1>5, <1>7, <1>8

LEMMA UnlinkStageInv ==
  ASSUME IInv, NEW p \in Writers, UnlinkStage(p)
  PROVE  IInv'
<1> USE DEF UnlinkStage, IInv, readers
<1>1. pc[p] \in Files_ /\ "file_published" \in Files_
  BY DEF Files_
<1> USE PublishStepFrame, <1>1
<1>2. staging' = {}
  BY DEF Without
<1>3. FilesInv'
  BY <1>2, StagingFrame
<1>4. TypeOK'
  BY <1>2 DEF TypeOK, catalogue, open
<1>5. PublishInv'
  BY <1>2 DEF PublishInv, Publishing, Locked, Intact, File, Pending, catalogue
<1>6. CoreInv'
  BY <1>3, <1>5 DEF CoreInv, FilesInv
<1>7. AcksPublished' /\ SnapshotStable'
  BY DEF AcksPublished, SnapshotStable, catalogue
<1> QED
  BY <1>4, <1>6, <1>7

(* The second transaction's commit: the pending record becomes published.  *)
LEMMA InsertPublicationInv ==
  ASSUME IInv, NEW p \in Writers, InsertPublication(p)
  PROVE  IInv'
<1> USE DEF InsertPublication, IInv, catalogue, files, readers, Goto
<1>1. TypeOK'
  BY ConstantsAssumption DEF TypeOK, Labels, Locked
<1>2. CoreInv'
  <2> USE DEF CoreInv
  <2>1. \A w \in Writers : pc[w] \in Locked <=> w = p
    BY ConstantsAssumption DEF LockInv, Locked
  <2>2. \A w \in Writers : pc'[w] = IF w = p THEN "publication_before_commit" ELSE pc[w]
    BY DEF TypeOK
  <2>3. LockInv'
    BY <2>1, <2>2 DEF LockInv, Locked
  <2>4. DraftInv'
    <3>1. (\E w \in Writers : pc[w] = "intent_before_commit")'
             <=> \E w \in Writers : pc[w] = "intent_before_commit"
      BY <2>2
    <3> QED
      BY <3>1 DEF DraftInv, Rows
  <2>5. StampInv'
    BY <2>2 DEF StampInv, TypeOK
  <2>6. PublishInv'
    <3>1. pc[p] \in Publishing
      BY DEF Publishing, Locked
    <3>2. \A w \in Writers : w # p => pc'[w] \notin Locked
      BY <2>1, <2>2
    <3>3. Len(intents) = Len(pubs) + 1 /\ File(Pending, TRUE) \in records /\ staging = {}
      BY <3>1 DEF PublishInv
    <3>4. \A w \in Writers : pc'[w] \in Locked => pc'[w] = "publication_before_commit"
      BY <2>2, <3>2
    <3> QED
      BY <3>3, <3>4 DEF PublishInv, Publishing, Locked, Pending
  <2> QED
    BY <2>3, <2>4, <2>5, <2>6, FilesFrame DEF FilesInv, KeysUnique
<1>3. AcksPublished' /\ SnapshotStable'
  BY DEF AcksPublished, SnapshotStable
<1> QED
  BY <1>1, <1>2, <1>3

LEMMA CommitPublicationInv ==
  ASSUME IInv, NEW p \in Writers, CommitPublication(p)
  PROVE  IInv'
<1> USE DEF CommitPublication, IInv, files, readers, Goto
<1> DEFINE n == Len(intents)
<1>1. PICK t \in 0..MaxTime : t >= LatestTime(intents, pubs) /\ stamp = <<t>>
  BY DEF CoreInv, StampInv
<1>2. n = Len(pubs) + 1 /\ n \in 1..n /\ Len(pubs) \in Nat
  <2>1. pc[p] \in Publishing
    BY DEF Publishing, Locked
  <2>2. n = Len(pubs) + 1
    BY <2>1 DEF CoreInv, PublishInv
  <2> QED
    BY <2>2 DEF TypeOK
<1>3. /\ pubs' \in Seq(Nat) /\ Len(pubs') = n
      /\ \A k \in 1..Len(pubs) : pubs'[k] = pubs[k]
      /\ pubs'[n] = t
  BY <1>1, <1>2 DEF TypeOK
<1>4. Pending \in Record /\ Pending = intents[n]
  BY <1>2 DEF Pending, TypeOK
<1>5. TypeOK'
  BY <1>3, <1>4 DEF TypeOK, Labels
<1>6. CoreInv'
  <2> USE DEF CoreInv
  <2>1. \A w \in Writers : pc[w] \in Locked <=> w = p
    BY ConstantsAssumption DEF LockInv, Locked
  <2>2. \A w \in Writers : pc'[w] = IF w = p THEN "idle" ELSE pc[w]
    BY DEF TypeOK
  <2>3. \A w \in Writers : pc'[w] \notin Locked
    BY <2>1, <2>2 DEF Locked
  <2>4. \A w \in Writers : pc[w] # "intent_before_commit"
    BY <2>1 DEF Locked
  <2>5. (LockInv /\ DraftInv /\ StampInv /\ PublishInv)'
    BY <2>3, <2>4, ConstantsAssumption DEF LockInv, DraftInv, StampInv, PublishInv, Publishing, Locked
  <2>6. PrefixPublished(intents, pubs)'
    BY <1>2, <1>3 DEF PrefixPublished
  <2>7. t >= intents[n].recordedAt
    BY <1>1, <1>2 DEF LatestTime
  <2>8. ChainIntact(intents, pubs)'
    BY <1>2, <1>3, <2>7 DEF ChainIntact
  <2>9. staging = {} /\ File(Pending, TRUE) \in records
    BY DEF PublishInv
  <2>10. (FilesAgree(intents, pubs) /\ NothingUnknown(intents, pubs) /\ RecordsWhole)'
    <3>1. RecordsWhole' /\ NothingUnknown(intents, pubs)'
      BY <2>9 DEF RecordsWhole, NothingUnknown
    <3>2. \A k \in 1..n : ~(k <= Len(pubs)) => k = n
      BY <1>2
    <3>3. Exists(records, Pending) /\ ~Exists(staging, Pending)
      BY <2>9 DEF Exists, File
    <3>4. \A k \in 1..n : ~Exists(staging, intents[k])
      BY <2>9 DEF Exists
    <3>5. \A k \in 1..n : Exists(records, intents[k]) /\ Intact(records, intents[k])
      BY <1>4, <3>2, <3>3 DEF FilesAgree
    <3>6. FilesAgree(intents, pubs)'
      BY <3>4, <3>5 DEF FilesAgree, Exists, Intact
    <3> QED
      BY <3>1, <3>6
  <2>11. KeysUnique'
    BY DEF KeysUnique
  <2> QED
    BY <2>5, <2>6, <2>8, <2>10, <2>11
<1>7. AcksPublished'
  BY <1>2, <1>3, <1>4 DEF AcksPublished
<1>8. SnapshotStable'
  BY <1>2, <1>3, SMTT(60) DEF SnapshotStable, TypeOK
<1> QED
  BY <1>5, <1>6, <1>7, <1>8

(* An interruption loses the open rows and keeps the files.                *)
LEMMA InterruptInv ==
  ASSUME IInv, NEW p \in Writers, Interrupt(p)
  PROVE  IInv'
<1> USE DEF Interrupt, IInv, catalogue, files, readers, Goto
<1>1. TypeOK'
  <2>1. draft' \in Seq(Record) /\ stamp' \in Seq(Nat) /\ lock' \in Writers \cup {None}
    <3>1. CASE lock = p
      BY <3>1
    <3>2. CASE lock # p
      BY <3>2 DEF TypeOK, open
    <3> QED
      BY <3>1, <3>2
  <2> QED
    BY <2>1 DEF TypeOK, Labels
<1>2. CoreInv'
  <2> USE DEF CoreInv
  <2>1. \A w \in Writers : pc'[w] = IF w = p THEN "idle" ELSE pc[w]
    BY DEF TypeOK
  <2>2. CASE lock = p
    <3>1. \A w \in Writers : pc'[w] \notin Locked
      BY <2>1, <2>2 DEF LockInv, Locked
    <3> QED
      BY <2>2, <3>1, FilesFrame, ConstantsAssumption
      DEF LockInv, DraftInv, StampInv, PublishInv, Publishing, Locked, FilesInv, KeysUnique
  <2>3. CASE lock # p
    <3>1. pc[p] \notin Locked
      BY <2>3 DEF LockInv
    <3>2. \A w \in Writers : pc'[w] \in Locked <=> pc[w] \in Locked
      BY <2>1, <3>1 DEF Locked
    <3>3. \A w \in Writers : pc'[w] \in Locked => pc'[w] = pc[w]
      BY <2>1, <3>1 DEF Locked
    <3>4. LockInv'
      BY <2>3, <3>2 DEF LockInv, open
    <3>5. PublishInv'
      BY <3>3 DEF PublishInv, Publishing, Locked, Pending
    <3>6. (/\ DraftInv /\ StampInv /\ KeysUnique
           /\ PrefixPublished(intents, pubs) /\ ChainIntact(intents, pubs))'
      BY <2>1, <2>3, <3>1, RowsFrame DEF open, Locked
    <3> QED
      BY <3>4, <3>5, <3>6, FilesFrame DEF FilesInv
  <2> QED
    BY <2>2, <2>3
<1>3. AcksPublished' /\ SnapshotStable'
  BY DEF AcksPublished, SnapshotStable
<1> QED
  BY <1>1, <1>2, <1>3

(* Readers: a snapshot is the published prefix, a page continues it.       *)
LEMMA TakeSnapshotInv ==
  ASSUME IInv, NEW r \in Readers, TakeSnapshot(r)
  PROVE  IInv'
<1> USE DEF TakeSnapshot, IInv
<1>1. Len(pubs) \in Nat /\ Head_(intents, Len(pubs)) \in Hash
  <2>1. CASE Len(pubs) = 0
    BY <2>1 DEF Head_, Hash
  <2>2. CASE Len(pubs) # 0
    <3>1. Len(pubs) = Len(intents) /\ intents[Len(pubs)] \in Record
      BY <2>2 DEF TypeOK, Ready
    <3>2. HashOf(intents[Len(pubs)]) \in Hash
      BY <3>1 DEF HashOf, Record, Hash
    <3> QED
      BY <2>2, <3>2 DEF Head_, TypeOK
  <2> QED
    BY <2>1, <2>2 DEF TypeOK
<1>2. TypeOK'
  BY <1>1 DEF TypeOK, catalogue, open, files
<1>3. CoreInv'
  BY CoreFrame
<1>4. AcksPublished'
  BY DEF AcksPublished, catalogue
<1>5. SnapshotStable'
  BY <1>1 DEF SnapshotStable, catalogue, TypeOK
<1> QED
  BY <1>2, <1>3, <1>4, <1>5

LEMMA ReadPageInv ==
  ASSUME IInv, NEW r \in Readers, ReadPage(r)
  PROVE  IInv'
<1> USE DEF ReadPage, IInv
<1> DEFINE a == Len(page[r])
<1>1. a \in Nat /\ snap[r].highWater \in Nat /\ Len(intents) \in Nat
      /\ Len(pubs) = Len(intents) /\ snap[r].highWater <= Len(pubs)
  BY DEF TypeOK, Ready
<1>2. PICK n \in 1..PageLimit :
        /\ a + n <= snap[r].highWater
        /\ page' = [page EXCEPT ![r] = @ \o SubSeq(intents, a + 1, a + n)]
  OBVIOUS
<1>3. n \in Nat \ {0} /\ a + n <= Len(intents)
  BY <1>1, <1>2, ConstantsAssumption
<1> DEFINE more == SubSeq(intents, a + 1, a + n)
<1>4. more \in Seq(Record) /\ Len(more) = n /\ \A k \in 1..n : more[k] = intents[a + k]
  <2>1. a + 1 \in Int /\ a + n \in Int /\ a + 1 <= a + n
        /\ \A k \in (a + 1)..(a + n) : intents[k] \in Record
    BY <1>1, <1>3, SMTT(60) DEF TypeOK
  <2>2. /\ more \in Seq(Record)
        /\ Len(more) = (a + n) - (a + 1) + 1
        /\ \A k \in 1..((a + n) - (a + 1) + 1) : more[k] = intents[(a + 1) + k - 1]
    BY <2>1, SubSeqProperties
  <2> QED
    BY <1>1, <1>3, <2>2, SMTT(60)
<1> HIDE DEF more
<1>5. /\ page'[r] = page[r] \o more
      /\ page'[r] \in Seq(Record)
      /\ Len(page'[r]) = a + n
      /\ \A k \in 1..a : page'[r][k] = page[r][k]
      /\ \A k \in (a + 1)..(a + n) : page'[r][k] = more[k - a]
  <2>1. page[r] \in Seq(Record)
    BY DEF TypeOK
  <2>2. page'[r] = page[r] \o more
    BY <1>2 DEF TypeOK, more
  <2>3. /\ page[r] \o more \in Seq(Record)
        /\ Len(page[r] \o more) = Len(page[r]) + Len(more)
        /\ \A k \in 1..(Len(page[r]) + Len(more)) : (page[r] \o more)[k] =
              IF k <= Len(page[r]) THEN page[r][k] ELSE more[k - Len(page[r])]
    BY <1>4, <2>1, ConcatProperties
  <2>4. \A k \in 1..(a + n) : page'[r][k] = IF k <= a THEN page[r][k] ELSE more[k - a]
    BY <1>4, <2>2, <2>3
  <2>5. a \in Nat /\ n \in Nat
    BY <1>1, <1>3
  <2> HIDE DEF a
  <2>6. ASSUME NEW k \in 1..a PROVE page'[r][k] = page[r][k]
    <3>1. k \in 1..(a + n) /\ k <= a
      BY <2>5
    <3> QED
      BY <2>4, <3>1
  <2>7. ASSUME NEW k \in (a + 1)..(a + n) PROVE page'[r][k] = more[k - a]
    <3>1. k \in 1..(a + n) /\ ~(k <= a)
      BY <2>5
    <3> QED
      BY <2>4, <3>1
  <2>8. page'[r] \in Seq(Record) /\ Len(page'[r]) = a + n
    BY <1>4, <2>2, <2>3 DEF a
  <2> QED
    BY <2>2, <2>6, <2>7, <2>8
<1>6. TypeOK'
  BY <1>2, <1>5 DEF TypeOK, catalogue, open, files
<1>7. CoreInv'
  BY CoreFrame
<1>8. AcksPublished'
  BY DEF AcksPublished, catalogue
<1>9. \A k \in 1..(a + n) : page'[r][k] = intents[k]
  BY <1>1, <1>3, <1>4, <1>5 DEF SnapshotStable
<1>10. SnapshotStable'
  BY <1>2, <1>5, <1>9, ZenonT(60) DEF SnapshotStable, catalogue, TypeOK
<1> QED
  BY <1>6, <1>7, <1>8, <1>10

LEMMA SetClockInv == ASSUME IInv, SetClock PROVE IInv'
<1> USE DEF SetClock, IInv, catalogue, readers
<1>1. TypeOK'
  BY DEF TypeOK, open, files
<1> QED
  BY <1>1, CoreFrame DEF AcksPublished, SnapshotStable

LEMMA StutterInv == ASSUME IInv, UNCHANGED vars PROVE IInv'
<1> USE DEF vars, IInv, catalogue, readers
<1>1. TypeOK'
  BY DEF TypeOK, open, files
<1> QED
  BY <1>1, CoreFrame DEF AcksPublished, SnapshotStable

-----------------------------------------------------------------------------
LEMMA StepInv == IInv /\ [Next]_vars => IInv'
BY AppendPublishedInv, AppendPendingAgainInv, InsertIntentInv, CommitIntentInv,
   FindPublishedInv, StartPublishInv, FinalAlreadyLinkedInv, WriteStageInv, LinkFinalInv,
   UnlinkStageInv, InsertPublicationInv, CommitPublicationInv, InterruptInv,
   TakeSnapshotInv, ReadPageInv, SetClockInv, StutterInv DEF Next

(* The invariant holds in every reachable state, for every set of writers, *)
(* readers and inputs: the strengthening all other theorems rest on.       *)
THEOREM Invariant == Spec => []IInv
BY InitInv, StepInv, PTL DEF Spec

(* Every variable of the store keeps its type.                             *)
THEOREM TypeCorrect == Spec => []TypeOK
BY Invariant, PTL DEF IInv

(* A store that nobody tampered with always passes its own audit, clock    *)
(* apart: no crash point of append() or recover() can wedge it.            *)
THEOREM AlwaysAuditable == Spec => []StoreAuditable
<1>1. IInv => StoreAuditable
  BY DEF IInv, CoreInv, StoreAuditable, Audit
<1> QED
  BY <1>1, Invariant, PTL

(* What append() or recover() returned is published and its file is whole. *)
THEOREM AcksDurable == Spec => []AcknowledgedDurable
<1>1. IInv => AcknowledgedDurable
  <2> SUFFICES ASSUME IInv, NEW r \in acks
               PROVE  \E k \in 1..Len(pubs) : intents[k] = r /\ Intact(records, r)
    BY DEF AcknowledgedDurable
  <2>1. PICK k \in 1..Len(pubs) : intents[k] = r
    BY DEF IInv, AcksPublished
  <2>2. k \in 1..Len(intents)
    BY DEF IInv, CoreInv, PrefixPublished, TypeOK
  <2>3. Intact(records, r)
    BY <2>1, <2>2 DEF IInv, CoreInv, FilesAgree
  <2> QED
    BY <2>1, <2>3
<1> QED
  BY <1>1, Invariant, PTL

(* No key is ever answered with two different records.                     *)
THEOREM AckedOnce == Spec => []OneRecordPerKey
<1>1. IInv => OneRecordPerKey
  <2> SUFFICES ASSUME IInv, NEW r \in acks, NEW s \in acks, r.input.key = s.input.key
               PROVE  r = s
    BY DEF OneRecordPerKey
  <2>1. PICK j, k \in 1..Len(pubs) : intents[j] = r /\ intents[k] = s
    BY DEF IInv, AcksPublished
  <2>2. j \in 1..Len(intents) /\ k \in 1..Len(intents)
    BY DEF IInv, CoreInv, PrefixPublished, TypeOK
  <2> QED
    BY <2>1, <2>2 DEF IInv, CoreInv, KeysUnique
<1> QED
  BY <1>1, Invariant, PTL

(* What a reader collected is a prefix of what its snapshot covers.        *)
THEOREM SnapshotsStable == Spec => []SnapshotStable
BY Invariant, PTL DEF IInv

-----------------------------------------------------------------------------
(* Refinement: the published prefix is the abstract log.                   *)
LEMMA LogEntries ==
  ASSUME IInv
  PROVE  /\ Len(pubs) \in Nat /\ Len(PublishedLog) = Len(pubs)
         /\ PublishedLog \in Seq(Inputs)
         /\ \A k \in 1..Len(pubs) : /\ k \in 1..Len(intents)
                                    /\ intents[k].order = k
                                    /\ intents[k].input \in Inputs
                                    /\ PublishedLog[k] = intents[k].input
<1> USE DEF IInv, CoreInv
<1>1. Len(pubs) \in Nat
  BY DEF TypeOK
<1>2. \A k \in 1..Len(pubs) : k \in 1..Len(intents) /\ intents[k].order = k /\ intents[k].input \in Inputs
  <2> SUFFICES ASSUME NEW k \in 1..Len(pubs)
               PROVE  k \in 1..Len(intents) /\ intents[k].order = k /\ intents[k].input \in Inputs
    OBVIOUS
  <2>1. k \in 1..Len(intents)
    BY <1>1 DEF TypeOK, PrefixPublished
  <2>2. intents[k] \in Record
    BY <2>1 DEF TypeOK
  <2> QED
    BY <2>1, <2>2 DEF ChainIntact, Record
<1>3. PublishedLog \in Seq(Inputs) /\ Len(PublishedLog) = Len(pubs)
  BY <1>1, <1>2 DEF PublishedLog
<1> QED
  BY <1>1, <1>2, <1>3 DEF PublishedLog

\* A step that answers with a published record is an abstract answer.
LEMMA AnswerStep ==
  ASSUME IInv, UNCHANGED catalogue,
         NEW k \in 1..Len(pubs), acks' = acks \cup {intents[k]}
  PROVE  Log!Answer(k) /\ k \in 1..Len(PublishedLog)
<1>1. Told' = Told \cup {<<k, PublishedLog[k]>>}
  BY LogEntries DEF Told
<1>2. PublishedLog' = PublishedLog
  BY DEF PublishedLog, catalogue
<1> QED
  BY <1>1, <1>2, LogEntries DEF Log!Answer

\* A step that publishes nothing and answers nobody is an abstract stutter.
LEMMA InvisibleStep ==
  ASSUME UNCHANGED <<pubs, acks>>, \A k \in 1..Len(pubs) : intents'[k] = intents[k]
  PROVE  UNCHANGED Log!vars
BY DEF Log!vars, PublishedLog, Told

LEMMA PublishStep ==
  ASSUME IInv, IInv', NEW p \in Writers, CommitPublication(p)
  PROVE  \E i \in Inputs : Log!Publish(i)
<1> USE DEF CommitPublication
<1> DEFINE n == Len(intents)
<1>1. PICK t \in 0..MaxTime : stamp = <<t>>
  BY DEF IInv, CoreInv, StampInv
<1>2. pc[p] \in Publishing
  BY DEF Publishing, Locked
<1>3. n = Len(pubs) + 1 /\ Len(pubs) \in Nat /\ n \in 1..n
  <2>1. n = Len(pubs) + 1
    BY <1>2 DEF IInv, CoreInv, PublishInv
  <2> QED
    BY <2>1 DEF IInv, TypeOK
<1>4. Len(pubs') = n
  BY <1>1, <1>3 DEF IInv, TypeOK
<1>5. Pending = intents[n] /\ intents[n].order = n /\ intents[n].input \in Inputs
  BY <1>3 DEF Pending, IInv, CoreInv, ChainIntact, TypeOK, Record
<1> DEFINE i == intents[n].input
<1>6. Log!Fresh(i)
  BY <1>3, LogEntries, SMTT(60) DEF Log!Fresh, IInv, CoreInv, KeysUnique
<1>7. PublishedLog' = Append(PublishedLog, i)
  <2>1. PublishedLog' = [k \in 1..n |-> intents[k].input]
    BY <1>4 DEF PublishedLog
  <2>2. PublishedLog = [k \in 1..Len(pubs) |-> intents[k].input] /\ PublishedLog \in Seq(Inputs)
    BY LogEntries DEF PublishedLog
  <2> QED
    BY <1>3, <1>5, <2>1, <2>2
<1>8. Told' = Told \cup {<<n, i>>}
  BY <1>5 DEF Told
<1>9. Len(PublishedLog) + 1 = n
  BY <1>3, LogEntries
<1>10. Log!Publish(i)
  BY <1>6, <1>7, <1>8, <1>9 DEF Log!Publish
<1> QED
  BY <1>5, <1>10

LEMMA StepRefines ==
  ASSUME IInv, IInv', [Next]_vars
  PROVE  [Log!Next]_(Log!vars)
<1> USE LogEntries
<1>1. CASE \E p \in Writers : CommitPublication(p)
  BY <1>1, PublishStep DEF Log!Next
<1>2. CASE \E p \in Writers : \/ FindPublished(p)
                              \/ \E i \in Inputs : AppendPublished(p, i)
  <2>1. UNCHANGED catalogue /\ \E k \in 1..Len(pubs) : acks' = acks \cup {intents[k]}
    BY <1>2 DEF FindPublished, AppendPublished, Rows
  <2> QED
    BY <2>1, AnswerStep DEF Log!Next
<1>3. CASE \E p \in Writers : CommitIntent(p)
  <2>1. PICK p \in Writers : CommitIntent(p)
    BY <1>3
  <2>2. PICK i \in Inputs, t \in 0..MaxTime : draft = <<NewRecord(intents, i, t)>>
    BY <2>1 DEF CommitIntent, IInv, CoreInv, DraftInv
  <2>3. \A k \in 1..Len(pubs) : intents'[k] = intents[k]
    <3>1. intents \in Seq(Record) /\ draft \in Seq(Record) /\ intents' = intents \o draft
      BY <2>1 DEF CommitIntent, IInv, TypeOK
    <3>2. \A k \in 1..Len(intents) : (intents \o draft)[k] = intents[k]
      BY <3>1
    <3> QED
      BY <3>1, <3>2
  <2> QED
    BY <2>1, <2>3, InvisibleStep DEF CommitIntent
<1>4. CASE UNCHANGED <<catalogue, acks>>
  BY <1>4, InvisibleStep DEF catalogue
<1> QED
  BY <1>1, <1>2, <1>3, <1>4
  DEF Next, vars, AppendPendingAgain, InsertIntent, FindPending, Recover, FinalAlreadyLinked,
      OpenStage, SyncStage, LinkFinal, UnlinkStage, InsertPublication, Interrupt,
      TakeSnapshot, ReadPage, SetClock, catalogue

(* The physical store implements the append-only evidence log.             *)
THEOREM StoreImplementsLog == Spec => ImplementsLog
<1>1. Init => Log!Init
  <2> SUFFICES ASSUME Init PROVE Log!Init
    OBVIOUS
  <2>1. PublishedLog = <<>>
    BY DEF Init, PublishedLog
  <2>2. Told = {}
    BY DEF Init, Told
  <2> QED
    BY <2>1, <2>2 DEF Log!Init
<1>2. IInv /\ IInv' /\ [Next]_vars => [Log!Next]_(Log!vars)
  BY StepRefines
<1> QED
  BY <1>1, <1>2, Invariant, PTL DEF Spec, ImplementsLog, Log!Spec

(* A pending intent is finished as it was committed, by whoever finds it.  *)
THEOREM PendingStable == Spec => PendingOnlyPublished
<1>1. ASSUME IInv, [Next]_vars
      PROVE  [Len(pubs) < Len(intents) =>
                /\ intents' = intents
                /\ pubs' \in {pubs} \cup {Append(pubs, t) : t \in 0..MaxTime}]_vars
  <2> SUFFICES ASSUME Len(pubs) < Len(intents), Next
               PROVE  /\ intents' = intents
                      /\ pubs' \in {pubs} \cup {Append(pubs, t) : t \in 0..MaxTime}
    BY <1>1
  <2>1. ASSUME NEW p \in Writers PROVE pc[p] # "intent_before_commit"
    BY <1>1, <2>1 DEF IInv, CoreInv, DraftInv, Ready, TypeOK
  <2>2. ASSUME NEW p \in Writers, CommitPublication(p)
        PROVE  /\ intents' = intents
               /\ pubs' \in {Append(pubs, t) : t \in 0..MaxTime}
    <3>1. PICK t \in 0..MaxTime : stamp = <<t>>
      BY <1>1, <2>2 DEF CommitPublication, IInv, CoreInv, StampInv
    <3>2. pubs \o <<t>> = Append(pubs, t)
      BY <1>1 DEF IInv, TypeOK
    <3> QED
      BY <2>2, <3>1, <3>2 DEF CommitPublication
  <2>3. CASE UNCHANGED catalogue
    BY <2>3 DEF catalogue
  <2> QED
    BY <2>1, <2>2, <2>3, ZenonT(60)
    DEF Next, vars, AppendPublished, AppendPendingAgain, InsertIntent, CommitIntent, FindPublished,
        FindPending, Recover, FinalAlreadyLinked, OpenStage, SyncStage, LinkFinal, UnlinkStage,
        InsertPublication, Interrupt, TakeSnapshot, ReadPage, SetClock
<1> QED
  BY <1>1, Invariant, PTL DEF Spec, PendingOnlyPublished
=============================================================================
