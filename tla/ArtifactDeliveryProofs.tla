------------------------- MODULE ArtifactDeliveryProofs -------------------------
(* Proofs about what the run of MCDelivery puts side by side:                 *)
(* ArtifactDelivery, for any managers, workers, stores, leases, retries and   *)
(* faults; RuntimeMigration, for any calls, backup paths, writes and clock    *)
(* readings.                                                                  *)
EXTENDS ArtifactDelivery, RuntimeMigration, FunctionTheorems, SequenceTheorems, WellFoundedInduction, TLAPS

Hashes == Nat \X Nat \X Nat
States == {StateOf[v] : v \in DOMAIN StateOf}
Transitions == [signal : Signals, from : States \cup {None}, to : States]
Occurrences == [decision : Candidates, createdAt : Nat, historyId : Nat, valid : BOOLEAN]
Deliveries == [status : {"PENDING", "LEASED", "DELIVERED", "QUARANTINED"}, owner : Ids \cup {None}, expires : Nat,
               retries : Nat, dueAt : Int, result : Hashes \cup {None}, at : Nat]
Findings == [order : Nat \cup {None}, at : Nat]
Leases == [order : Nat, expires : Nat, retries : Nat]
Records == [order : Nat, artifact : Nat, storedAt : Nat, prev : Hashes]
Appends == [by : Workers, record : Records, created : BOOLEAN]

\* What a worker does under its lease.
Storing == {"insert", "lookup", "unlink", "audit", "deliver"}
Working == {"append", "failed", "refused", "quarantine"} \cup Storing

OutboxTypeOK ==
  /\ signals \in [Signals -> DOMAIN StateOf \cup {None}]
  /\ history \in Seq(Transitions)
  /\ outbox \in Seq(Occurrences)
  /\ delivery \in Seq(Deliveries)
  /\ cursor \in [Ids -> Nat]
  /\ binding \in [store : Stores, at : Nat] \cup {None}
  /\ quarantine \in Seq(Findings)
StoreTypeOK ==
  /\ catalog \in [Stores -> Seq(Records)]
  /\ files \in [Stores -> SUBSET Records]
  /\ tx \in [Stores -> Seq(Appends)] /\ \A s \in Stores : Len(tx[s]) <= 1
LaneTypeOK ==
  /\ pc \in [Workers -> {"idle", "halted"} \cup Working]
  /\ lease \in [Workers -> Leases \cup {None}]
  /\ record \in [Workers -> Records \cup {None}]
  /\ seen \in [Managers \cup Workers -> Nat]
  /\ clock \in Nat /\ faults \in Nat /\ outgrown \in Nat

\* The audit of the outbox, but for the payloads, holds whatever release is deployed.
\* What it rests on: a row that was ever claimed shows that the lane is bound.
BoundOnce ==
  \A k \in DOMAIN delivery : delivery[k].status \in {"LEASED", "DELIVERED"} => binding # None
HistoryLinked == \A k \in DOMAIN outbox : outbox[k].historyId \in DOMAIN history
OutboxInv ==
  /\ OutboxTypeOK
  /\ StructureAudit /\ QuarantineLinked /\ HistoryAgrees
  /\ BoundOnce /\ HistoryLinked
  /\ outgrown = 0 => \A k \in DOMAIN outbox : outbox[k].valid

\* A worker works under a lease of a row there is, in the store the lane is bound to.
LeaseInv ==
  \A w \in Workers : pc[w] \in Working =>
    /\ lease[w] \in Leases /\ lease[w].order \in DOMAIN outbox
    /\ binding # None /\ binding.store = StoreOf[w]
    /\ pc[w] \in Storing => record[w] \in Records /\ record[w].artifact = lease[w].order

\* A record is no older than the one it follows, and no newer than now.
Dated(r) == r.prev[3] <= r.storedAt /\ r.storedAt <= clock
\* The record of an open append is the next one; only its worker has it.
AppendInv(s) ==
  tx[s] # <<>> =>
    LET a == tx[s][1]
    IN /\ pc[a.by] = "insert" /\ StoreOf[a.by] = s /\ record[a.by] = a.record
       /\ a.record.order = Len(catalog[s]) + 1 /\ a.record.prev = Last(s)
       /\ RowOf(s, a.record.artifact) = {} /\ Dated(a.record)
StoreInv(s) ==
  /\ ChainIntact(s)
  /\ \A i, j \in DOMAIN catalog[s] : catalog[s][i].artifact = catalog[s][j].artifact => i = j
  /\ \A r \in Rows(s) \cup files[s] : Dated(r)
  /\ AppendInv(s)
  /\ catalog[s] # <<>> \/ files[s] # {} => binding # None /\ binding.store = s
RecordInv(w) ==
  /\ pc[w] = "insert" => tx[StoreOf[w]] # <<>> /\ tx[StoreOf[w]][1].by = w
  /\ pc[w] \in {"audit", "deliver"} => record[w] \in Rows(StoreOf[w])
DeliveredIsRecorded ==
  \A k \in DOMAIN delivery :
    delivery[k].status = "DELIVERED" => \E r \in RowOf(binding.store, k) : HashOf(r) = delivery[k].result
StoresInv == /\ StoreTypeOK /\ \A s \in Stores : StoreInv(s)
LaneInv ==
  /\ OutboxInv /\ StoresInv /\ LaneTypeOK /\ LeaseInv
  /\ \A w \in Workers : RecordInv(w)
  /\ DeliveredIsRecorded

\* No rollback handler of append() runs next to another worker of its store.
Undisturbed ==
  \/ MaxFaults = 0
  \/ \A v, w \in Workers : StoreOf[v] = StoreOf[w] => v = w
HandlerInv ==
  \A w \in Workers : pc[w] \in {"lookup", "unlink"} =>
    /\ \A v \in Workers : StoreOf[v] = StoreOf[w] => v = w
    /\ pc[w] = "unlink" => record[w] \notin Rows(StoreOf[w])
FilesInv ==
  \A s \in Stores : FilesComplete(s) /\ (tx[s] # <<>> => tx[s][1].record \in files[s])

-----------------------------------------------------------------------------
(* Numbers and sequences.                                                   *)

LEMMA LeastNumber ==
  ASSUME NEW S \in SUBSET Nat, S # {}
  PROVE  \E least \in S : \A n \in S : least <= n
<1> DEFINE R == OpToRel(<, Nat)
<1>1. IsWellFoundedOn(R, Nat)
  BY NatLessThanWellFounded
<1>2. PICK least \in S : \A n \in S : <<n, least>> \notin R
  <2> HIDE DEF R
  <2> QED
    BY <1>1, WFMin
<1>3. \A n \in S : ~(n < least)
  BY <1>2 DEF OpToRel
<1> QED
  BY <1>3

LEMMA GreatestNumber ==
  ASSUME NEW n \in Nat, NEW S \in SUBSET (1..n), S # {}
  PROVE  \E greatest \in S : \A i \in S : i <= greatest
<1> DEFINE Bounds == {b \in Nat : \A i \in S : i <= b}
<1>1. n \in Bounds
  OBVIOUS
<1>2. PICK b \in Bounds : \A c \in Bounds : b <= c
  BY <1>1, LeastNumber
<1>3. b \in S
  <2> SUFFICES ASSUME b \notin S PROVE FALSE
    OBVIOUS
  <2>1. b \in Nat /\ \A i \in S : i \in Nat /\ i >= 1 /\ i <= b /\ i # b
    BY <1>2
  <2>2. b - 1 \in Nat /\ \A i \in S : i <= b - 1
    <3>1. PICK e \in S : TRUE
      OBVIOUS
    <3>2. b - 1 \in Nat
      BY <2>1, <3>1
    <3>3. ASSUME NEW i \in S PROVE i <= b - 1
      BY <2>1
    <3> QED
      BY <3>2, <3>3
  <2>3. b - 1 \in Bounds
    BY <2>2
  <2> QED
    BY <1>2, <2>1, <2>3
<1> QED
  BY <1>2, <1>3

LEMMA FirstIsLeast ==
  ASSUME NEW S \in SUBSET Nat, S # {}
  PROVE  First(S) \in S
  BY LeastNumber DEF First

\* Where a cursor goes: over finished rows only.
LEMMA AdvanceFinds ==
  ASSUME NEW T, NEW rows \in Seq(T), NEW from \in Nat, from <= Len(rows)
  PROVE  /\ Advance(rows, from) \in from..Len(rows)
         /\ \A k \in (from + 1)..Advance(rows, from) : Terminal(rows[k])
<1> DEFINE Open == {k \in (from + 1)..Len(rows) : ~Terminal(rows[k])}
           Fits(n) == /\ \A k \in from + 1..n : Terminal(rows[k])
                      /\ n < Len(rows) => ~Terminal(rows[n + 1])
<1>1. Len(rows) \in Nat
  BY LenProperties
<1>2. \E n \in from..Len(rows) : Fits(n)
  <2>1. CASE Open = {}
    <3>1. Fits(Len(rows)) /\ Len(rows) \in from..Len(rows)
      BY <1>1, <2>1
    <3> QED
      BY <3>1
  <2>2. CASE Open # {}
    <3>1. Open \in SUBSET Nat
      BY <1>1
    <3>2. PICK k \in Open : \A j \in Open : k <= j
      BY <2>2, <3>1, LeastNumber
    <3>3. PICK n \in Nat : n + 1 = k /\ n \in from..Len(rows)
      BY <1>1, <3>2
    <3>4. Fits(n)
      <4>1. ASSUME NEW i \in (from + 1)..n PROVE Terminal(rows[i])
        BY <1>1, <3>2, <3>3
      <4> QED
        BY <3>2, <3>3, <4>1
    <3> QED
      BY <3>3, <3>4
  <2> QED
    BY <2>1, <2>2
<1>3. Advance(rows, from) \in from..Len(rows) /\ Fits(Advance(rows, from))
  <2> HIDE DEF Open
  <2> QED
    BY <1>2 DEF Advance
<1> QED
  BY <1>3

-----------------------------------------------------------------------------
(* What a transaction makes of the tables.                                  *)

\* One delivery row moves on; the others stay.
Moves(old, new, k, to) ==
  /\ new \in Seq(Deliveries) /\ Len(new) = Len(old)
  /\ \A j \in DOMAIN old : j # k => new[j] = old[j]
  /\ k \in DOMAIN old /\ ~Terminal(old[k]) /\ new[k].status = to

LEMMA RowMoves ==
  ASSUME OutboxTypeOK, NEW k \in DOMAIN delivery, ~Terminal(delivery[k]), NEW d \in Deliveries,
         NEW to, d.status = to, delivery' = [delivery EXCEPT ![k] = d]
  PROVE  Moves(delivery, delivery', k, to) /\ delivery'[k] = d
<1>1. delivery \in Seq(Deliveries) /\ DOMAIN delivery = 1..Len(delivery)
  BY LenProperties DEF OutboxTypeOK
<1>2. /\ delivery' \in Seq(Deliveries) /\ Len(delivery') = Len(delivery)
      /\ \A j \in 1..Len(delivery) : delivery'[j] = IF j = k THEN d ELSE delivery[j]
  BY <1>1, ExceptSeq
<1> QED
  BY <1>1, <1>2 DEF Moves

LEMMA DeliveryType ==
  ASSUME OutboxTypeOK, NEW k \in DOMAIN delivery
  PROVE  delivery[k] \in Deliveries /\ k \in Nat
  BY ElementOfSeq, LenProperties DEF OutboxTypeOK

\* A claim leases a row that is not finished.
LEMMA ClaimEffect ==
  ASSUME OutboxTypeOK, NEW id \in Ids, NEW s \in Stores, NEW at \in Nat, NEW expires \in Nat,
         ClaimNext(id, s, at, expires)
  PROVE  /\ First(Claimable(at)) \in DOMAIN delivery
         /\ Moves(delivery, delivery', First(Claimable(at)), "LEASED")
<1>1. PICK k : k = First(Claimable(at))
  OBVIOUS
<1>2. Claimable(at) \in SUBSET Nat /\ Claimable(at) # {}
  BY DeliveryType DEF Claimable, ClaimNext
<1>3. k \in DOMAIN delivery /\ Due(k, at)
  BY <1>1, <1>2, FirstIsLeast DEF Claimable
<1>4. PICK d \in Deliveries : d = delivery[k]
  BY <1>3, DeliveryType
<1> PICK zero \in Nat, due \in Int : zero = 0 /\ due = 0
  OBVIOUS
<1> DEFINE c == [[d EXCEPT !.status = "LEASED"] EXCEPT !.owner = id]
           e == [[c EXCEPT !.expires = expires] EXCEPT !.dueAt = due]
<1>5. e \in Deliveries /\ e.status = "LEASED"
  <2>1. c \in Deliveries /\ c.status = "LEASED"
    BY DEF Deliveries
  <2> HIDE DEF c
  <2> QED
    BY <2>1 DEF Deliveries
<1>6. delivery' = [delivery EXCEPT ![k] = e]
  BY <1>1, <1>4 DEF ClaimNext, Claimed
<1>7. ~Terminal(delivery[k])
  BY <1>3 DEF Due, Terminal
<1> HIDE DEF e
<1> QED
  BY <1>1, <1>3, <1>5, <1>6, <1>7, RowMoves

\* A mark moves the row of its lease.
LEMMA HeldRow ==
  ASSUME OutboxTypeOK, NEW id, NEW l, l.order \in DOMAIN delivery, Holds(id, l)
  PROVE  delivery[l.order] \in Deliveries /\ delivery[l.order].status = "LEASED" /\ ~Terminal(delivery[l.order])
  BY DeliveryType DEF Holds, Terminal

LEMMA ReleaseType ==
  ASSUME NEW d \in Deliveries, NEW status \in {"PENDING", "DELIVERED", "QUARANTINED"}
  PROVE  Release(d, status) \in Deliveries /\ Release(d, status).status = status
<1> PICK zero \in Nat, due \in Int : zero = 0 /\ due = 0
  OBVIOUS
<1> DEFINE c == [[d EXCEPT !.status = status] EXCEPT !.owner = None]
           e == [[c EXCEPT !.expires = zero] EXCEPT !.dueAt = due]
<1>1. e \in Deliveries /\ e.status = status
  <2>1. c \in Deliveries /\ c.status = status
    BY DEF Deliveries
  <2> HIDE DEF c
  <2> QED
    BY <2>1 DEF Deliveries
<1>2. Release(d, status) = e
  BY DEF Release
<1> QED
  BY <1>1, <1>2

LEMMA RetryEffect ==
  ASSUME OutboxTypeOK, NEW id, NEW l \in Leases, l.order \in DOMAIN delivery, NEW at \in Nat, NEW dueAt \in Int,
         MarkRetry(id, l, at, dueAt)
  PROVE  Moves(delivery, delivery', l.order, "PENDING")
<1>1. PICK k : k = l.order
  OBVIOUS
<1>2. k \in DOMAIN delivery /\ delivery[k] \in Deliveries /\ ~Terminal(delivery[k])
  BY <1>1, HeldRow DEF MarkRetry, MayMark
<1>3. PICK d \in Deliveries : d = Release(delivery[k], "PENDING") /\ d.status = "PENDING"
  BY <1>2, ReleaseType
<1>4. PICK retries \in Nat : retries = l.retries + 1
  BY DEF Leases
<1> DEFINE e == [[d EXCEPT !.retries = retries] EXCEPT !.dueAt = dueAt]
<1>5. e \in Deliveries /\ e.status = "PENDING"
  BY <1>3 DEF Deliveries
<1>6. delivery' = [delivery EXCEPT ![k] = e]
  BY <1>1, <1>3, <1>4 DEF MarkRetry
<1> HIDE DEF e
<1> QED
  BY <1>1, <1>2, <1>5, <1>6, RowMoves

LEMMA QuarantineEffect ==
  ASSUME OutboxTypeOK, NEW id, NEW l, l.order \in DOMAIN delivery, NEW at \in Nat,
         MarkQuarantined(id, l, at)
  PROVE  /\ Moves(delivery, delivery', l.order, "QUARANTINED")
         /\ cursor' = [cursor EXCEPT ![id] = Advance(delivery', cursor[id])]
<1>1. PICK k : k = l.order
  OBVIOUS
<1>2. k \in DOMAIN delivery /\ delivery[k] \in Deliveries /\ ~Terminal(delivery[k])
  BY <1>1, HeldRow DEF MarkQuarantined, MayMark
<1>3. PICK d \in Deliveries : d = Release(delivery[k], "QUARANTINED") /\ d.status = "QUARANTINED"
  BY <1>2, ReleaseType
<1>4. /\ delivery' = [delivery EXCEPT ![k] = d]
      /\ cursor' = [cursor EXCEPT ![id] = Advance(delivery', cursor[id])]
  BY <1>1, <1>3 DEF MarkQuarantined
<1> QED
  BY <1>1, <1>2, <1>3, <1>4, RowMoves

LEMMA DelayType == \A n \in Nat : Delay(n) \in Int
<1>1. \A n \in Nat : RetryDelay * 2^(n - 1) \in Int
  BY DeliveryAssumption
<1> QED
  BY <1>1, DeliveryAssumption DEF Delay

-----------------------------------------------------------------------------
(* The transactions of the outbox.                                          *)

Persists ==
  \E c \in Candidates, at \in Nat : PersistWithEvidence(c, at) \/ PersistQuarantined(c, at) \/ PersistPlain(c)
Claims ==
  \E w \in Workers, at \in Nat :
    ClaimNothing(StoreOf[w], at) \/ \E expires \in Nat : ClaimNext(IdOf[w], StoreOf[w], at, expires)
Delivers ==
  \E w \in Workers, at \in Nat : pc[w] = "deliver" /\ MarkDelivered(IdOf[w], lease[w], HashOf(record[w]), at)
Retries ==
  \E w \in Workers, at \in Nat, dueAt \in Int : pc[w] = "failed" /\ MarkRetry(IdOf[w], lease[w], at, dueAt)
Quarantines ==
  \E w \in Workers, at \in Nat : pc[w] = "quarantine" /\ MarkQuarantined(IdOf[w], lease[w], at)
Blocks ==
  /\ UNCHANGED <<signals, history, outbox, delivery, cursor, binding, quarantine>>
  /\ block # None => block' = block
Outgrows == (\E k \in DOMAIN outbox : ContractOutgrows(k)) /\ outgrown' = outgrown + 1

OutboxStep ==
  \/ UNCHANGED <<outboxVars, outgrown>>
  \/ Outgrows
  \/ /\ UNCHANGED outgrown
     /\ Persists \/ Claims \/ Delivers \/ Retries \/ Quarantines \/ Blocks

LEMMA ReadingType ==
  ASSUME LaneTypeOK, NEW p \in Managers \cup Workers, NEW at \in Readings(p)
  PROVE  at \in Nat
  BY DEF LaneTypeOK, Readings

LEMMA StepKinds ==
  ASSUME LaneTypeOK, LeaseInv, [Next]_vars
  PROVE  OutboxStep
<1> USE DEF OutboxStep
<1>1. CASE UNCHANGED vars
  BY <1>1 DEF vars, budget
<1>2. ASSUME NEW m \in Managers, Persist(m) PROVE OutboxStep
  <2>1. PICK c \in Candidates, at \in Readings(m) :
          PersistWithEvidence(c, at) \/ PersistQuarantined(c, at) \/ PersistPlain(c)
    BY <1>2 DEF Persist
  <2>2. UNCHANGED outgrown
    BY <1>2 DEF Persist, budget
  <2> QED
    BY <2>1, <2>2, ReadingType DEF Persists
<1>3. ASSUME NEW w \in Workers, Claim(w) PROVE OutboxStep
  <2>1. PICK at \in Readings(w) :
          \/ ClaimNext(IdOf[w], StoreOf[w], at, at + LeaseTime)
          \/ ClaimNothing(StoreOf[w], at)
          \/ ClaimFromOtherStore(IdOf[w], StoreOf[w], at)
          \/ UNCHANGED outboxVars
    BY <1>3 DEF Claim
  <2>2. UNCHANGED outgrown
    BY <1>3 DEF Claim, budget
  <2>3. at \in Nat /\ at + LeaseTime \in Nat
    BY ReadingType, DeliveryAssumption
  <2>4. CASE ClaimNext(IdOf[w], StoreOf[w], at, at + LeaseTime)
    BY <2>2, <2>3, <2>4 DEF Claims
  <2>5. CASE ClaimNothing(StoreOf[w], at)
    BY <2>2, <2>3, <2>5 DEF Claims
  <2>6. CASE ClaimFromOtherStore(IdOf[w], StoreOf[w], at)
    BY <2>2, <2>6 DEF Blocks, ClaimFromOtherStore
  <2> QED
    BY <2>1, <2>2, <2>4, <2>5, <2>6
<1>4. ASSUME NEW w \in Workers,
             \/ AppendOpens(w) \/ AppendCommits(w) \/ LookUpRow(w) \/ UnlinkFile(w)
             \/ Audit(w) \/ AppendBreaks(w) \/ Crash(w)
      PROVE  OutboxStep
  BY <1>4 DEF AppendOpens, AppendCommits, LookUpRow, UnlinkFile, Audit, AppendBreaks, Crash, budget
<1>5. ASSUME NEW w \in Workers, Deliver(w) PROVE OutboxStep
  <2>1. PICK at \in Readings(w) :
          MarkDelivered(IdOf[w], lease[w], HashOf(record[w]), at) \/ UNCHANGED outboxVars
    BY <1>5 DEF Deliver
  <2>2. UNCHANGED outgrown /\ pc[w] = "deliver"
    BY <1>5 DEF Deliver, budget
  <2> QED
    BY <2>1, <2>2, ReadingType DEF Delivers
<1>6. ASSUME NEW w \in Workers, NEW code, NEW at, MarkBlocked(IdOf[w], lease[w], code, at) PROVE Blocks
  BY <1>6 DEF MarkBlocked, Blocks
<1>7. ASSUME NEW w \in Workers, BlockRefused(w) \/ BlockStore(w) PROVE OutboxStep
  <2>1. UNCHANGED outboxVars \/ \E code, at : MarkBlocked(IdOf[w], lease[w], code, at)
    BY <1>7 DEF BlockRefused, BlockStore
  <2>2. UNCHANGED outgrown
    BY <1>7 DEF BlockRefused, BlockStore, budget
  <2> QED
    BY <1>6, <2>1, <2>2
<1>8. ASSUME NEW w \in Workers, Retry(w) PROVE OutboxStep
  <2>1. PICK at \in Readings(w) :
          MarkRetry(IdOf[w], lease[w], at, at + Delay(lease[w].retries + 1)) \/ UNCHANGED outboxVars
    BY <1>8 DEF Retry
  <2>2. UNCHANGED outgrown /\ pc[w] = "failed"
    BY <1>8 DEF Retry, budget
  <2>3. lease[w].retries + 1 \in Nat
    BY <2>2 DEF LeaseInv, Leases, Working
  <2>4. Delay(lease[w].retries + 1) \in Int /\ at \in Nat
    BY <2>3, DelayType, ReadingType
  <2>5. at + Delay(lease[w].retries + 1) \in Int
    BY <2>4
  <2> QED
    BY <2>1, <2>2, <2>4, <2>5 DEF Retries
<1>9. ASSUME NEW w \in Workers, Quarantine(w) PROVE OutboxStep
  <2>1. PICK at \in Readings(w) : MarkQuarantined(IdOf[w], lease[w], at) \/ UNCHANGED outboxVars
    BY <1>9 DEF Quarantine
  <2>2. UNCHANGED outgrown /\ pc[w] = "quarantine"
    BY <1>9 DEF Quarantine, budget
  <2> QED
    BY <2>1, <2>2, ReadingType DEF Quarantines
<1>10. CASE Tick
  BY <1>10 DEF Tick, budget
<1>11. CASE Outgrow
  BY <1>11 DEF Outgrow, Outgrows
<1> QED
  BY <1>1, <1>2, <1>3, <1>4, <1>5, <1>7, <1>8, <1>9, <1>10, <1>11 DEF Next, WorkerStep

-----------------------------------------------------------------------------
(* The audit of the outbox.                                                 *)

LEMMA OutboxDomains ==
  ASSUME OutboxInv
  PROVE  /\ OutboxTypeOK
         /\ Len(outbox) \in Nat /\ DOMAIN outbox = 1..Len(outbox)
         /\ Len(delivery) = Len(outbox) /\ DOMAIN delivery = DOMAIN outbox
         /\ Len(history) \in Nat /\ DOMAIN history = 1..Len(history)
         /\ \A k \in DOMAIN outbox : outbox[k] \in Occurrences
         /\ \A i \in Ids : cursor[i] \in Nat /\ cursor[i] <= Len(outbox)
<1>1. OutboxTypeOK /\ StructureAudit
  BY DEF OutboxInv
<1>2. outbox \in Seq(Occurrences) /\ delivery \in Seq(Deliveries) /\ history \in Seq(Transitions)
  BY <1>1 DEF OutboxTypeOK
<1>3. /\ Len(outbox) \in Nat /\ DOMAIN outbox = 1..Len(outbox)
      /\ DOMAIN delivery = 1..Len(delivery)
      /\ Len(history) \in Nat /\ DOMAIN history = 1..Len(history)
  BY <1>2, LenProperties
<1>4. \A k \in DOMAIN outbox : outbox[k] \in Occurrences
  BY <1>2, <1>3, ElementOfSeq
<1> QED
  BY <1>1, <1>3, <1>4 DEF OutboxTypeOK, StructureAudit, CursorsContiguous

\* A clock that is not before the state is not before any occurrence.
LEMMA NotBeforeCreated ==
  ASSUME NEW at, ClockNotBefore(at), NEW k \in DOMAIN outbox
  PROVE  outbox[k].createdAt <= at
  BY DEF ClockNotBefore, EvidenceTimes

\* The types survive an append, the last item is the new one.
LEMMA Appended ==
  ASSUME NEW T, NEW s \in Seq(T), NEW e \in T, NEW t, t = Append(s, e)
  PROVE  /\ t \in Seq(T) /\ Len(t) = Len(s) + 1
         /\ \A k \in 1..Len(s) : t[k] = s[k]
         /\ t[Len(s) + 1] = e
  BY AppendProperties

LEMMA CandidateType ==
  ASSUME NEW c \in Candidates
  PROVE  /\ c.signal \in Signals /\ c.target \in DOMAIN StateOf /\ c.target # None
         /\ HistoryRow(c) \in Transitions
         /\ HistoryRow(c).signal = c.signal /\ HistoryRow(c).to = StateOf[c.target]
<1>1. c.signal \in Signals /\ c.target \in DOMAIN StateOf /\ c.prev \in DOMAIN StateOf \cup {None}
  BY CandidatesAssumption
<1>2. StateOf[c.target] \in States /\ (c.prev # None => StateOf[c.prev] \in States)
  BY <1>1 DEF States
<1> QED
  BY <1>1, <1>2, NoneAssumption DEF HistoryRow, Transitions

\* The signal and its history.
LEMMA PersistedType ==
  ASSUME OutboxTypeOK, NEW c \in Candidates,
         signals' = [signals EXCEPT ![c.signal] = c.target],
         history' = history \/ history' = Append(history, HistoryRow(c))
  PROVE  /\ signals' \in [Signals -> DOMAIN StateOf \cup {None}]
         /\ history' \in Seq(Transitions)
         /\ \A k \in DOMAIN history : k \in DOMAIN history' /\ history'[k] = history[k]
<1>1. history \in Seq(Transitions) /\ DOMAIN history = 1..Len(history) /\ Len(history) \in Nat
  BY LenProperties DEF OutboxTypeOK
<1>2. signals' \in [Signals -> DOMAIN StateOf \cup {None}]
  BY CandidateType DEF OutboxTypeOK
<1>3. CASE history' = Append(history, HistoryRow(c))
  <2>1. /\ history' \in Seq(Transitions) /\ Len(history') = Len(history) + 1
        /\ \A k \in 1..Len(history) : history'[k] = history[k]
    BY <1>1, <1>3, CandidateType, Appended
  <2> QED
    BY <1>1, <1>2, <2>1, LenProperties
<1> QED
  BY <1>1, <1>2, <1>3

\* Whatever happens to the history only, its rows stay, and so does what links to them.
LEMMA HistoryGrows ==
  ASSUME OutboxInv, UNCHANGED <<outbox, delivery, cursor, binding, outgrown>>,
         signals' \in [Signals -> DOMAIN StateOf \cup {None}],
         history' \in Seq(Transitions),
         \A k \in DOMAIN history : k \in DOMAIN history' /\ history'[k] = history[k],
         quarantine' \in Seq(Findings), \A j \in DOMAIN quarantine' : quarantine'[j].order \in DOMAIN outbox \cup {None}
  PROVE  OutboxInv'
<1>1. OutboxTypeOK'
  BY DEF OutboxInv, OutboxTypeOK
<1>2. StructureAudit' /\ BoundOnce' /\ (outgrown' = 0 => \A k \in DOMAIN outbox' : outbox'[k].valid)
  BY DEF OutboxInv, StructureAudit, CreatedInOrder, DeliveredAfterCreated, CursorsContiguous, BoundOnce
<1>3. HistoryAgrees' /\ HistoryLinked'
  BY DEF OutboxInv, HistoryAgrees, HistoryLinked
<1>4. QuarantineLinked'
  BY DEF QuarantineLinked
<1> QED
  BY <1>1, <1>2, <1>3, <1>4 DEF OutboxInv

LEMMA OccurrenceInv ==
  ASSUME OutboxInv, NEW c \in Candidates, NEW at \in Nat, PersistWithEvidence(c, at), UNCHANGED outgrown
  PROVE  OutboxInv'
<1> DEFINE o == [decision |-> c, createdAt |-> at, historyId |-> Len(history) + 1, valid |-> TRUE]
<1>1. /\ OutboxTypeOK
      /\ Len(outbox) \in Nat /\ DOMAIN outbox = 1..Len(outbox)
      /\ Len(delivery) = Len(outbox) /\ DOMAIN delivery = DOMAIN outbox
      /\ Len(history) \in Nat /\ DOMAIN history = 1..Len(history)
      /\ \A k \in DOMAIN outbox : outbox[k] \in Occurrences
      /\ \A i \in Ids : cursor[i] \in Nat /\ cursor[i] <= Len(outbox)
  BY OutboxDomains
<1>2. o \in Occurrences /\ o.createdAt = at /\ o.historyId = Len(history) + 1 /\ o.valid /\ o.decision = c
  BY <1>1 DEF Occurrences
<1>3. outbox' = Append(outbox, o)
  BY DEF PersistWithEvidence
<1> HIDE DEF o
<1>4. /\ outbox' \in Seq(Occurrences) /\ Len(outbox') = Len(outbox) + 1
      /\ \A k \in 1..Len(outbox) : outbox'[k] = outbox[k]
      /\ outbox'[Len(outbox) + 1] = o
  BY <1>1, <1>2, <1>3, Appended DEF OutboxTypeOK
<1>5. PICK d \in Deliveries : d = Fresh /\ d.status = "PENDING"
  <2>1. Fresh \in Deliveries /\ Fresh.status = "PENDING"
    BY DEF Fresh, Deliveries
  <2> QED
    BY <2>1
<1>6. /\ delivery' \in Seq(Deliveries) /\ Len(delivery') = Len(delivery) + 1
      /\ \A k \in 1..Len(delivery) : delivery'[k] = delivery[k]
      /\ delivery'[Len(delivery) + 1] = d
  BY <1>1, <1>5, Appended DEF OutboxTypeOK, PersistWithEvidence
<1>7. /\ history' \in Seq(Transitions) /\ Len(history') = Len(history) + 1
      /\ \A k \in 1..Len(history) : history'[k] = history[k]
      /\ history'[Len(history) + 1] = HistoryRow(c)
  BY <1>1, CandidateType, Appended DEF OutboxTypeOK, PersistWithEvidence
<1>8. DOMAIN outbox' = 1..Len(outbox') /\ DOMAIN delivery' = 1..Len(outbox') /\ DOMAIN history' = 1..Len(history')
  BY <1>1, <1>4, <1>6, <1>7, LenProperties
<1>9. UNCHANGED <<cursor, binding, quarantine, block>> /\ ClockNotBefore(at)
  BY DEF PersistWithEvidence
<1>10. OutboxTypeOK'
  <2>1. signals' \in [Signals -> DOMAIN StateOf \cup {None}]
    BY <1>1, PersistedType DEF PersistWithEvidence
  <2> QED
    BY <1>1, <1>4, <1>6, <1>7, <1>9, <2>1, SMTT(60) DEF OutboxTypeOK
<1>11. CreatedInOrder'
  <2> SUFFICES ASSUME NEW k \in 2..Len(outbox') PROVE outbox'[k - 1].createdAt <= outbox'[k].createdAt
    BY DEF CreatedInOrder
  <2>1. CASE k <= Len(outbox)
    <3>1. k \in 1..Len(outbox) /\ k - 1 \in 1..Len(outbox) /\ k \in 2..Len(outbox)
      BY <1>1, <2>1
    <3> QED
      BY <1>4, <3>1 DEF OutboxInv, StructureAudit, CreatedInOrder
  <2>2. CASE ~(k <= Len(outbox))
    <3>1. k = Len(outbox) + 1 /\ k - 1 \in DOMAIN outbox
      BY <1>1, <1>4, <2>2
    <3> QED
      BY <1>1, <1>2, <1>4, <1>9, <3>1, NotBeforeCreated
  <2> QED
    BY <2>1, <2>2
<1>12. DeliveredAfterCreated' /\ BoundOnce'
  <2> SUFFICES ASSUME NEW k \in DOMAIN delivery', delivery'[k].status \in {"LEASED", "DELIVERED"}
               PROVE  /\ delivery'[k].status = "DELIVERED" => outbox'[k].createdAt <= delivery'[k].at
                      /\ binding' # None
    BY DEF DeliveredAfterCreated, BoundOnce
  <2>1. k \in DOMAIN delivery /\ delivery'[k] = delivery[k] /\ outbox'[k] = outbox[k]
    BY <1>1, <1>4, <1>5, <1>6, <1>8
  <2> QED
    BY <1>9, <2>1 DEF OutboxInv, StructureAudit, DeliveredAfterCreated, BoundOnce
<1>13. CursorsContiguous'
  <2> SUFFICES ASSUME NEW i \in Ids
               PROVE  cursor[i] <= Len(outbox') /\ \A k \in 1..cursor[i] : Terminal(delivery'[k])
    BY <1>9 DEF CursorsContiguous
  <2>1. ASSUME NEW k \in 1..cursor[i] PROVE Terminal(delivery'[k])
    <3>1. k \in 1..Len(delivery) /\ Terminal(delivery[k])
      BY <1>1 DEF OutboxInv, StructureAudit, CursorsContiguous
    <3> QED
      BY <1>6, <3>1
  <2> QED
    BY <1>1, <1>4, <2>1
<1>14. QuarantineLinked'
  BY <1>1, <1>4, <1>8, <1>9 DEF OutboxInv, QuarantineLinked
<1>15. HistoryAgrees' /\ HistoryLinked'
  <2> SUFFICES ASSUME NEW k \in DOMAIN outbox'
               PROVE  /\ outbox'[k].historyId \in DOMAIN history'
                      /\ history'[outbox'[k].historyId].signal = outbox'[k].decision.signal
                      /\ history'[outbox'[k].historyId].to = StateOf[outbox'[k].decision.target]
    BY DEF HistoryAgrees, HistoryLinked
  <2>1. CASE k \in DOMAIN outbox
    <3>1. outbox'[k] = outbox[k] /\ outbox[k].historyId \in DOMAIN history
      BY <1>1, <1>4, <2>1 DEF OutboxInv, HistoryLinked
    <3> QED
      BY <1>1, <1>7, <1>8, <2>1, <3>1 DEF OutboxInv, HistoryAgrees
  <2>2. CASE k \notin DOMAIN outbox
    <3>1. outbox'[k] = o
      BY <1>1, <1>4, <1>8, <2>2
    <3> QED
      BY <1>1, <1>2, <1>7, <1>8, <3>1, CandidateType
  <2> QED
    BY <2>1, <2>2
<1>16. outgrown' = 0 => \A k \in DOMAIN outbox' : outbox'[k].valid
  <2> SUFFICES ASSUME outgrown' = 0, NEW k \in DOMAIN outbox' PROVE outbox'[k].valid
    OBVIOUS
  <2>1. CASE k \in DOMAIN outbox
    BY <1>1, <1>4, <2>1 DEF OutboxInv
  <2>2. CASE k \notin DOMAIN outbox
    <3>1. outbox'[k] = o
      BY <1>1, <1>4, <1>8, <2>2
    <3> QED
      BY <1>2, <3>1
  <2> QED
    BY <2>1, <2>2
<1> QED
  BY <1>1, <1>4, <1>6, <1>10, <1>11, <1>12, <1>13, <1>14, <1>15, <1>16 DEF OutboxInv, StructureAudit

LEMMA PersistsInv ==
  ASSUME OutboxInv, Persists, UNCHANGED outgrown
  PROVE  OutboxInv'
<1>1. PICK c \in Candidates, at \in Nat :
        PersistWithEvidence(c, at) \/ PersistQuarantined(c, at) \/ PersistPlain(c)
  BY DEF Persists
<1>2. OutboxTypeOK /\ QuarantineLinked /\ quarantine \in Seq(Findings)
  BY DEF OutboxInv, OutboxTypeOK
<1>3. CASE PersistQuarantined(c, at)
  <2>1. PICK f \in Findings : f = [order |-> None, at |-> at] /\ f.order = None
    <3>1. [order |-> None, at |-> at] \in Findings
      BY DEF Findings
    <3> QED
      BY <3>1
  <2>2. /\ quarantine' \in Seq(Findings) /\ Len(quarantine') = Len(quarantine) + 1
        /\ \A k \in 1..Len(quarantine) : quarantine'[k] = quarantine[k]
        /\ quarantine'[Len(quarantine) + 1] = f
    BY <1>2, <1>3, <2>1, Appended DEF PersistQuarantined
  <2>3. \A j \in DOMAIN quarantine' : quarantine'[j].order \in DOMAIN outbox \cup {None}
    <3>1. DOMAIN quarantine = 1..Len(quarantine) /\ DOMAIN quarantine' = 1..(Len(quarantine) + 1) /\ Len(quarantine) \in Nat
      BY <1>2, <2>2, LenProperties
    <3> QED
      BY <1>2, <2>1, <2>2, <3>1 DEF QuarantineLinked
  <2>4. /\ signals' \in [Signals -> DOMAIN StateOf \cup {None}]
        /\ history' \in Seq(Transitions)
        /\ \A k \in DOMAIN history : k \in DOMAIN history' /\ history'[k] = history[k]
    BY <1>2, <1>3, PersistedType DEF PersistQuarantined
  <2> QED
    BY <1>3, <2>2, <2>3, <2>4, HistoryGrows DEF PersistQuarantined
<1>4. CASE PersistPlain(c)
  <2>1. /\ signals' \in [Signals -> DOMAIN StateOf \cup {None}]
        /\ history' \in Seq(Transitions)
        /\ \A k \in DOMAIN history : k \in DOMAIN history' /\ history'[k] = history[k]
    BY <1>2, <1>4, PersistedType DEF PersistPlain
  <2>2. UNCHANGED quarantine /\ \A j \in DOMAIN quarantine : quarantine[j].order \in DOMAIN outbox \cup {None}
    BY <1>2, <1>4 DEF PersistPlain, QuarantineLinked
  <2> QED
    BY <1>2, <1>4, <2>1, <2>2, HistoryGrows DEF PersistPlain
<1> QED
  BY <1>1, <1>3, <1>4, OccurrenceInv

\* A row that is leased or released moves no cursor.
LEMMA MovedInv ==
  ASSUME OutboxInv, NEW k, NEW to \in {"LEASED", "PENDING"}, Moves(delivery, delivery', k, to),
         UNCHANGED <<signals, history, outbox, cursor, quarantine, outgrown>>,
         binding' \in [store : Stores, at : Nat] \cup {None},
         to = "LEASED" => binding' # None,
         binding # None => binding' # None
  PROVE  OutboxInv'
<1>1. /\ OutboxTypeOK /\ DOMAIN outbox = 1..Len(outbox) /\ Len(delivery) = Len(outbox)
      /\ DOMAIN delivery = DOMAIN outbox
      /\ \A i \in Ids : cursor[i] \in Nat /\ cursor[i] <= Len(outbox)
  BY OutboxDomains
<1>2. /\ delivery' \in Seq(Deliveries) /\ Len(delivery') = Len(delivery) /\ DOMAIN delivery' = DOMAIN delivery
      /\ \A j \in DOMAIN delivery : j # k => delivery'[j] = delivery[j]
      /\ k \in DOMAIN delivery /\ ~Terminal(delivery[k]) /\ delivery'[k].status = to
  BY <1>1, LenProperties DEF Moves
<1>3. OutboxTypeOK'
  BY <1>1, <1>2 DEF OutboxTypeOK
<1>4. DeliveredAfterCreated' /\ BoundOnce'
  <2> SUFFICES ASSUME NEW j \in DOMAIN delivery', delivery'[j].status \in {"LEASED", "DELIVERED"}
               PROVE  /\ delivery'[j].status = "DELIVERED" => outbox[j].createdAt <= delivery'[j].at
                      /\ binding' # None
    BY DEF DeliveredAfterCreated, BoundOnce
  <2>1. CASE j = k
    BY <1>2, <2>1
  <2>2. CASE j # k
    BY <1>2, <2>2 DEF OutboxInv, StructureAudit, DeliveredAfterCreated, BoundOnce
  <2> QED
    BY <2>1, <2>2
<1>5. CursorsContiguous'
  <2> SUFFICES ASSUME NEW i \in Ids, NEW j \in 1..cursor[i] PROVE Terminal(delivery'[j])
    BY <1>1 DEF CursorsContiguous
  <2>1. j \in DOMAIN delivery /\ Terminal(delivery[j])
    BY <1>1 DEF OutboxInv, StructureAudit, CursorsContiguous
  <2> QED
    BY <1>2, <2>1
<1>6. CreatedInOrder' /\ QuarantineLinked' /\ HistoryAgrees' /\ HistoryLinked'
  BY DEF OutboxInv, StructureAudit, CreatedInOrder, QuarantineLinked, HistoryAgrees, HistoryLinked
<1>7. outgrown' = 0 => \A j \in DOMAIN outbox' : outbox'[j].valid
  BY DEF OutboxInv
<1> QED
  BY <1>1, <1>2, <1>3, <1>4, <1>5, <1>6, <1>7 DEF OutboxInv, StructureAudit

\* One that is finished moves the cursor of the worker on, over finished rows.
LEMMA FinishedInv ==
  ASSUME OutboxInv, NEW k, NEW id \in Ids, NEW to \in {"DELIVERED", "QUARANTINED"}, Moves(delivery, delivery', k, to),
         cursor' = [cursor EXCEPT ![id] = Advance(delivery', cursor[id])],
         UNCHANGED <<signals, history, outbox, binding, outgrown>>,
         quarantine' \in Seq(Findings), \A j \in DOMAIN quarantine' : quarantine'[j].order \in DOMAIN outbox \cup {None},
         to = "DELIVERED" => binding # None /\ outbox[k].createdAt <= delivery'[k].at
  PROVE  /\ OutboxInv'
         /\ \A i \in Ids : cursor[i] <= cursor'[i]
<1>1. /\ OutboxTypeOK /\ DOMAIN outbox = 1..Len(outbox) /\ Len(delivery) = Len(outbox) /\ Len(outbox) \in Nat
      /\ DOMAIN delivery = DOMAIN outbox
      /\ \A i \in Ids : cursor[i] \in Nat /\ cursor[i] <= Len(outbox)
  BY OutboxDomains
<1>2. /\ delivery' \in Seq(Deliveries) /\ Len(delivery') = Len(delivery) /\ DOMAIN delivery' = DOMAIN delivery
      /\ \A j \in DOMAIN delivery : j # k => delivery'[j] = delivery[j]
      /\ k \in DOMAIN delivery /\ ~Terminal(delivery[k]) /\ delivery'[k].status = to
  BY <1>1, LenProperties DEF Moves
<1>3. PICK rows, next :
        /\ rows = delivery' /\ next = Advance(rows, cursor[id]) /\ cursor' = [cursor EXCEPT ![id] = next]
  OBVIOUS
<1>4. /\ next \in cursor[id]..Len(rows)
      /\ \A j \in (cursor[id] + 1)..next : Terminal(rows[j])
  <2>1. rows \in Seq(Deliveries) /\ cursor[id] \in Nat /\ cursor[id] <= Len(rows)
    BY <1>1, <1>2, <1>3
  <2> QED
    BY <1>3, <2>1, AdvanceFinds
<1>5. next \in Nat /\ cursor[id] <= next /\ next <= Len(outbox) /\ cursor \in [Ids -> Nat]
  BY <1>1, <1>2, <1>3, <1>4 DEF OutboxTypeOK
<1>6. cursor' \in [Ids -> Nat] /\ \A i \in Ids : cursor'[i] = IF i = id THEN next ELSE cursor[i]
  BY <1>3, <1>5
<1>7. OutboxTypeOK'
  BY <1>1, <1>2, <1>6 DEF OutboxTypeOK
<1>8. DeliveredAfterCreated' /\ BoundOnce'
  <2> SUFFICES ASSUME NEW j \in DOMAIN delivery', delivery'[j].status \in {"LEASED", "DELIVERED"}
               PROVE  /\ delivery'[j].status = "DELIVERED" => outbox[j].createdAt <= delivery'[j].at
                      /\ binding # None
    BY DEF DeliveredAfterCreated, BoundOnce
  <2>1. CASE j = k
    BY <1>2, <2>1
  <2>2. CASE j # k
    BY <1>2, <2>2 DEF OutboxInv, StructureAudit, DeliveredAfterCreated, BoundOnce
  <2> QED
    BY <2>1, <2>2
<1>9. CursorsContiguous'
  <2> SUFFICES ASSUME NEW i \in Ids PROVE cursor'[i] <= Len(outbox) /\ \A j \in 1..cursor'[i] : Terminal(rows[j])
    BY <1>3 DEF CursorsContiguous
  <2>1. ASSUME NEW j \in 1..cursor[i] PROVE Terminal(rows[j])
    <3>1. j \in DOMAIN delivery /\ Terminal(delivery[j])
      BY <1>1 DEF OutboxInv, StructureAudit, CursorsContiguous
    <3> QED
      BY <1>2, <1>3, <3>1
  <2>2. CASE i # id
    BY <1>1, <1>6, <2>1, <2>2
  <2>3. CASE i = id
    <3>1. cursor'[i] = next /\ cursor[i] \in Nat
      BY <1>1, <1>6, <2>3
    <3>2. ASSUME NEW j \in 1..next PROVE j \in 1..cursor[i] \/ j \in (cursor[i] + 1)..next
      BY <1>5, <3>1
    <3> QED
      BY <1>4, <1>5, <2>1, <2>3, <3>1, <3>2
  <2> QED
    BY <2>2, <2>3
<1>10. CreatedInOrder' /\ QuarantineLinked' /\ HistoryAgrees' /\ HistoryLinked'
  BY DEF OutboxInv, StructureAudit, CreatedInOrder, QuarantineLinked, HistoryAgrees, HistoryLinked
<1>11. outgrown' = 0 => \A j \in DOMAIN outbox' : outbox'[j].valid
  BY DEF OutboxInv
<1>12. \A i \in Ids : cursor[i] <= cursor'[i]
  BY <1>1, <1>5, <1>6
<1> QED
  BY <1>1, <1>2, <1>7, <1>8, <1>9, <1>10, <1>11, <1>12 DEF OutboxInv, StructureAudit

LEMMA ClaimsInv ==
  ASSUME OutboxInv, Claims, UNCHANGED outgrown
  PROVE  OutboxInv'
<1>1. PICK w \in Workers, at \in Nat :
        ClaimNothing(StoreOf[w], at) \/ \E expires \in Nat : ClaimNext(IdOf[w], StoreOf[w], at, expires)
  BY DEF Claims
<1>2. OutboxTypeOK /\ IdOf[w] \in Ids /\ StoreOf[w] \in Stores
  BY DeliveryAssumption DEF OutboxInv
<1>3. PICK b \in [store : Stores, at : Nat] : b = Bind(StoreOf[w], at) /\ b # None
  <2>1. binding # None => binding \in [store : Stores, at : Nat]
    BY <1>2 DEF OutboxTypeOK
  <2>2. Bind(StoreOf[w], at) \in [store : Stores, at : Nat]
    BY <1>2, <2>1 DEF Bind
  <2> QED
    BY <2>2, DeliveryAssumption
<1>4. CASE ClaimNothing(StoreOf[w], at)
  <2>1. binding' = b
    BY <1>3, <1>4 DEF ClaimNothing
  <2> QED
    BY <1>2, <1>3, <1>4, <2>1
       DEF ClaimNothing, OutboxInv, OutboxTypeOK, StructureAudit, CreatedInOrder, DeliveredAfterCreated, CursorsContiguous,
           BoundOnce, QuarantineLinked, HistoryAgrees, HistoryLinked
<1>5. ASSUME NEW expires \in Nat, ClaimNext(IdOf[w], StoreOf[w], at, expires) PROVE OutboxInv'
  <2>1. PICK k : Moves(delivery, delivery', k, "LEASED")
    BY <1>2, <1>5, ClaimEffect
  <2>2. binding' = b
    BY <1>3, <1>5 DEF ClaimNext
  <2> QED
    BY <1>3, <1>5, <2>1, <2>2, MovedInv DEF ClaimNext
<1> QED
  BY <1>1, <1>4, <1>5

\* A worker that marks holds the lease of a row there is.
LEMMA WorkerLease ==
  ASSUME OutboxInv, LeaseInv, NEW w \in Workers, pc[w] \in Working
  PROVE  /\ IdOf[w] \in Ids /\ StoreOf[w] \in Stores
         /\ lease[w] \in Leases /\ lease[w].order \in DOMAIN outbox /\ lease[w].order \in DOMAIN delivery
         /\ binding # None /\ binding.store = StoreOf[w]
         /\ pc[w] \in Storing => record[w] \in Records /\ record[w].artifact = lease[w].order
  BY OutboxDomains, DeliveryAssumption DEF LeaseInv

LEMMA HashType ==
  ASSUME NEW r \in Records
  PROVE  HashOf(r) \in Hashes
  BY DEF HashOf, Hashes, Records

\* What a mark says of the row it delivers.
LEMMA DeliversEffect ==
  ASSUME OutboxInv, LeaseInv, NEW w \in Workers, NEW at \in Nat,
         pc[w] = "deliver", MarkDelivered(IdOf[w], lease[w], HashOf(record[w]), at)
  PROVE  /\ Moves(delivery, delivery', lease[w].order, "DELIVERED")
         /\ delivery'[lease[w].order].result = HashOf(record[w]) /\ delivery'[lease[w].order].at = at
         /\ record[w] \in Records /\ record[w].artifact = lease[w].order
         /\ block = None /\ UNCHANGED <<signals, history, outbox, binding, quarantine, block>>
         /\ OutboxTypeOK
         /\ cursor' = [cursor EXCEPT ![IdOf[w]] = Advance(delivery', cursor[IdOf[w]])]
         /\ binding # None /\ outbox[lease[w].order].createdAt <= at
<1>1. pc[w] \in Working /\ pc[w] \in Storing
  BY DEF Working, Storing
<1>2. /\ lease[w].order \in DOMAIN delivery /\ lease[w].order \in DOMAIN outbox
      /\ record[w] \in Records /\ record[w].artifact = lease[w].order /\ binding # None
  BY <1>1, WorkerLease
<1>3. HashOf(record[w]) \in Hashes /\ OutboxTypeOK
  BY <1>2, HashType DEF OutboxInv
<1>4. /\ ClockNotBefore(at) /\ block = None
      /\ UNCHANGED <<signals, history, outbox, binding, quarantine, block>>
  BY DEF MarkDelivered, MayDeliver, MayMark
<1>5. outbox[lease[w].order].createdAt <= at
  BY <1>2, <1>4, NotBeforeCreated
<1>6. PICK k, id, result : k = lease[w].order /\ id = IdOf[w] /\ result = HashOf(record[w])
  OBVIOUS
<1>7. k \in DOMAIN delivery /\ delivery[k] \in Deliveries /\ delivery[k].status = "LEASED" /\ ~Terminal(delivery[k])
  BY <1>2, <1>3, <1>6, HeldRow DEF MarkDelivered, MayDeliver, MayMark
<1>8. PICK d \in Deliveries : d = Release(delivery[k], "DELIVERED") /\ d.status = "DELIVERED"
  BY <1>7, ReleaseType
<1> DEFINE e == [[d EXCEPT !.result = result] EXCEPT !.at = at]
<1>9. e \in Deliveries /\ e.status = "DELIVERED" /\ e.result = result /\ e.at = at
  BY <1>3, <1>6, <1>8 DEF Deliveries
<1>10. /\ delivery' = [delivery EXCEPT ![k] = e]
       /\ cursor' = [cursor EXCEPT ![id] = Advance(delivery', cursor[id])]
  BY <1>6, <1>8 DEF MarkDelivered
<1> HIDE DEF e
<1>11. Moves(delivery, delivery', k, "DELIVERED") /\ delivery'[k] = e
  BY <1>3, <1>7, <1>9, <1>10, RowMoves
<1> QED
  BY <1>2, <1>3, <1>4, <1>5, <1>6, <1>9, <1>10, <1>11

LEMMA DeliversInv ==
  ASSUME OutboxInv, LeaseInv, Delivers, UNCHANGED outgrown
  PROVE  OutboxInv' /\ \A i \in Ids : cursor[i] <= cursor'[i]
<1>1. PICK w \in Workers, at \in Nat :
        pc[w] = "deliver" /\ MarkDelivered(IdOf[w], lease[w], HashOf(record[w]), at)
  BY DEF Delivers
<1>2. PICK k : k = lease[w].order
  OBVIOUS
<1>3. /\ Moves(delivery, delivery', k, "DELIVERED") /\ delivery'[k].at = at
      /\ UNCHANGED <<signals, history, outbox, binding, quarantine, block>>
      /\ cursor' = [cursor EXCEPT ![IdOf[w]] = Advance(delivery', cursor[IdOf[w]])]
      /\ binding # None /\ outbox[k].createdAt <= at
  BY <1>1, <1>2, DeliversEffect
<1>4. quarantine' \in Seq(Findings) /\ \A j \in DOMAIN quarantine' : quarantine'[j].order \in DOMAIN outbox \cup {None}
  BY <1>3 DEF OutboxInv, OutboxTypeOK, QuarantineLinked
<1>5. IdOf[w] \in Ids
  BY DeliveryAssumption
<1> QED
  BY <1>3, <1>4, <1>5, FinishedInv

LEMMA RetriesEffect ==
  ASSUME OutboxInv, LeaseInv, Retries
  PROVE  /\ \E k : Moves(delivery, delivery', k, "PENDING")
         /\ block = None /\ UNCHANGED <<signals, history, outbox, cursor, binding, quarantine, block>>
<1>1. PICK w \in Workers, at \in Nat, dueAt \in Int : pc[w] = "failed" /\ MarkRetry(IdOf[w], lease[w], at, dueAt)
  BY DEF Retries
<1>2. lease[w] \in Leases /\ lease[w].order \in DOMAIN delivery
  BY <1>1, WorkerLease DEF Working
<1>3. OutboxTypeOK
  BY DEF OutboxInv
<1>4. Moves(delivery, delivery', lease[w].order, "PENDING")
  BY <1>1, <1>2, <1>3, RetryEffect
<1> QED
  BY <1>1, <1>4 DEF MarkRetry, MayMark

LEMMA RetriesInv ==
  ASSUME OutboxInv, LeaseInv, Retries, UNCHANGED outgrown
  PROVE  OutboxInv'
<1>1. PICK k : Moves(delivery, delivery', k, "PENDING")
  BY RetriesEffect
<1>2. UNCHANGED <<signals, history, outbox, cursor, binding, quarantine>>
  BY RetriesEffect
<1>3. binding' \in [store : Stores, at : Nat] \cup {None}
  BY <1>2 DEF OutboxInv, OutboxTypeOK
<1> QED
  BY <1>1, <1>2, <1>3, MovedInv

LEMMA QuarantinesEffect ==
  ASSUME OutboxInv, LeaseInv, Quarantines
  PROVE  \E k \in DOMAIN outbox, w \in Workers, at \in Nat :
           /\ Moves(delivery, delivery', k, "QUARANTINED")
           /\ block = None /\ UNCHANGED <<signals, history, outbox, binding, block>>
           /\ cursor' = [cursor EXCEPT ![IdOf[w]] = Advance(delivery', cursor[IdOf[w]])]
           /\ quarantine' = Append(quarantine, [order |-> k, at |-> at])
<1>1. PICK w \in Workers, at \in Nat : pc[w] = "quarantine" /\ MarkQuarantined(IdOf[w], lease[w], at)
  BY DEF Quarantines
<1>2. lease[w].order \in DOMAIN delivery /\ lease[w].order \in DOMAIN outbox /\ OutboxTypeOK
  BY <1>1, WorkerLease DEF Working, OutboxInv
<1>3. PICK k \in DOMAIN outbox : k = lease[w].order
  BY <1>2
<1>4. /\ Moves(delivery, delivery', k, "QUARANTINED")
      /\ cursor' = [cursor EXCEPT ![IdOf[w]] = Advance(delivery', cursor[IdOf[w]])]
  BY <1>1, <1>2, <1>3, QuarantineEffect
<1> QED
  BY <1>1, <1>3, <1>4 DEF MarkQuarantined, MayMark

LEMMA QuarantinesInv ==
  ASSUME OutboxInv, LeaseInv, Quarantines, UNCHANGED outgrown
  PROVE  OutboxInv' /\ \A i \in Ids : cursor[i] <= cursor'[i]
<1>1. PICK k \in DOMAIN outbox, w \in Workers, at \in Nat :
        /\ Moves(delivery, delivery', k, "QUARANTINED")
        /\ UNCHANGED <<signals, history, outbox, binding, block>>
        /\ cursor' = [cursor EXCEPT ![IdOf[w]] = Advance(delivery', cursor[IdOf[w]])]
        /\ quarantine' = Append(quarantine, [order |-> k, at |-> at])
  BY QuarantinesEffect
<1>2. PICK f \in Findings : f = [order |-> k, at |-> at] /\ f.order = k
  <2>1. k \in Nat
    BY OutboxDomains
  <2>2. [order |-> k, at |-> at] \in Findings
    BY <2>1 DEF Findings
  <2> QED
    BY <2>2
<1>3. quarantine \in Seq(Findings) /\ QuarantineLinked
  BY DEF OutboxInv, OutboxTypeOK
<1>4. /\ quarantine' \in Seq(Findings) /\ Len(quarantine') = Len(quarantine) + 1
      /\ \A j \in 1..Len(quarantine) : quarantine'[j] = quarantine[j]
      /\ quarantine'[Len(quarantine) + 1] = f
  BY <1>1, <1>2, <1>3, Appended
<1>5. \A j \in DOMAIN quarantine' : quarantine'[j].order \in DOMAIN outbox \cup {None}
  <2>1. DOMAIN quarantine = 1..Len(quarantine) /\ DOMAIN quarantine' = 1..(Len(quarantine) + 1) /\ Len(quarantine) \in Nat
    BY <1>3, <1>4, LenProperties
  <2> QED
    BY <1>2, <1>3, <1>4, <2>1 DEF QuarantineLinked
<1>6. IdOf[w] \in Ids
  BY DeliveryAssumption
<1> QED
  BY <1>1, <1>4, <1>5, <1>6, FinishedInv

LEMMA OutgrowsEffect ==
  ASSUME OutboxInv, Outgrows
  PROVE  /\ outbox' \in Seq(Occurrences) /\ Len(outbox') = Len(outbox) /\ DOMAIN outbox' = DOMAIN outbox
         /\ \A j \in DOMAIN outbox : /\ outbox'[j].decision = outbox[j].decision
                                     /\ outbox'[j].createdAt = outbox[j].createdAt
                                     /\ outbox'[j].historyId = outbox[j].historyId
         /\ UNCHANGED <<signals, history, delivery, cursor, binding, quarantine, block>>
<1>1. PICK k \in DOMAIN outbox : ContractOutgrows(k)
  BY DEF Outgrows
<1>2. /\ OutboxTypeOK /\ outbox \in Seq(Occurrences) /\ outbox[k] \in Occurrences
      /\ DOMAIN outbox = 1..Len(outbox) /\ Len(outbox) \in Nat
  BY OutboxDomains DEF OutboxTypeOK
<1>3. PICK o \in Occurrences :
        /\ o = [outbox[k] EXCEPT !.valid = FALSE]
        /\ o.decision = outbox[k].decision /\ o.createdAt = outbox[k].createdAt /\ o.historyId = outbox[k].historyId
  <2>1. [outbox[k] EXCEPT !.valid = FALSE] \in Occurrences
    BY <1>2 DEF Occurrences
  <2> QED
    BY <1>2, <2>1 DEF Occurrences
<1>4. outbox' = [outbox EXCEPT ![k] = o] /\ UNCHANGED <<signals, history, delivery, cursor, binding, quarantine, block>>
  BY <1>1, <1>3 DEF ContractOutgrows
<1>5. /\ outbox' \in Seq(Occurrences) /\ Len(outbox') = Len(outbox)
      /\ \A j \in 1..Len(outbox) : outbox'[j] = IF j = k THEN o ELSE outbox[j]
  BY <1>2, <1>4, ExceptSeq
<1>6. DOMAIN outbox' = DOMAIN outbox
  BY <1>2, <1>5, LenProperties
<1>7. \A j \in DOMAIN outbox : /\ outbox'[j].decision = outbox[j].decision
                              /\ outbox'[j].createdAt = outbox[j].createdAt
                              /\ outbox'[j].historyId = outbox[j].historyId
  BY <1>2, <1>3, <1>5
<1> QED
  BY <1>4, <1>5, <1>6, <1>7

LEMMA OutgrowsInv ==
  ASSUME OutboxInv, LaneTypeOK, Outgrows
  PROVE  OutboxInv'
<1>1. /\ OutboxTypeOK /\ outbox \in Seq(Occurrences)
      /\ DOMAIN outbox = 1..Len(outbox) /\ Len(outbox) \in Nat
  BY OutboxDomains DEF OutboxTypeOK
<1>2. UNCHANGED <<signals, history, delivery, cursor, binding, quarantine, block>>
  BY OutgrowsEffect
<1>3. outbox' \in Seq(Occurrences) /\ Len(outbox') = Len(outbox)
  BY OutgrowsEffect
<1>4. DOMAIN outbox' = DOMAIN outbox
  BY OutgrowsEffect
<1>5. \A j \in DOMAIN outbox : /\ outbox'[j].decision = outbox[j].decision
                              /\ outbox'[j].createdAt = outbox[j].createdAt
                              /\ outbox'[j].historyId = outbox[j].historyId
  BY OutgrowsEffect
<1>6. OutboxTypeOK'
  BY <1>1, <1>2, <1>3 DEF OutboxTypeOK
<1>7. outgrown' # 0
  BY DEF LaneTypeOK, Outgrows
<1>8. StructureAudit'
  <2>1. Len(delivery') = Len(outbox') /\ DOMAIN delivery = DOMAIN outbox
    BY <1>2, <1>3, OutboxDomains
  <2>2. CreatedInOrder'
    <3> SUFFICES ASSUME NEW j \in 2..Len(outbox) PROVE outbox'[j - 1].createdAt <= outbox'[j].createdAt
      BY <1>3 DEF CreatedInOrder
    <3>1. j \in DOMAIN outbox /\ j - 1 \in DOMAIN outbox
      BY <1>1
    <3> QED
      BY <1>5, <3>1 DEF OutboxInv, StructureAudit, CreatedInOrder
  <2>3. DeliveredAfterCreated'
    BY <1>2, <1>5, <2>1 DEF OutboxInv, StructureAudit, DeliveredAfterCreated
  <2>4. CursorsContiguous'
    BY <1>2, <1>3 DEF OutboxInv, StructureAudit, CursorsContiguous
  <2> QED
    BY <2>1, <2>2, <2>3, <2>4 DEF StructureAudit
<1>9. QuarantineLinked' /\ HistoryLinked' /\ BoundOnce'
  BY <1>2, <1>4, <1>5 DEF OutboxInv, QuarantineLinked, HistoryLinked, BoundOnce
<1>10. HistoryAgrees'
  <2> SUFFICES ASSUME NEW j \in DOMAIN outbox
               PROVE  /\ history[outbox'[j].historyId].signal = outbox'[j].decision.signal
                      /\ history[outbox'[j].historyId].to = StateOf[outbox'[j].decision.target]
    BY <1>2, <1>4 DEF HistoryAgrees
  <2> QED
    BY <1>5 DEF OutboxInv, HistoryAgrees
<1> QED
  BY <1>6, <1>7, <1>8, <1>9, <1>10 DEF OutboxInv

LEMMA StillInv ==
  ASSUME OutboxInv, UNCHANGED <<signals, history, outbox, delivery, cursor, binding, quarantine, outgrown>>
  PROVE  OutboxInv'
  BY DEF OutboxInv, OutboxTypeOK, StructureAudit, CreatedInOrder, DeliveredAfterCreated, CursorsContiguous,
         BoundOnce, QuarantineLinked, HistoryAgrees, HistoryLinked

LEMMA OutboxStepInv ==
  ASSUME OutboxInv, LaneTypeOK, LeaseInv, OutboxStep
  PROVE  OutboxInv'
<1>1. CASE UNCHANGED <<outboxVars, outgrown>>
  BY <1>1, StillInv DEF outboxVars
<1>2. CASE Blocks /\ UNCHANGED outgrown
  BY <1>2, StillInv DEF Blocks
<1> QED
  BY <1>1, <1>2, PersistsInv, ClaimsInv, DeliversInv, RetriesInv, QuarantinesInv, OutgrowsInv DEF OutboxStep

-----------------------------------------------------------------------------
(* What no transaction undoes.                                              *)

LEMMA PersistsEffect ==
  ASSUME OutboxInv, Persists
  PROVE  /\ UNCHANGED <<cursor, binding, block>>
         /\ \A k \in DOMAIN delivery : k \in DOMAIN delivery' /\ delivery'[k] = delivery[k]
         /\ \A k \in DOMAIN outbox : k \in DOMAIN outbox'
         /\ \A k \in DOMAIN delivery' : k \in DOMAIN delivery \/ delivery'[k].status = "PENDING"
<1>1. PICK c \in Candidates, at \in Nat :
        PersistWithEvidence(c, at) \/ PersistQuarantined(c, at) \/ PersistPlain(c)
  BY DEF Persists
<1>2. CASE PersistWithEvidence(c, at)
  <2>1. /\ outbox \in Seq(Occurrences) /\ DOMAIN outbox = 1..Len(outbox) /\ Len(outbox) \in Nat
        /\ delivery \in Seq(Deliveries) /\ DOMAIN delivery = 1..Len(delivery) /\ Len(delivery) \in Nat
    BY OutboxDomains DEF OutboxTypeOK
  <2>2. PICK o, d : /\ outbox' = Append(outbox, o) /\ delivery' = Append(delivery, d) /\ d.status = "PENDING"
                    /\ UNCHANGED <<cursor, binding, block>>
    BY <1>2 DEF PersistWithEvidence, Fresh
  <2>3. /\ DOMAIN outbox' = 1..(Len(outbox) + 1) /\ DOMAIN delivery' = 1..(Len(delivery) + 1)
        /\ \A k \in 1..Len(delivery) : delivery'[k] = delivery[k]
        /\ delivery'[Len(delivery) + 1] = d
    BY <2>1, <2>2
  <2>4. \A k \in DOMAIN delivery' : k \in DOMAIN delivery \/ k = Len(delivery) + 1
    BY <2>1, <2>3
  <2> QED
    BY <2>1, <2>2, <2>3, <2>4
<1> QED
  BY <1>1, <1>2 DEF PersistQuarantined, PersistPlain

LEMMA ClaimsEffect ==
  ASSUME OutboxInv, Claims
  PROVE  /\ delivery' = delivery \/ \E k : Moves(delivery, delivery', k, "LEASED")
         /\ block = None /\ UNCHANGED <<outbox, cursor, block>>
         /\ binding # None => binding' = binding
<1>1. PICK w \in Workers, at \in Nat :
        ClaimNothing(StoreOf[w], at) \/ \E expires \in Nat : ClaimNext(IdOf[w], StoreOf[w], at, expires)
  BY DEF Claims
<1>2. OutboxTypeOK /\ IdOf[w] \in Ids /\ StoreOf[w] \in Stores
  BY DeliveryAssumption DEF OutboxInv
<1>3. CASE ClaimNothing(StoreOf[w], at)
  BY <1>3 DEF ClaimNothing, ClaimAllowed, Bind
<1>4. ASSUME NEW expires \in Nat, ClaimNext(IdOf[w], StoreOf[w], at, expires)
      PROVE  /\ \E k : Moves(delivery, delivery', k, "LEASED")
             /\ block = None /\ UNCHANGED <<outbox, cursor, block>>
             /\ binding # None => binding' = binding
  <2>1. \E k : Moves(delivery, delivery', k, "LEASED")
    BY <1>2, <1>4, ClaimEffect
  <2> QED
    BY <1>4, <2>1 DEF ClaimNext, ClaimAllowed, Bind
<1> QED
  BY <1>1, <1>3, <1>4

\* A row moves: the finished ones do not.
LEMMA MovesEffect ==
  ASSUME OutboxInv, NEW k, NEW to, Moves(delivery, delivery', k, to)
  PROVE  /\ \A j \in DOMAIN delivery : Terminal(delivery[j]) => delivery'[j] = delivery[j]
         /\ DOMAIN delivery' = DOMAIN delivery
         /\ \A j \in DOMAIN delivery : j = k \/ delivery'[j] = delivery[j]
         /\ delivery'[k].status = to
<1>1. delivery \in Seq(Deliveries) /\ DOMAIN delivery = 1..Len(delivery)
  BY LenProperties DEF OutboxInv, OutboxTypeOK
<1>2. delivery' \in Seq(Deliveries) /\ Len(delivery') = Len(delivery) /\ DOMAIN delivery' = 1..Len(delivery')
  BY LenProperties DEF Moves
<1> QED
  BY <1>1, <1>2 DEF Moves

LEMMA StepIsFinal ==
  ASSUME OutboxInv, LaneTypeOK, LeaseInv, OutboxStep
  PROVE  /\ \A k \in DOMAIN delivery : block # None \/ Terminal(delivery[k]) => delivery'[k] = delivery[k]
         /\ \A i \in Ids : cursor[i] <= cursor'[i]
         /\ block # None => block' = block /\ cursor' = cursor
<1>1. \A i \in Ids : cursor[i] <= cursor[i]
  BY OutboxDomains
<1>2. CASE UNCHANGED <<outboxVars, outgrown>>
  BY <1>1, <1>2 DEF outboxVars
<1>3. CASE Outgrows
  BY <1>1, <1>3 DEF Outgrows, ContractOutgrows
<1>4. CASE Persists
  BY <1>1, <1>4, PersistsEffect
<1>5. CASE Claims
  BY <1>1, <1>5, ClaimsEffect, MovesEffect
<1>6. CASE Delivers /\ UNCHANGED outgrown
  <2>1. \A i \in Ids : cursor[i] <= cursor'[i]
    BY <1>6, DeliversInv
  <2>2. block = None /\ \E k : Moves(delivery, delivery', k, "DELIVERED")
    BY <1>6, DeliversEffect DEF Delivers
  <2> QED
    BY <2>1, <2>2, MovesEffect
<1>7. CASE Retries
  <2>1. block = None /\ cursor' = cursor /\ \E k : Moves(delivery, delivery', k, "PENDING")
    BY <1>7, RetriesEffect
  <2> QED
    BY <1>1, <2>1, MovesEffect
<1>8. CASE Quarantines /\ UNCHANGED outgrown
  <2>1. \A i \in Ids : cursor[i] <= cursor'[i]
    BY <1>8, QuarantinesInv
  <2>2. block = None /\ \E k : Moves(delivery, delivery', k, "QUARANTINED")
    BY <1>8, QuarantinesEffect
  <2> QED
    BY <2>1, <2>2, MovesEffect
<1>9. CASE Blocks
  BY <1>1, <1>9 DEF Blocks
<1> QED
  BY <1>2, <1>3, <1>4, <1>5, <1>6, <1>7, <1>8, <1>9 DEF OutboxStep

\* The outbox only grows, and the lane stays bound to its store.
LEMMA StepGrows ==
  ASSUME OutboxInv, LaneTypeOK, LeaseInv, OutboxStep
  PROVE  /\ \A k \in DOMAIN outbox : k \in DOMAIN outbox'
         /\ binding # None => binding' = binding
<1>1. CASE Outgrows
  BY <1>1, OutboxDomains DEF Outgrows, ContractOutgrows
<1>2. ASSUME NEW w \in Workers, NEW at, NEW result, MarkDelivered(IdOf[w], lease[w], result, at)
      PROVE  UNCHANGED <<outbox, binding>>
  BY <1>2 DEF MarkDelivered
<1>3. Delivers => UNCHANGED <<outbox, binding>>
  BY <1>2 DEF Delivers
<1>4. Retries => UNCHANGED <<outbox, binding>>
  BY RetriesEffect
<1>5. Quarantines => UNCHANGED <<outbox, binding>>
  BY QuarantinesEffect
<1>6. Persists \/ Claims => (\A k \in DOMAIN outbox : k \in DOMAIN outbox') /\ (binding # None => binding' = binding)
  BY PersistsEffect, ClaimsEffect
<1>7. UNCHANGED <<outboxVars, outgrown>> \/ Blocks => UNCHANGED <<outbox, binding>>
  BY DEF Blocks, outboxVars
<1> QED
  BY <1>1, <1>3, <1>4, <1>5, <1>6, <1>7 DEF OutboxStep

\* A delivered row was delivered before, or a worker delivers it with the record it has.
LEMMA StepDelivers ==
  ASSUME OutboxInv, LaneTypeOK, LeaseInv, OutboxStep,
         NEW k \in DOMAIN delivery', delivery'[k].status = "DELIVERED"
  PROVE  \/ k \in DOMAIN delivery /\ delivery[k].status = "DELIVERED" /\ delivery'[k] = delivery[k]
         \/ \E w \in Workers : /\ pc[w] = "deliver" /\ record[w].artifact = k
                               /\ delivery'[k].result = HashOf(record[w])
<1>1. UNCHANGED <<outboxVars, outgrown>> \/ Outgrows \/ Blocks => delivery' = delivery
  BY DEF outboxVars, Outgrows, ContractOutgrows, Blocks
<1>2. CASE Persists
  BY <1>2, PersistsEffect
<1>3. ASSUME NEW j, NEW to \in {"LEASED", "PENDING", "QUARANTINED"}, Moves(delivery, delivery', j, to)
      PROVE  k \in DOMAIN delivery /\ delivery[k].status = "DELIVERED" /\ delivery'[k] = delivery[k]
  BY <1>3, MovesEffect
<1>4. CASE Claims
  BY <1>3, <1>4, ClaimsEffect
<1>5. CASE Retries
  BY <1>3, <1>5, RetriesEffect
<1>6. CASE Quarantines
  BY <1>3, <1>6, QuarantinesEffect
<1>7. CASE Delivers
  <2>1. PICK w \in Workers, at \in Nat :
          pc[w] = "deliver" /\ MarkDelivered(IdOf[w], lease[w], HashOf(record[w]), at)
    BY <1>7 DEF Delivers
  <2>2. /\ Moves(delivery, delivery', lease[w].order, "DELIVERED")
        /\ delivery'[lease[w].order].result = HashOf(record[w]) /\ record[w].artifact = lease[w].order
    BY <2>1, DeliversEffect
  <2>3. k \in DOMAIN delivery /\ (k = lease[w].order \/ delivery'[k] = delivery[k])
    BY <2>2, MovesEffect
  <2> QED
    BY <2>1, <2>2, <2>3
<1> QED
  BY <1>1, <1>2, <1>4, <1>5, <1>6, <1>7 DEF OutboxStep

-----------------------------------------------------------------------------
(* What a step makes of the workers and of the stores.                      *)

\* Time, the outbox and the binding only move on.
Onward ==
  /\ clock \in Nat /\ clock' \in Nat /\ clock <= clock'
  /\ \A k \in DOMAIN outbox : k \in DOMAIN outbox'
  /\ binding # None => binding' = binding

LEMMA StepClock ==
  ASSUME LaneTypeOK, [Next]_vars
  PROVE  /\ seen' \in [Managers \cup Workers -> Nat]
         /\ clock' \in Nat /\ clock <= clock'
         /\ faults' \in Nat /\ outgrown' \in Nat
<1>1. seen \in [Managers \cup Workers -> Nat] /\ clock \in Nat /\ faults \in Nat /\ outgrown \in Nat
  BY DEF LaneTypeOK
<1>2. CASE UNCHANGED vars
  BY <1>1, <1>2 DEF vars, budget
<1>3. ASSUME NEW p \in Managers \cup Workers, NEW at \in Readings(p), Read(p, at)
      PROVE  seen' \in [Managers \cup Workers -> Nat]
  <2>1. at \in Nat
    BY <1>3, ReadingType
  <2> QED
    BY <1>1, <1>3, <2>1 DEF Read
<1>4. ASSUME NEW p \in Managers \cup Workers, Read(p, clock) PROVE seen' \in [Managers \cup Workers -> Nat]
  BY <1>1, <1>4 DEF Read
<1>5. ASSUME NEW m \in Managers, Persist(m) PROVE seen' \in [Managers \cup Workers -> Nat] /\ UNCHANGED <<clock, faults, outgrown>>
  BY <1>3, <1>5 DEF Persist, budget
<1>6. ASSUME NEW w \in Workers,
             Claim(w) \/ Deliver(w) \/ Retry(w) \/ BlockStore(w) \/ Quarantine(w)
      PROVE  seen' \in [Managers \cup Workers -> Nat] /\ UNCHANGED <<clock, faults, outgrown>>
  BY <1>3, <1>6 DEF Claim, Deliver, Retry, BlockStore, Quarantine, budget
<1>7. ASSUME NEW w \in Workers, AppendOpens(w) \/ Audit(w)
      PROVE  seen' \in [Managers \cup Workers -> Nat] /\ UNCHANGED <<clock, faults, outgrown>>
  BY <1>4, <1>7 DEF AppendOpens, Audit, budget
<1>8. ASSUME NEW w \in Workers,
             AppendCommits(w) \/ LookUpRow(w) \/ UnlinkFile(w) \/ BlockRefused(w) \/ AppendBreaks(w) \/ Crash(w)
      PROVE  UNCHANGED <<seen, clock, outgrown>> /\ (faults' = faults \/ faults' = faults + 1)
  BY <1>8 DEF AppendCommits, LookUpRow, UnlinkFile, BlockRefused, AppendBreaks, Crash, budget
<1>9. CASE Tick
  BY <1>1, <1>9 DEF Tick, budget
<1>10. CASE Outgrow
  BY <1>1, <1>10 DEF Outgrow
<1> QED
  BY <1>1, <1>2, <1>5, <1>6, <1>7, <1>8, <1>9, <1>10 DEF Next, WorkerStep

Stays == UNCHANGED <<pc, lease, record, storeVars>>
\* run_once() returns.
Returns(w) ==
  /\ pc[w] # "insert"
  /\ pc' = [pc EXCEPT ![w] = "idle"] \/ pc' = [pc EXCEPT ![w] = "halted"]
  /\ lease' = [lease EXCEPT ![w] = None] /\ record' = [record EXCEPT ![w] = None]
  /\ UNCHANGED storeVars
\* An open append is rolled back: its process dies, or goes on to the handler.
RollsBack(w) ==
  /\ pc[w] = "insert" /\ Rollback(StoreOf[w])
  /\ \/ /\ pc' = [pc EXCEPT ![w] = "idle"]
        /\ lease' = [lease EXCEPT ![w] = None] /\ record' = [record EXCEPT ![w] = None]
     \/ /\ tx[StoreOf[w]][1].created /\ pc' = [pc EXCEPT ![w] = "lookup"]
        /\ UNCHANGED <<lease, record>> /\ faults < MaxFaults
     \/ /\ pc' = [pc EXCEPT ![w] = "failed"]
        /\ UNCHANGED <<lease, record>>
Leased(w) ==
  /\ pc[w] = "idle"
  /\ pc' = [pc EXCEPT ![w] = "append"] \/ pc' = [pc EXCEPT ![w] = "quarantine"]
  /\ \E l \in Leases : lease' = [lease EXCEPT ![w] = l] /\ l.order \in DOMAIN outbox
  /\ binding' # None /\ binding'.store = StoreOf[w]
  /\ UNCHANGED <<record, storeVars>>
\* It goes on with the record it has.
GoesOn(w) ==
  /\ \/ pc[w] \in Working /\ pc[w] # "insert" /\ pc' = [pc EXCEPT ![w] = "failed"]
     \/ pc[w] = "deliver" /\ pc' = [pc EXCEPT ![w] = "refused"]
     \/ pc[w] = "audit" /\ pc' = [pc EXCEPT ![w] = "deliver"]
     \/ pc[w] = "lookup" /\ pc' = [pc EXCEPT ![w] = "unlink"] /\ UnlinkAllowed(StoreOf[w], record[w])
  /\ UNCHANGED <<lease, record, storeVars>>
Finds(w) ==
  /\ pc[w] = "append" /\ pc' = [pc EXCEPT ![w] = "audit"]
  /\ \E r \in RowOf(StoreOf[w], lease[w].order) : record' = [record EXCEPT ![w] = r]
  /\ UNCHANGED <<lease, storeVars>>
\* A new file, or the orphan that is the next record.
Opens(w) ==
  \E r \in Records, created \in BOOLEAN :
    /\ pc[w] = "append" /\ pc' = [pc EXCEPT ![w] = "insert"] /\ record' = [record EXCEPT ![w] = r]
    /\ tx[StoreOf[w]] = <<>>
    /\ tx' = [tx EXCEPT ![StoreOf[w]] = <<[by |-> w, record |-> r, created |-> created]>>]
    /\ files' = [files EXCEPT ![StoreOf[w]] = files[StoreOf[w]] \cup {r}]
    /\ r.order = Len(catalog[StoreOf[w]]) + 1 /\ r.prev = Last(StoreOf[w]) /\ r.artifact = lease[w].order
    /\ RowOf(StoreOf[w], r.artifact) = {} /\ Dated(r)
    /\ UNCHANGED <<lease, catalog>>
Commits(w) ==
  /\ pc[w] = "insert" /\ pc' = [pc EXCEPT ![w] = "audit"]
  /\ CommitRow(StoreOf[w])
  /\ UNCHANGED <<lease, record>>
Unlinks(w) ==
  /\ pc[w] = "unlink" /\ pc' = [pc EXCEPT ![w] = "failed"]
  /\ Unlink(StoreOf[w], record[w])
  /\ UNCHANGED <<lease, record>>

LaneStep ==
  \/ Stays
  \/ \E w \in Workers :
       \/ Returns(w) \/ RollsBack(w) \/ Leased(w) \/ GoesOn(w) \/ Finds(w) \/ Opens(w) \/ Commits(w) \/ Unlinks(w)

LEMMA StoreTypes ==
  ASSUME StoresInv, NEW s \in Stores
  PROVE  /\ catalog[s] \in Seq(Records) /\ Len(catalog[s]) \in Nat /\ DOMAIN catalog[s] = 1..Len(catalog[s])
         /\ \A k \in DOMAIN catalog[s] : catalog[s][k] \in Records
         /\ files[s] \in SUBSET Records /\ tx[s] \in Seq(Appends) /\ Len(tx[s]) <= 1
         /\ Rows(s) \subseteq Records
<1>1. catalog[s] \in Seq(Records) /\ files[s] \in SUBSET Records /\ tx[s] \in Seq(Appends) /\ Len(tx[s]) <= 1
  BY DEF StoresInv, StoreTypeOK
<1>2. Len(catalog[s]) \in Nat /\ DOMAIN catalog[s] = 1..Len(catalog[s])
  BY <1>1, LenProperties
<1>3. \A k \in DOMAIN catalog[s] : catalog[s][k] \in Records
  BY <1>1, <1>2, ElementOfSeq
<1> QED
  BY <1>1, <1>2, <1>3 DEF Rows

\* The hash that the next record follows is that of a record no newer than now.
LEMMA LastDated ==
  ASSUME StoresInv, clock \in Nat, NEW s \in Stores
  PROVE  Last(s) \in Hashes /\ Last(s)[3] <= clock
<1>1. CASE catalog[s] = <<>>
  BY <1>1 DEF Last, Zero, Hashes
<1>2. CASE catalog[s] # <<>>
  <2>1. catalog[s] \in Seq(Records) /\ Len(catalog[s]) \in 1..Len(catalog[s])
    BY <1>2, StoreTypes
  <2>2. PICK r \in Records : r = catalog[s][Len(catalog[s])] /\ r \in Rows(s)
    BY <2>1, StoreTypes DEF Rows
  <2>3. r.storedAt <= clock
    BY <2>2 DEF StoresInv, StoreInv, Dated
  <2>4. Last(s) = <<r.order, r.artifact, r.storedAt>>
    BY <1>2, <2>2 DEF Last, HashOf
  <2> QED
    BY <2>3, <2>4 DEF Hashes, Records
<1> QED
  BY <1>1, <1>2

LEMMA OpensNew ==
  ASSUME StoresInv, LaneTypeOK, OutboxInv, LeaseInv, NEW w \in Workers, AppendOpens(w),
         ~AppendRefused(StoreOf[w], lease[w].order), Existing(StoreOf[w], lease[w].order) = {},
         ~AppendCollides(StoreOf[w], lease[w].order, clock)
  PROVE  Opens(w)
<1>1. PICK s, a : s = StoreOf[w] /\ a = lease[w].order
  OBVIOUS
<1>2. s \in Stores /\ a \in Nat /\ clock \in Nat
  BY <1>1, WorkerLease DEF AppendOpens, Working, Leases, LaneTypeOK
<1>3. /\ pc[w] = "append" /\ tx[s] = <<>> /\ RowOf(s, a) = {}
      /\ WriteFile(s, a, w, clock) \/ AdoptFile(s, a, w, clock)
      /\ pc' = [pc EXCEPT ![w] = "insert"]
      /\ record' = [record EXCEPT ![w] = tx'[s][1].record]
      /\ UNCHANGED lease
  BY <1>1 DEF AppendOpens, Goto, Existing
<1>4. tx \in [Stores -> Seq(Appends)] /\ files \in [Stores -> SUBSET Records]
  BY DEF StoresInv, StoreTypeOK
<1>5. \E r \in Records, created \in BOOLEAN :
        /\ tx' = [tx EXCEPT ![s] = <<[by |-> w, record |-> r, created |-> created]>>]
        /\ files' = [files EXCEPT ![s] = files[s] \cup {r}]
        /\ r.order = Len(catalog[s]) + 1 /\ r.prev = Last(s) /\ r.artifact = a /\ Dated(r)
        /\ UNCHANGED catalog
  <2>1. CASE WriteFile(s, a, w, clock)
    <3>1. PICK r : r = NewRecord(s, a, clock)
      OBVIOUS
    <3>2. Len(catalog[s]) + 1 \in Nat /\ Last(s) \in Hashes /\ Last(s)[3] <= clock
      BY <1>2, StoreTypes, LastDated
    <3>3. r \in Records /\ r.order = Len(catalog[s]) + 1 /\ r.prev = Last(s) /\ r.artifact = a /\ r.storedAt = clock
      BY <1>2, <3>1, <3>2 DEF NewRecord, Records
    <3>4. Dated(r)
      BY <1>2, <3>2, <3>3 DEF Dated
    <3>5. /\ tx' = [tx EXCEPT ![s] = <<[by |-> w, record |-> r, created |-> TRUE]>>]
          /\ files' = [files EXCEPT ![s] = files[s] \cup {r}]
          /\ UNCHANGED catalog
      BY <2>1, <3>1 DEF WriteFile
    <3> QED
      BY <3>3, <3>4, <3>5
  <2>2. CASE AdoptFile(s, a, w, clock)
    <3>1. PICK r \in Orphan(s, a) :
            /\ Adoptable(s, r, clock)
            /\ tx' = [tx EXCEPT ![s] = <<[by |-> w, record |-> r, created |-> FALSE]>>]
            /\ UNCHANGED <<catalog, files>>
      BY <2>2 DEF AdoptFile
    <3>2. r \in files[s] /\ r.artifact = a
      BY <3>1 DEF Orphan, FileOf
    <3>3. r \in Records /\ Dated(r)
      BY <1>2, <3>2, StoreTypes DEF StoresInv, StoreInv
    <3>4. files' = [files EXCEPT ![s] = files[s] \cup {r}]
      BY <1>2, <1>4, <3>1, <3>2
    <3> QED
      BY <3>1, <3>2, <3>3, <3>4 DEF Adoptable
  <2> QED
    BY <1>3, <2>1, <2>2
<1>6. PICK r \in Records, created \in BOOLEAN :
        /\ tx' = [tx EXCEPT ![s] = <<[by |-> w, record |-> r, created |-> created]>>]
        /\ files' = [files EXCEPT ![s] = files[s] \cup {r}]
        /\ r.order = Len(catalog[s]) + 1 /\ r.prev = Last(s) /\ r.artifact = a /\ Dated(r)
        /\ UNCHANGED catalog
  BY <1>5
<1>7. tx'[s][1].record = r
  BY <1>2, <1>4, <1>6
<1> QED
  BY <1>1, <1>3, <1>6, <1>7 DEF Opens

LEMMA ClaimKind ==
  ASSUME OutboxInv, LaneTypeOK, NEW w \in Workers, Claim(w)
  PROVE  Stays \/ Returns(w) \/ Leased(w)
<1>1. pc[w] = "idle" /\ UNCHANGED storeVars /\ OutboxTypeOK
  BY DEF Claim, OutboxInv
<1>2. PICK at \in Readings(w) :
        \/ /\ ClaimNext(IdOf[w], StoreOf[w], at, at + LeaseTime)
           /\ LET k == First(Claimable(at))
              IN /\ lease' = [lease EXCEPT ![w] = [order |-> k, expires |-> at + LeaseTime,
                                                   retries |-> delivery[k].retries]]
                 /\ Goto(w, IF outbox[k].valid THEN "append" ELSE "quarantine")
           /\ UNCHANGED record
        \/ UNCHANGED local
        \/ \E code : Halted(w, code)
  BY DEF Claim
<1>3. at \in Nat /\ at + LeaseTime \in Nat /\ IdOf[w] \in Ids /\ StoreOf[w] \in Stores
  BY ReadingType, DeliveryAssumption
<1>4. CASE UNCHANGED local
  BY <1>1, <1>4 DEF Stays, local
<1>5. ASSUME NEW code, Halted(w, code) PROVE Returns(w)
  BY <1>1, <1>5 DEF Returns, Halted, Finished, Goto
<1>6. CASE /\ ClaimNext(IdOf[w], StoreOf[w], at, at + LeaseTime)
           /\ LET k == First(Claimable(at))
              IN /\ lease' = [lease EXCEPT ![w] = [order |-> k, expires |-> at + LeaseTime,
                                                   retries |-> delivery[k].retries]]
                 /\ Goto(w, IF outbox[k].valid THEN "append" ELSE "quarantine")
           /\ UNCHANGED record
  <2>1. PICK k : k = First(Claimable(at))
    OBVIOUS
  <2>2. k \in DOMAIN delivery
    BY <1>1, <1>3, <1>6, <2>1, ClaimEffect
  <2>3. k \in DOMAIN outbox /\ k \in Nat /\ delivery[k] \in Deliveries
    BY <1>1, <2>2, OutboxDomains, DeliveryType
  <2>4. [order |-> k, expires |-> at + LeaseTime, retries |-> delivery[k].retries] \in Leases
    BY <1>3, <2>3 DEF Leases, Deliveries
  <2>5. PICK l \in Leases : l = [order |-> k, expires |-> at + LeaseTime, retries |-> delivery[k].retries] /\ l.order = k
    BY <2>4
  <2>6. lease' = [lease EXCEPT ![w] = l]
    BY <1>6, <2>1, <2>5
  <2>7. pc' = [pc EXCEPT ![w] = "append"] \/ pc' = [pc EXCEPT ![w] = "quarantine"]
    BY <1>6 DEF Goto
  <2>8. binding' # None /\ binding'.store = StoreOf[w]
    <3>1. binding' = Bind(StoreOf[w], at) /\ (binding # None => binding.store = StoreOf[w])
      BY <1>6 DEF ClaimNext, ClaimAllowed
    <3>2. [store |-> StoreOf[w], at |-> at] # None
      BY <1>3, DeliveryAssumption
    <3> QED
      BY <3>1, <3>2 DEF Bind
  <2> QED
    BY <1>1, <1>6, <2>3, <2>5, <2>6, <2>7, <2>8 DEF Leased
<1> QED
  BY <1>2, <1>4, <1>5, <1>6

LEMMA LaneKinds ==
  ASSUME LaneInv, [Next]_vars
  PROVE  LaneStep
<1> USE DEF LaneStep
<1>1. OutboxInv /\ StoresInv /\ LaneTypeOK /\ LeaseInv
  BY DEF LaneInv
<1>2. CASE UNCHANGED vars
  BY <1>2 DEF vars, local, Stays
<1>3. ASSUME NEW m \in Managers, Persist(m) PROVE Stays
  BY <1>3 DEF Persist, local, Stays
<1>4. ASSUME NEW w \in Workers, Claim(w) PROVE LaneStep
  BY <1>1, <1>4, ClaimKind
<1>5. ASSUME NEW w \in Workers, AppendOpens(w) PROVE LaneStep
  <2>1. CASE AppendRefused(StoreOf[w], lease[w].order)
    BY <1>5, <2>1 DEF AppendOpens, Goto, GoesOn, Working
  <2>2. CASE ~AppendRefused(StoreOf[w], lease[w].order) /\ Existing(StoreOf[w], lease[w].order) # {}
    BY <1>5, <2>2 DEF AppendOpens, Goto, Finds, Existing
  <2>3. CASE /\ ~AppendRefused(StoreOf[w], lease[w].order) /\ Existing(StoreOf[w], lease[w].order) = {}
             /\ AppendCollides(StoreOf[w], lease[w].order, clock)
    BY <1>5, <2>3 DEF AppendOpens, Goto, GoesOn, Working
  <2>4. CASE /\ ~AppendRefused(StoreOf[w], lease[w].order) /\ Existing(StoreOf[w], lease[w].order) = {}
             /\ ~AppendCollides(StoreOf[w], lease[w].order, clock)
    BY <1>1, <1>5, <2>4, OpensNew
  <2> QED
    BY <2>1, <2>2, <2>3, <2>4
<1>6. ASSUME NEW w \in Workers, AppendCommits(w) PROVE Commits(w)
  BY <1>6 DEF AppendCommits, Goto, Commits
<1>7. ASSUME NEW w \in Workers, AppendBreaks(w) PROVE GoesOn(w) \/ RollsBack(w)
  <2>1. CASE pc[w] \in {"append", "audit"}
    BY <1>7, <2>1 DEF AppendBreaks, Goto, GoesOn, Working, Storing
  <2>2. CASE pc[w] = "insert"
    BY <1>7, <2>2 DEF AppendBreaks, Goto, RollsBack
  <2> QED
    BY <1>7, <2>1, <2>2 DEF AppendBreaks
<1>8. ASSUME NEW w \in Workers, LookUpRow(w) PROVE GoesOn(w)
  BY <1>8 DEF LookUpRow, Goto, GoesOn, Working, Storing
<1>9. ASSUME NEW w \in Workers, UnlinkFile(w) PROVE Unlinks(w)
  BY <1>9 DEF UnlinkFile, Goto, Unlinks
<1>10. ASSUME NEW w \in Workers, Audit(w) PROVE GoesOn(w)
  BY <1>10 DEF Audit, Goto, GoesOn, Working, Storing
<1>11. ASSUME NEW w \in Workers, NEW code, pc[w] # "insert", UNCHANGED storeVars,
              Idle(w) \/ Halted(w, code)
       PROVE  Returns(w)
  BY <1>11 DEF Idle, Halted, Finished, Goto, Returns
<1>12. ASSUME NEW w \in Workers, Deliver(w) PROVE GoesOn(w) \/ Returns(w)
  <2>1. pc[w] = "deliver" /\ UNCHANGED storeVars
    BY <1>12 DEF Deliver
  <2>2. Idle(w) \/ (Goto(w, "refused") /\ UNCHANGED <<lease, record>>)
    BY <1>12 DEF Deliver
  <2> QED
    BY <1>11, <2>1, <2>2 DEF Goto, GoesOn
<1>13. ASSUME NEW w \in Workers, BlockRefused(w) \/ BlockStore(w) \/ Retry(w) \/ Quarantine(w) PROVE Returns(w)
  <2>1. pc[w] # "insert" /\ UNCHANGED storeVars
    BY <1>13 DEF BlockRefused, BlockStore, Retry, Quarantine
  <2>2. Idle(w) \/ \E code : Halted(w, code)
    BY <1>13 DEF BlockRefused, BlockStore, Retry, Quarantine, Ended
  <2> QED
    BY <1>11, <2>1, <2>2
<1>14. ASSUME NEW w \in Workers, Crash(w) PROVE Returns(w) \/ RollsBack(w)
  BY <1>14 DEF Crash, Idle, Finished, Goto, Returns, RollsBack
<1>15. CASE Tick
  BY <1>15 DEF Tick, local, Stays
<1>16. CASE Outgrow
  BY <1>16 DEF Outgrow, local, Stays
<1> QED
  BY <1>2, <1>3, <1>4, <1>5, <1>6, <1>7, <1>8, <1>9, <1>10, <1>12, <1>13, <1>14, <1>15, <1>16 DEF Next, WorkerStep

-----------------------------------------------------------------------------
(* The workers.                                                             *)

WorkerKind(w) ==
  Returns(w) \/ RollsBack(w) \/ Leased(w) \/ GoesOn(w) \/ Finds(w) \/ Opens(w) \/ Commits(w) \/ Unlinks(w)

LEMMA WorkerTypes ==
  ASSUME StoresInv, LaneTypeOK, NEW w \in Workers, WorkerKind(w)
  PROVE  /\ pc' \in [Workers -> {"idle", "halted"} \cup Working]
         /\ lease' \in [Workers -> Leases \cup {None}]
         /\ record' \in [Workers -> Records \cup {None}]
<1>1. /\ pc \in [Workers -> {"idle", "halted"} \cup Working]
      /\ lease \in [Workers -> Leases \cup {None}]
      /\ record \in [Workers -> Records \cup {None}]
      /\ StoreOf[w] \in Stores
  BY DeliveryAssumption DEF LaneTypeOK
<1>2. pc' \in [Workers -> {"idle", "halted"} \cup Working]
  BY <1>1, ZenonT(60) DEF WorkerKind, Returns, RollsBack, Leased, GoesOn, Finds, Opens, Commits, Unlinks, Working, Storing
<1>3. lease' \in [Workers -> Leases \cup {None}]
  BY <1>1 DEF WorkerKind, Returns, RollsBack, Leased, GoesOn, Finds, Opens, Commits, Unlinks
<1>4. RowOf(StoreOf[w], lease[w].order) \subseteq Records
  BY <1>1, StoreTypes DEF RowOf
<1>5. record' \in [Workers -> Records \cup {None}]
  BY <1>1, <1>4 DEF WorkerKind, Returns, RollsBack, Leased, GoesOn, Finds, Opens, Commits, Unlinks
<1> QED
  BY <1>2, <1>3, <1>5

\* A step of one worker leaves the others alone, and their stores.
LEMMA WorkerFrame ==
  ASSUME StoresInv, LaneTypeOK, NEW w \in Workers, WorkerKind(w)
  PROVE  /\ \A v \in Workers : v # w => pc'[v] = pc[v] /\ lease'[v] = lease[v] /\ record'[v] = record[v]
         /\ \A s \in Stores : s # StoreOf[w] => catalog'[s] = catalog[s] /\ files'[s] = files[s] /\ tx'[s] = tx[s]
<1>1. /\ pc \in [Workers -> {"idle", "halted"} \cup Working]
      /\ lease \in [Workers -> Leases \cup {None}]
      /\ record \in [Workers -> Records \cup {None}]
      /\ catalog \in [Stores -> Seq(Records)] /\ files \in [Stores -> SUBSET Records] /\ tx \in [Stores -> Seq(Appends)]
  BY DEF LaneTypeOK, StoresInv, StoreTypeOK
<1> USE DEF WorkerKind, Returns, RollsBack, Leased, GoesOn, Finds, Opens, Commits, Unlinks
<1>2. \A v \in Workers : v # w => pc'[v] = pc[v]
  BY <1>1
<1>3. \A v \in Workers : v # w => lease'[v] = lease[v]
  BY <1>1
<1>4. \A v \in Workers : v # w => record'[v] = record[v]
  BY <1>1
<1>5. \A s \in Stores : s # StoreOf[w] => catalog'[s] = catalog[s]
  BY <1>1 DEF storeVars, Rollback, CommitRow, Unlink
<1>6. \A s \in Stores : s # StoreOf[w] => files'[s] = files[s]
  BY <1>1 DEF storeVars, Rollback, CommitRow, Unlink
<1>7. \A s \in Stores : s # StoreOf[w] => tx'[s] = tx[s]
  BY <1>1 DEF storeVars, Rollback, CommitRow, Unlink
<1> QED
  BY <1>2, <1>3, <1>4, <1>5, <1>6, <1>7

\* The worker itself.
LEMMA WorkerMoves ==
  ASSUME LaneTypeOK, NEW w \in Workers
  PROVE  /\ Returns(w) => pc'[w] \in {"idle", "halted"}
         /\ RollsBack(w) => /\ pc'[w] \in {"idle", "lookup", "failed"}
                            /\ pc'[w] # "idle" => lease'[w] = lease[w] /\ record'[w] = record[w]
         /\ Leased(w) => pc'[w] \in {"append", "quarantine"}
         /\ GoesOn(w) => /\ lease'[w] = lease[w] /\ record'[w] = record[w]
                         /\ pc[w] \in Working /\ pc[w] # "insert"
                         /\ pc'[w] \in {"failed", "refused", "deliver", "unlink"}
                         /\ pc'[w] \in {"deliver", "unlink"} => pc[w] \in Storing
                         /\ pc'[w] = "deliver" => pc[w] = "audit"
         /\ Finds(w) => /\ lease'[w] = lease[w] /\ pc'[w] = "audit" /\ pc[w] = "append"
                        /\ record'[w] \in RowOf(StoreOf[w], lease[w].order)
         /\ Opens(w) => /\ lease'[w] = lease[w] /\ pc'[w] = "insert" /\ pc[w] = "append"
                        /\ record'[w] \in Records /\ record'[w].artifact = lease[w].order
         /\ Commits(w) => lease'[w] = lease[w] /\ record'[w] = record[w] /\ pc'[w] = "audit" /\ pc[w] = "insert"
         /\ Unlinks(w) => lease'[w] = lease[w] /\ record'[w] = record[w] /\ pc'[w] = "failed" /\ pc[w] = "unlink"
<1>1. /\ pc \in [Workers -> {"idle", "halted"} \cup Working]
      /\ lease \in [Workers -> Leases \cup {None}]
      /\ record \in [Workers -> Records \cup {None}]
  BY DEF LaneTypeOK
<1>2. Returns(w) => pc'[w] \in {"idle", "halted"}
  BY <1>1 DEF Returns
<1>3. RollsBack(w) => /\ pc'[w] \in {"idle", "lookup", "failed"}
                      /\ pc'[w] # "idle" => lease'[w] = lease[w] /\ record'[w] = record[w]
  BY <1>1 DEF RollsBack
<1>4. Leased(w) => pc'[w] \in {"append", "quarantine"}
  BY <1>1 DEF Leased
<1>5. GoesOn(w) => /\ lease'[w] = lease[w] /\ record'[w] = record[w]
                   /\ pc[w] \in Working /\ pc[w] # "insert"
                   /\ pc'[w] \in {"failed", "refused", "deliver", "unlink"}
                   /\ pc'[w] \in {"deliver", "unlink"} => pc[w] \in Storing
                   /\ pc'[w] = "deliver" => pc[w] = "audit"
  BY <1>1 DEF GoesOn, Working, Storing
<1>6. Finds(w) => /\ lease'[w] = lease[w] /\ pc'[w] = "audit" /\ pc[w] = "append"
                  /\ record'[w] \in RowOf(StoreOf[w], lease[w].order)
  BY <1>1 DEF Finds
<1>7. Opens(w) => /\ lease'[w] = lease[w] /\ pc'[w] = "insert" /\ pc[w] = "append"
                  /\ record'[w] \in Records /\ record'[w].artifact = lease[w].order
  BY <1>1 DEF Opens
<1>8. Commits(w) => lease'[w] = lease[w] /\ record'[w] = record[w] /\ pc'[w] = "audit" /\ pc[w] = "insert"
  BY <1>1 DEF Commits
<1>9. Unlinks(w) => lease'[w] = lease[w] /\ record'[w] = record[w] /\ pc'[w] = "failed" /\ pc[w] = "unlink"
  BY <1>1 DEF Unlinks
<1> QED
  BY <1>2, <1>3, <1>4, <1>5, <1>6, <1>7, <1>8, <1>9

LEMMA LeaseStep ==
  ASSUME StoresInv, LaneTypeOK, LeaseInv, Onward, LaneStep
  PROVE  LeaseInv'
<1> DEFINE Held(v) == /\ lease[v] \in Leases /\ lease[v].order \in DOMAIN outbox
                      /\ binding # None /\ binding.store = StoreOf[v]
                      /\ pc[v] \in Storing => record[v] \in Records /\ record[v].artifact = lease[v].order
<1>1. \A v \in Workers : pc[v] \in Working => Held(v)
  BY DEF LeaseInv
<1>2. ASSUME NEW v \in Workers, pc[v] \in Working, lease'[v] = lease[v],
             pc'[v] \in Storing => (pc[v] \in Storing /\ record'[v] = record[v])
                                   \/ (record'[v] \in Records /\ record'[v].artifact = lease[v].order)
      PROVE  Held(v)'
  BY <1>1, <1>2 DEF Onward
<1>3. ASSUME NEW w \in Workers, WorkerKind(w), NEW v \in Workers, v # w, pc'[v] \in Working PROVE Held(v)'
  BY <1>2, <1>3, WorkerFrame
<1>5. ASSUME NEW w \in Workers, WorkerKind(w), pc'[w] \in Working PROVE Held(w)'
  <2>1. CASE Returns(w)
    BY <1>5, <2>1, WorkerMoves DEF Working, Storing
  <2>2. CASE RollsBack(w)
    <3>1. pc[w] = "insert"
      BY <2>2 DEF RollsBack
    <3> QED
      BY <1>2, <1>5, <2>2, <3>1, WorkerMoves DEF Working, Storing
  <2>3. CASE Leased(w)
    <3>1. PICK l \in Leases : lease' = [lease EXCEPT ![w] = l] /\ l.order \in DOMAIN outbox
      BY <2>3 DEF Leased
    <3>2. lease'[w] \in Leases /\ lease'[w].order \in DOMAIN outbox'
      BY <3>1 DEF LaneTypeOK, Onward
    <3>3. binding' # None /\ binding'.store = StoreOf[w] /\ pc'[w] \notin Storing
      BY <2>3, WorkerMoves DEF Leased, Storing
    <3> QED
      BY <3>2, <3>3
  <2>4. CASE GoesOn(w)
    BY <1>2, <2>4, WorkerMoves DEF Storing
  <2>5. CASE Finds(w)
    <3>1. StoreOf[w] \in Stores
      BY DeliveryAssumption
    <3>2. record'[w] \in Records /\ record'[w].artifact = lease[w].order
      BY <2>5, <3>1, StoreTypes, WorkerMoves DEF RowOf
    <3> QED
      BY <1>2, <2>5, <3>2, WorkerMoves DEF Working
  <2>6. CASE Opens(w)
    BY <1>2, <2>6, WorkerMoves DEF Working
  <2>7. CASE Commits(w)
    BY <1>2, <2>7, WorkerMoves DEF Working, Storing
  <2>8. CASE Unlinks(w)
    BY <1>2, <2>8, WorkerMoves DEF Working, Storing
  <2> QED
    BY <1>5, <2>1, <2>2, <2>3, <2>4, <2>5, <2>6, <2>7, <2>8 DEF WorkerKind
<1> HIDE DEF Held
<1>6. \A v \in Workers : pc'[v] \in Working => Held(v)'
  <2>1. CASE Stays
    BY <1>1, <1>2, <2>1 DEF Stays
  <2>2. ASSUME NEW w \in Workers, WorkerKind(w) PROVE \A v \in Workers : pc'[v] \in Working => Held(v)'
    BY <1>3, <1>5, <2>2
  <2> QED
    BY <2>1, <2>2 DEF LaneStep, WorkerKind
<1> QED
  BY <1>6 DEF LeaseInv, Held

-----------------------------------------------------------------------------
(* The stores.                                                              *)

LEMMA OpenAppend ==
  ASSUME StoresInv, NEW s \in Stores, tx[s] # <<>>
  PROVE  tx[s][1] \in Appends /\ tx[s][1].record \in Records /\ tx[s][1].by \in Workers
<1>1. tx[s] \in Seq(Appends) /\ 1 \in 1..Len(tx[s])
  BY StoreTypes
<1>2. tx[s][1] \in Appends
  BY <1>1, ElementOfSeq
<1> QED
  BY <1>2 DEF Appends

LEMMA StoreTypeStep ==
  ASSUME StoresInv, LaneTypeOK, LaneStep, \A w \in Workers : pc[w] = "insert" => tx[StoreOf[w]] # <<>>
  PROVE  StoreTypeOK'
<1>1. /\ catalog \in [Stores -> Seq(Records)]
      /\ files \in [Stores -> SUBSET Records]
      /\ tx \in [Stores -> Seq(Appends)] /\ \A s \in Stores : Len(tx[s]) <= 1
  BY DEF StoresInv, StoreTypeOK
<1>2. CASE UNCHANGED storeVars
  BY <1>1, <1>2 DEF storeVars, StoreTypeOK
<1>3. ASSUME NEW s \in Stores, Rollback(s) PROVE StoreTypeOK'
  BY <1>1, <1>3 DEF Rollback, StoreTypeOK
<1>4. ASSUME NEW w \in Workers, Opens(w) PROVE StoreTypeOK'
  <2>1. PICK s \in Stores : s = StoreOf[w]
    BY DeliveryAssumption
  <2>2. PICK r \in Records, created \in BOOLEAN :
          /\ tx' = [tx EXCEPT ![s] = <<[by |-> w, record |-> r, created |-> created]>>]
          /\ files' = [files EXCEPT ![s] = files[s] \cup {r}]
          /\ UNCHANGED catalog
    BY <1>4, <2>1 DEF Opens
  <2>3. PICK t : t = <<[by |-> w, record |-> r, created |-> created]>>
    OBVIOUS
  <2>4. t \in Seq(Appends) /\ Len(t) = 1
    BY <2>3 DEF Appends
  <2>5. tx' \in [Stores -> Seq(Appends)] /\ \A i \in Stores : Len(tx'[i]) <= 1
    BY <1>1, <2>2, <2>3, <2>4
  <2> QED
    BY <1>1, <2>2, <2>5 DEF StoreTypeOK
<1>5. ASSUME NEW w \in Workers, Commits(w) PROVE StoreTypeOK'
  <2>1. PICK s \in Stores : s = StoreOf[w] /\ tx[s] # <<>> /\ CommitRow(s)
    BY <1>5, DeliveryAssumption DEF Commits
  <2>2. PICK r \in Records : r = tx[s][1].record
    BY <2>1, OpenAppend
  <2>3. Append(catalog[s], r) \in Seq(Records)
    BY <1>1, AppendProperties
  <2>4. PICK c \in Seq(Records) : c = Append(catalog[s], tx[s][1].record)
    BY <2>2, <2>3
  <2>5. catalog' = [catalog EXCEPT ![s] = c] /\ tx' = [tx EXCEPT ![s] = <<>>] /\ UNCHANGED files
    BY <2>1, <2>4 DEF CommitRow
  <2> QED
    BY <1>1, <2>4, <2>5 DEF StoreTypeOK
<1>6. ASSUME NEW w \in Workers, Unlinks(w) PROVE StoreTypeOK'
  BY <1>1, <1>6 DEF Unlinks, Unlink, StoreTypeOK
<1>7. \A w \in Workers : StoreOf[w] \in Stores
  BY DeliveryAssumption
<1> QED
  BY <1>2, <1>3, <1>4, <1>5, <1>6, <1>7 DEF LaneStep, Stays, Returns, RollsBack, Leased, GoesOn, Finds

\* What a record says stays true while time goes on.
LEMMA StaysDated ==
  ASSUME Onward, NEW r \in Records, Dated(r)
  PROVE  Dated(r)'
  BY DEF Onward, Dated, Records

\* A store whose catalogue and append stay, and whose files are dated, is as it was.
LEMMA StoreStays ==
  ASSUME StoresInv, Onward, NEW s \in Stores, catalog'[s] = catalog[s],
         \A r \in files'[s] : r \in Records /\ Dated(r)',
         files'[s] # {} => files[s] # {} \/ (binding # None /\ binding.store = s),
         tx'[s] # <<>> => /\ tx'[s] = tx[s]
                          /\ pc'[tx[s][1].by] = pc[tx[s][1].by] /\ record'[tx[s][1].by] = record[tx[s][1].by]
  PROVE  StoreInv(s)'
<1>1. StoreInv(s) /\ Rows(s) \subseteq Records
  BY StoreTypes DEF StoresInv
<1>2. /\ Rows(s)' = Rows(s) /\ Last(s)' = Last(s) /\ \A a : RowOf(s, a)' = RowOf(s, a)
      /\ ChainIntact(s)'
  BY <1>1 DEF StoreInv, Rows, RowOf, Last, ChainIntact
<1>3. \A i, j \in DOMAIN catalog'[s] : catalog'[s][i].artifact = catalog'[s][j].artifact => i = j
  BY <1>1 DEF StoreInv
<1>4. ASSUME NEW r \in Rows(s)' \cup files'[s] PROVE Dated(r)'
  BY <1>1, <1>2, <1>4, StaysDated DEF StoreInv
<1>5. AppendInv(s)'
  <2> SUFFICES ASSUME tx'[s] # <<>> PROVE AppendInv(s)'
    BY DEF AppendInv
  <2>1. PICK a : a = tx[s][1] /\ a = tx'[s][1]
    OBVIOUS
  <2>2. a.record \in Records
    BY <2>1, OpenAppend
  <2>3. /\ pc[a.by] = "insert" /\ StoreOf[a.by] = s /\ record[a.by] = a.record
        /\ a.record.order = Len(catalog[s]) + 1 /\ a.record.prev = Last(s)
        /\ RowOf(s, a.record.artifact) = {} /\ Dated(a.record)
    BY <1>1, <2>1 DEF StoreInv, AppendInv
  <2>4. Dated(a.record)'
    BY <2>2, <2>3, StaysDated
  <2> QED
    BY <1>2, <2>1, <2>3, <2>4 DEF AppendInv
<1>6. catalog'[s] # <<>> \/ files'[s] # {} => binding' # None /\ binding'.store = s
  BY <1>1 DEF StoreInv, Onward
<1> QED
  BY <1>2, <1>3, <1>4, <1>5, <1>6 DEF StoreInv

\* The files that are there stay dated.
LEMMA FilesDated ==
  ASSUME StoresInv, Onward, NEW s \in Stores
  PROVE  \A r \in files[s] : r \in Records /\ Dated(r)'
<1>1. files[s] \subseteq Records /\ \A r \in files[s] : Dated(r)
  BY StoreTypes DEF StoresInv, StoreInv
<1> QED
  BY <1>1, StaysDated

LEMMA OpensStore ==
  ASSUME StoresInv, LaneTypeOK, LeaseInv, Onward, NEW w \in Workers, Opens(w)
  PROVE  StoreInv(StoreOf[w])'
<1>1. PICK s \in Stores : s = StoreOf[w]
  BY DeliveryAssumption
<1>2. PICK r \in Records, created \in BOOLEAN :
        /\ tx' = [tx EXCEPT ![s] = <<[by |-> w, record |-> r, created |-> created]>>]
        /\ files' = [files EXCEPT ![s] = files[s] \cup {r}]
        /\ r.order = Len(catalog[s]) + 1 /\ r.prev = Last(s) /\ RowOf(s, r.artifact) = {} /\ Dated(r)
        /\ pc' = [pc EXCEPT ![w] = "insert"] /\ record' = [record EXCEPT ![w] = r]
        /\ pc[w] = "append" /\ UNCHANGED catalog
  BY <1>1 DEF Opens
<1>3. PICK a : a = [by |-> w, record |-> r, created |-> created]
  OBVIOUS
<1>4. a.by = w /\ a.record = r /\ tx' = [tx EXCEPT ![s] = <<a>>]
  BY <1>2, <1>3
<1>5. tx'[s] = <<a>> /\ files'[s] = files[s] \cup {r} /\ pc'[w] = "insert" /\ record'[w] = r
  BY <1>2, <1>4 DEF StoresInv, StoreTypeOK, LaneTypeOK
<1>6. StoreInv(s) /\ Rows(s) \subseteq Records
  BY StoreTypes DEF StoresInv
<1>7. Dated(r)'
  BY <1>2, StaysDated
<1>8. /\ Rows(s)' = Rows(s) /\ Last(s)' = Last(s) /\ \A x : RowOf(s, x)' = RowOf(s, x)
      /\ ChainIntact(s)'
  BY <1>2, <1>6 DEF StoreInv, Rows, RowOf, Last, ChainIntact
<1>9. \A i, j \in DOMAIN catalog'[s] : catalog'[s][i].artifact = catalog'[s][j].artifact => i = j
  BY <1>2, <1>6 DEF StoreInv
<1>10. ASSUME NEW e \in Rows(s)' \cup files'[s] PROVE Dated(e)'
  <2>1. CASE e \in Rows(s)
    BY <1>6, <2>1, StaysDated DEF StoreInv
  <2> QED
    BY <1>5, <1>7, <1>8, <1>10, <2>1, FilesDated
<1>11. AppendInv(s)'
  <2>1. tx'[s][1] = a
    BY <1>5
  <2>2. Len(catalog'[s]) = Len(catalog[s])
    BY <1>2
  <2>3. /\ pc'[a.by] = "insert" /\ StoreOf[a.by] = s /\ record'[a.by] = a.record
        /\ a.record.order = Len(catalog'[s]) + 1 /\ a.record.prev = Last(s)'
        /\ RowOf(s, a.record.artifact)' = {} /\ Dated(a.record)'
    BY <1>1, <1>2, <1>4, <1>5, <1>7, <1>8, <2>2
  <2> QED
    BY <2>1, <2>3 DEF AppendInv
<1>12. binding' # None /\ binding'.store = s
  BY <1>1, <1>2 DEF LeaseInv, Working, Onward
<1> QED
  BY <1>1, <1>8, <1>9, <1>10, <1>11, <1>12 DEF StoreInv

\* A commit appends the record of the open append, and leaves the rest.
LEMMA CommitsEffect ==
  ASSUME StoresInv, LaneTypeOK, NEW w \in Workers, RecordInv(w), Commits(w), NEW s \in Stores, s = StoreOf[w]
  PROVE  /\ record[w] \in Records /\ record[w].order = Len(catalog[s]) + 1 /\ record[w].prev = Last(s)
         /\ RowOf(s, record[w].artifact) = {} /\ Dated(record[w])
         /\ catalog'[s] \in Seq(Records) /\ Len(catalog'[s]) = Len(catalog[s]) + 1
         /\ \A k \in DOMAIN catalog[s] : catalog'[s][k] = catalog[s][k]
         /\ catalog'[s][Len(catalog[s]) + 1] = record[w]
         /\ tx'[s] = <<>> /\ files'[s] = files[s]
         /\ Rows(s)' = Rows(s) \cup {record[w]}
<1>1. /\ catalog \in [Stores -> Seq(Records)] /\ files \in [Stores -> SUBSET Records] /\ tx \in [Stores -> Seq(Appends)]
      /\ catalog[s] \in Seq(Records) /\ Len(catalog[s]) \in Nat /\ DOMAIN catalog[s] = 1..Len(catalog[s])
  BY StoreTypes DEF StoresInv, StoreTypeOK
<1>2. tx[s] # <<>> /\ tx[s][1].by = w
  BY DEF Commits, RecordInv
<1>3. PICK r \in Records : r = tx[s][1].record
  BY <1>2, OpenAppend
<1>4. /\ record[w] = r /\ r.order = Len(catalog[s]) + 1 /\ r.prev = Last(s)
      /\ RowOf(s, r.artifact) = {} /\ Dated(r)
  BY <1>2, <1>3 DEF StoresInv, StoreInv, AppendInv
<1>5. catalog' = [catalog EXCEPT ![s] = Append(catalog[s], r)] /\ tx' = [tx EXCEPT ![s] = <<>>] /\ files' = files
  BY <1>3 DEF Commits, CommitRow
<1>6. catalog'[s] = Append(catalog[s], r) /\ tx'[s] = <<>> /\ files'[s] = files[s]
  BY <1>1, <1>5
<1>7. /\ catalog'[s] \in Seq(Records) /\ Len(catalog'[s]) = Len(catalog[s]) + 1
      /\ \A k \in 1..Len(catalog[s]) : catalog'[s][k] = catalog[s][k]
      /\ catalog'[s][Len(catalog[s]) + 1] = r
  BY <1>1, <1>6, Appended
<1>8. DOMAIN catalog'[s] = 1..(Len(catalog[s]) + 1)
  BY <1>7, LenProperties
<1>9. Rows(s)' = Rows(s) \cup {r}
  <2>1. ASSUME NEW k \in DOMAIN catalog'[s] PROVE catalog'[s][k] \in Rows(s) \cup {r}
    <3>1. k \in DOMAIN catalog[s] \/ k = Len(catalog[s]) + 1
      BY <1>1, <1>8
    <3> QED
      BY <1>1, <1>7, <3>1 DEF Rows
  <2>2. ASSUME NEW k \in DOMAIN catalog[s] PROVE catalog[s][k] \in Rows(s)'
    <3>1. k \in DOMAIN catalog'[s] /\ catalog'[s][k] = catalog[s][k]
      BY <1>1, <1>7, <1>8
    <3> QED
      BY <3>1 DEF Rows
  <2>3. r \in Rows(s)'
    <3>1. Len(catalog[s]) + 1 \in DOMAIN catalog'[s]
      BY <1>1, <1>8
    <3> QED
      BY <1>7, <3>1 DEF Rows
  <2> QED
    BY <2>1, <2>2, <2>3 DEF Rows
<1> QED
  BY <1>1, <1>4, <1>6, <1>7, <1>9

LEMMA CommitsStore ==
  ASSUME StoresInv, LaneTypeOK, LeaseInv, Onward, NEW w \in Workers, RecordInv(w), Commits(w)
  PROVE  StoreInv(StoreOf[w])'
<1>1. PICK s \in Stores : s = StoreOf[w]
  BY DeliveryAssumption
<1> PICK r, n : r = record[w] /\ n = Len(catalog[s])
  OBVIOUS
<1>2. /\ r = record[w] /\ r \in Records /\ n = Len(catalog[s]) /\ n \in Nat
      /\ r.order = n + 1 /\ r.prev = Last(s) /\ RowOf(s, r.artifact) = {} /\ Dated(r)
      /\ catalog'[s] \in Seq(Records) /\ Len(catalog'[s]) = n + 1
      /\ \A k \in DOMAIN catalog[s] : catalog'[s][k] = catalog[s][k]
      /\ catalog'[s][n + 1] = r
      /\ tx'[s] = <<>> /\ files'[s] = files[s]
      /\ Rows(s)' = Rows(s) \cup {r}
  BY <1>1, CommitsEffect, StoreTypes, ZenonT(60)
<1>3. /\ DOMAIN catalog[s] = 1..n /\ DOMAIN catalog'[s] = 1..(n + 1)
      /\ Rows(s) \subseteq Records /\ \A k \in DOMAIN catalog[s] : catalog[s][k] \in Records
  BY <1>2, LenProperties, StoreTypes
<1>4. ChainIntact(s) /\ StoreInv(s)
  BY DEF StoresInv, StoreInv
<1>5. ChainIntact(s)'
  <2> SUFFICES ASSUME NEW k \in 1..(n + 1)
               PROVE  /\ catalog'[s][k].order = k
                      /\ catalog'[s][k].prev = (IF k = 1 THEN Zero ELSE HashOf(catalog'[s][k - 1]))
                      /\ k > 1 => catalog'[s][k - 1].storedAt <= catalog'[s][k].storedAt
    BY <1>3 DEF ChainIntact
  <2>1. CASE k \in 1..n
    <3>1. k > 1 => k - 1 \in 1..n
      BY <2>1
    <3>2. k = 1 \/ k > 1
      BY <2>1
    <3> QED
      BY <1>2, <1>3, <1>4, <2>1, <3>1, <3>2, ZenonT(60) DEF ChainIntact
  <2>2. CASE k = n + 1 /\ n = 0
    <3>1. catalog[s] = <<>>
      BY <1>2, <2>2, StoreTypes, EmptySeq
    <3> QED
      BY <1>2, <2>2, <3>1 DEF Last
  <2>3. CASE k = n + 1 /\ n > 0
    <3>1. PICK p \in Records : p = catalog[s][n] /\ p = catalog'[s][n] /\ n \in 1..n
      BY <1>2, <1>3, <2>3
    <3>2. Last(s) = HashOf(p)
      BY <1>2, <2>3, <3>1 DEF Last
    <3>3. r.prev[3] = p.storedAt
      BY <1>2, <3>2 DEF HashOf
    <3>4. p.storedAt <= r.storedAt
      BY <1>2, <3>3 DEF Dated
    <3>5. k - 1 = n /\ k # 1 /\ catalog'[s][k] = r
      BY <1>2, <2>3
    <3> QED
      BY <1>2, <2>3, <3>1, <3>2, <3>4, <3>5
  <2> QED
    BY <2>1, <2>2, <2>3
<1>6. ASSUME NEW i \in DOMAIN catalog'[s], NEW j \in DOMAIN catalog'[s],
             catalog'[s][i].artifact = catalog'[s][j].artifact
      PROVE  i = j
  <2>1. ASSUME NEW k \in 1..n PROVE catalog'[s][k].artifact # r.artifact
    <3>1. catalog[s][k] \in Rows(s) /\ catalog'[s][k] = catalog[s][k]
      BY <1>2, <1>3 DEF Rows
    <3> QED
      BY <1>2, <3>1 DEF RowOf
  <2>2. (i \in 1..n \/ i = n + 1) /\ (j \in 1..n \/ j = n + 1)
    BY <1>3
  <2>3. CASE i \in 1..n /\ j \in 1..n
    BY <1>2, <1>3, <1>4, <1>6, <2>3 DEF StoreInv
  <2> QED
    BY <1>2, <1>6, <2>1, <2>2, <2>3
<1>7. ASSUME NEW e \in Rows(s)' \cup files'[s] PROVE Dated(e)'
  <2>1. Rows(s)' \cup files'[s] = Rows(s) \cup {r} \cup files[s]
    BY <1>2
  <2>2. e \in Records
    BY <1>2, <1>3, <1>7, <2>1, StoreTypes
  <2>3. Dated(e)
    BY <1>2, <1>4, <1>7, <2>1 DEF StoreInv
  <2> QED
    BY <2>2, <2>3, StaysDated
<1>8. AppendInv(s)'
  BY <1>2 DEF AppendInv
<1>9. binding' # None /\ binding'.store = s
  BY <1>1 DEF Commits, LeaseInv, Working, Storing, Onward
<1> QED
  BY <1>1, <1>5, <1>6, <1>7, <1>8, <1>9 DEF StoreInv

LEMMA StoresStep ==
  ASSUME LaneInv, Onward, LaneStep
  PROVE  StoresInv'
<1>1. StoresInv /\ LaneTypeOK /\ LeaseInv /\ \A w \in Workers : RecordInv(w)
  BY DEF LaneInv
<1>2. StoreTypeOK'
  BY <1>1, StoreTypeStep DEF RecordInv
<1>3. ASSUME NEW s \in Stores, Stays PROVE StoreInv(s)'
  BY <1>1, <1>3, StoreStays, FilesDated DEF Stays, storeVars
<1>4. ASSUME NEW w \in Workers, WorkerKind(w), NEW s \in Stores PROVE StoreInv(s)'
  <2>1. AppendInv(s) /\ (tx[s] # <<>> => tx[s][1].by \in Workers)
    BY <1>1, OpenAppend DEF StoresInv, StoreInv
  \* The worker of an open append that is not the one that moves stays at its insert.
  <2>2. tx[s] # <<>> /\ tx[s][1].by # w =>
          pc'[tx[s][1].by] = pc[tx[s][1].by] /\ record'[tx[s][1].by] = record[tx[s][1].by]
    BY <1>1, <1>4, <2>1, WorkerFrame
  <2>3. CASE s # StoreOf[w]
    <3>1. catalog'[s] = catalog[s] /\ files'[s] = files[s] /\ tx'[s] = tx[s]
      BY <1>1, <1>4, <2>3, WorkerFrame
    <3>2. tx[s] # <<>> => tx[s][1].by # w
      BY <2>1, <2>3 DEF AppendInv
    <3> QED
      BY <1>1, <2>2, <3>1, <3>2, StoreStays, FilesDated
  <2>4. CASE s = StoreOf[w] /\ pc[w] # "insert" /\ UNCHANGED storeVars
    <3>1. catalog'[s] = catalog[s] /\ files'[s] = files[s] /\ tx'[s] = tx[s]
      BY <2>4 DEF storeVars
    <3>2. tx[s] # <<>> => tx[s][1].by # w
      BY <2>1, <2>4 DEF AppendInv
    <3> QED
      BY <1>1, <2>2, <3>1, <3>2, StoreStays, FilesDated
  <2>5. CASE s = StoreOf[w] /\ Rollback(s)
    <3>1. catalog'[s] = catalog[s] /\ files'[s] = files[s] /\ tx'[s] = <<>>
      BY <1>1, <2>5 DEF Rollback, StoresInv, StoreTypeOK
    <3> QED
      BY <1>1, <3>1, StoreStays, FilesDated
  <2>6. CASE s = StoreOf[w] /\ Unlinks(w)
    <3>1. pc[w] = "unlink" /\ catalog'[s] = catalog[s] /\ files'[s] \subseteq files[s] /\ tx'[s] = tx[s]
      BY <1>1, <2>6 DEF Unlinks, Unlink, StoresInv, StoreTypeOK
    <3>2. tx[s] # <<>> => tx[s][1].by # w
      BY <2>1, <3>1 DEF AppendInv
    <3>3. \A r \in files'[s] : r \in Records /\ Dated(r)'
      BY <1>1, <3>1, FilesDated
    <3>4. files'[s] # {} => files[s] # {}
      BY <3>1
    <3> QED
      BY <1>1, <2>2, <3>1, <3>2, <3>3, <3>4, StoreStays
  <2>7. CASE s = StoreOf[w] /\ Opens(w)
    BY <1>1, <2>7, OpensStore
  <2>8. CASE s = StoreOf[w] /\ Commits(w)
    BY <1>1, <2>8, CommitsStore
  <2>9. Returns(w) \/ Leased(w) \/ GoesOn(w) \/ Finds(w) => pc[w] # "insert" /\ UNCHANGED storeVars
    BY DEF Returns, Leased, GoesOn, Finds
  <2>10. RollsBack(w) => Rollback(StoreOf[w])
    BY DEF RollsBack
  <2> QED
    BY <1>4, <2>3, <2>4, <2>5, <2>6, <2>7, <2>8, <2>9, <2>10 DEF WorkerKind
<1>5. \A s \in Stores : StoreInv(s)'
  BY <1>3, <1>4 DEF LaneStep, WorkerKind
<1> QED
  BY <1>2, <1>5 DEF StoresInv

\* A record that is stored stays.
LEMMA RowsGrow ==
  ASSUME LaneInv, LaneStep, NEW s \in Stores
  PROVE  /\ Rows(s) \subseteq Rows(s)'
         /\ \A a : RowOf(s, a) \subseteq RowOf(s, a)'
<1>1. Rows(s) \subseteq Rows(s)'
  <2>1. StoresInv /\ LaneTypeOK /\ \A w \in Workers : RecordInv(w)
    BY DEF LaneInv
  <2>2. catalog'[s] = catalog[s] => Rows(s)' = Rows(s)
    BY DEF Rows
  <2>3. CASE Stays
    BY <2>2, <2>3 DEF Stays, storeVars
  <2>4. ASSUME NEW w \in Workers, WorkerKind(w) PROVE Rows(s) \subseteq Rows(s)'
    <3>1. CASE s # StoreOf[w]
      BY <2>1, <2>2, <2>4, <3>1, WorkerFrame
    <3>2. CASE s = StoreOf[w] /\ Commits(w)
      BY <2>1, <3>2, CommitsEffect
    <3>3. CASE UNCHANGED catalog
      BY <2>2, <3>3
    <3>4. Commits(w) \/ UNCHANGED catalog
      BY <2>4 DEF WorkerKind, Returns, RollsBack, Leased, GoesOn, Finds, Opens, Unlinks, storeVars, Rollback, Unlink
    <3> QED
      BY <3>1, <3>2, <3>3, <3>4
  <2> QED
    BY <2>3, <2>4 DEF LaneStep, WorkerKind
<1> QED
  BY <1>1 DEF RowOf

LEMMA RecordStep ==
  ASSUME LaneInv, LaneStep
  PROVE  \A v \in Workers : RecordInv(v)'
<1>1. StoresInv /\ LaneTypeOK /\ \A w \in Workers : RecordInv(w) /\ StoreOf[w] \in Stores
  BY DeliveryAssumption DEF LaneInv
<1>2. \A w \in Workers : Rows(StoreOf[w]) \subseteq Rows(StoreOf[w])'
  BY <1>1, RowsGrow
<1>3. CASE Stays
  BY <1>1, <1>2, <1>3 DEF Stays, storeVars, RecordInv
<1>4. ASSUME NEW w \in Workers, WorkerKind(w), NEW v \in Workers, v # w PROVE RecordInv(v)'
  <2>1. pc'[v] = pc[v] /\ record'[v] = record[v]
    BY <1>1, <1>4, WorkerFrame
  <2>2. ASSUME pc[v] = "insert" PROVE tx'[StoreOf[v]] # <<>> /\ tx'[StoreOf[v]][1].by = v
    <3>1. tx[StoreOf[v]] # <<>> /\ tx[StoreOf[v]][1].by = v
      BY <1>1, <2>2 DEF RecordInv
    <3>2. CASE StoreOf[v] # StoreOf[w]
      BY <1>1, <1>4, <3>1, <3>2, WorkerFrame
    <3>3. CASE StoreOf[v] = StoreOf[w]
      <4>1. pc[w] # "insert"
        BY <1>1, <1>4, <3>1, <3>3 DEF RecordInv
      <4>2. UNCHANGED tx
        BY <1>4, <3>1, <3>3, <4>1
           DEF WorkerKind, Returns, RollsBack, Leased, GoesOn, Finds, Opens, Commits, Unlinks, storeVars, Unlink
      <4> QED
        BY <3>1, <4>2
    <3> QED
      BY <3>2, <3>3
  <2>3. pc[v] \in {"audit", "deliver"} => record[v] \in Rows(StoreOf[v])'
    BY <1>1, <1>2 DEF RecordInv
  <2> QED
    BY <2>1, <2>2, <2>3 DEF RecordInv
<1>5. ASSUME NEW w \in Workers, WorkerKind(w) PROVE RecordInv(w)'
  <2>1. CASE Opens(w)
    <3>1. PICK s \in Stores : s = StoreOf[w]
      BY <1>1
    <3>2. PICK r \in Records, created \in BOOLEAN :
            tx' = [tx EXCEPT ![s] = <<[by |-> w, record |-> r, created |-> created]>>]
      BY <2>1, <3>1 DEF Opens
    <3>3. PICK a : a = [by |-> w, record |-> r, created |-> created]
      OBVIOUS
    <3>4. a.by = w /\ tx' = [tx EXCEPT ![s] = <<a>>]
      BY <3>2, <3>3
    <3>5. tx'[s] = <<a>>
      BY <1>1, <3>4 DEF StoresInv, StoreTypeOK
    <3>6. tx'[s] # <<>> /\ tx'[s][1] = a
      BY <3>5
    <3> QED
      BY <1>1, <2>1, <3>1, <3>4, <3>6, WorkerMoves DEF RecordInv
  <2>2. CASE Commits(w)
    <3>1. record[w] \in Rows(StoreOf[w])'
      BY <1>1, <2>2, CommitsEffect
    <3> QED
      BY <1>1, <2>2, <3>1, WorkerMoves DEF RecordInv
  <2>3. CASE Finds(w)
    <3>1. record'[w] \in Rows(StoreOf[w])'
      BY <1>1, <1>2, <2>3, WorkerMoves DEF RowOf
    <3> QED
      BY <1>1, <2>3, <3>1, WorkerMoves DEF RecordInv
  <2>4. CASE GoesOn(w)
    BY <1>1, <1>2, <2>4, WorkerMoves DEF RecordInv
  <2>5. CASE Returns(w) \/ RollsBack(w) \/ Leased(w) \/ Unlinks(w)
    BY <1>1, <2>5, WorkerMoves DEF RecordInv
  <2> QED
    BY <1>5, <2>1, <2>2, <2>3, <2>4, <2>5 DEF WorkerKind
<1>6. ASSUME NEW w \in Workers, WorkerKind(w) PROVE \A v \in Workers : RecordInv(v)'
  BY <1>4, <1>5, <1>6
<1> QED
  BY <1>3, <1>6 DEF LaneStep, WorkerKind

LEMMA DeliveredStep ==
  ASSUME LaneInv, Onward, LaneStep, OutboxStep
  PROVE  DeliveredIsRecorded'
<1>1. OutboxInv /\ LaneTypeOK /\ LeaseInv /\ \A w \in Workers : RecordInv(w) /\ StoreOf[w] \in Stores
  BY DeliveryAssumption DEF LaneInv
<1> SUFFICES ASSUME NEW k \in DOMAIN delivery', delivery'[k].status = "DELIVERED"
             PROVE  \E r \in RowOf(binding.store, k)' : HashOf(r) = delivery'[k].result
  BY DEF DeliveredIsRecorded
<1>2. CASE k \in DOMAIN delivery /\ delivery[k].status = "DELIVERED" /\ delivery'[k] = delivery[k]
  <2>1. binding # None
    BY <1>1, <1>2 DEF OutboxInv, BoundOnce
  <2>2. binding' = binding /\ binding.store \in Stores
    BY <1>1, <2>1 DEF Onward, OutboxInv, OutboxTypeOK
  <2>3. PICK r \in RowOf(binding.store, k) : HashOf(r) = delivery[k].result
    BY <1>2 DEF LaneInv, DeliveredIsRecorded
  <2>4. RowOf(binding.store, k)' = {r1 \in Rows(binding.store)' : r1.artifact = k}
    BY DEF RowOf
  <2>5. Rows(binding.store) \subseteq Rows(binding.store)'
    BY <2>2, RowsGrow DEF Rows
  <2> QED
    BY <1>2, <2>3, <2>4, <2>5 DEF RowOf
<1>3. ASSUME NEW w \in Workers, pc[w] = "deliver", record[w].artifact = k, delivery'[k].result = HashOf(record[w])
      PROVE  \E r \in RowOf(binding.store, k)' : HashOf(r) = delivery'[k].result
  <2>1. binding # None /\ binding.store = StoreOf[w] /\ binding' = binding
    BY <1>1, <1>3 DEF LeaseInv, Working, Storing, Onward
  <2>2. record[w] \in Rows(StoreOf[w]) /\ StoreOf[w] \in Stores
    BY <1>1, <1>3 DEF RecordInv
  <2>3. record[w] \in RowOf(StoreOf[w], k)'
    BY <1>3, <2>2, RowsGrow DEF RowOf
  <2>4. record[w] \in RowOf(binding.store, k)'
    BY <2>1, <2>3 DEF RowOf, Rows
  <2> QED
    BY <1>3, <2>4 DEF HashOf
<1> QED
  BY <1>1, <1>2, <1>3, StepDelivers

-----------------------------------------------------------------------------
(* The invariant of the lane.                                               *)

LEMMA LaneInit ==
  ASSUME Init
  PROVE  LaneInv
<1> USE DEF Init, OutboxInit, StoreInit
<1>1. OutboxTypeOK
  BY DEF OutboxTypeOK
<1>2. DOMAIN outbox = {} /\ DOMAIN delivery = {} /\ DOMAIN quarantine = {} /\ Len(outbox) = 0 /\ Len(delivery) = 0
  OBVIOUS
<1>3. OutboxInv
  <2>1. CreatedInOrder
    BY <1>2 DEF CreatedInOrder
  <2>2. CursorsContiguous
    BY <1>2 DEF CursorsContiguous
  <2>3. DeliveredAfterCreated /\ QuarantineLinked /\ HistoryAgrees /\ BoundOnce /\ HistoryLinked
    BY <1>2 DEF DeliveredAfterCreated, QuarantineLinked, HistoryAgrees, BoundOnce, HistoryLinked
  <2> QED
    BY <1>1, <1>2, <2>1, <2>2, <2>3 DEF OutboxInv, StructureAudit
<1>4. StoreTypeOK
  BY DEF StoreTypeOK
<1>5. ASSUME NEW s \in Stores PROVE StoreInv(s)
  <2>1. catalog[s] = <<>> /\ files[s] = {} /\ tx[s] = <<>> /\ DOMAIN catalog[s] = {} /\ Rows(s) = {}
    BY DEF Rows
  <2> QED
    BY <2>1 DEF StoreInv, ChainIntact, AppendInv
<1>6. LaneTypeOK
  BY DEF LaneTypeOK
<1>7. ASSUME NEW w \in Workers PROVE pc[w] = "idle" /\ RecordInv(w)
  BY DEF RecordInv
<1>8. LeaseInv
  BY <1>7 DEF LeaseInv, Working, Storing
<1>9. DeliveredIsRecorded
  BY <1>2 DEF DeliveredIsRecorded
<1> QED
  BY <1>3, <1>4, <1>5, <1>6, <1>7, <1>8, <1>9 DEF LaneInv, StoresInv

LEMMA LaneNext ==
  ASSUME LaneInv, [Next]_vars
  PROVE  LaneInv' /\ Onward /\ LaneStep /\ OutboxStep
<1>1. OutboxInv /\ StoresInv /\ LaneTypeOK /\ LeaseInv /\ \A w \in Workers : RecordInv(w)
  BY DEF LaneInv
<1>2. OutboxStep /\ LaneStep
  BY <1>1, StepKinds, LaneKinds
<1>3. OutboxInv'
  BY <1>1, <1>2, OutboxStepInv
<1>4. seen' \in [Managers \cup Workers -> Nat] /\ clock' \in Nat /\ clock <= clock' /\ faults' \in Nat /\ outgrown' \in Nat
  BY <1>1, StepClock
<1>5. Onward
  BY <1>1, <1>2, <1>4, StepGrows DEF Onward, LaneTypeOK
<1>6. StoresInv'
  BY <1>2, <1>5, StoresStep
<1>7. LaneTypeOK'
  <2>1. /\ pc' \in [Workers -> {"idle", "halted"} \cup Working]
        /\ lease' \in [Workers -> Leases \cup {None}]
        /\ record' \in [Workers -> Records \cup {None}]
    <3>1. CASE Stays
      BY <1>1, <3>1 DEF Stays, LaneTypeOK
    <3> QED
      BY <1>1, <1>2, <3>1, WorkerTypes DEF LaneStep, WorkerKind
  <2> QED
    BY <1>4, <2>1 DEF LaneTypeOK
<1>8. LeaseInv'
  BY <1>1, <1>2, <1>5, LeaseStep
<1>9. \A w \in Workers : RecordInv(w)'
  BY <1>2, RecordStep
<1>10. DeliveredIsRecorded'
  BY <1>2, <1>5, DeliveredStep
<1> QED
  BY <1>2, <1>3, <1>5, <1>6, <1>7, <1>8, <1>9, <1>10 DEF LaneInv

\* The outbox, the stores, and the workers between them are what LaneInv says, whatever
\* order persists, claims, appends, marks, faults and crashes come in.
THEOREM LaneInvariant == Spec => []LaneInv
<1>1. Init => LaneInv
  BY LaneInit
<1>2. LaneInv /\ [Next]_vars => LaneInv'
  BY LaneNext
<1> QED
  BY <1>1, <1>2, PTL DEF Spec

\* While no release with a stricter contract is deployed, the state audit that every later
\* transaction of the lane starts with passes: no interleaving of persist_signal_decision(),
\* claims and marks makes a database that _audit_runtime_outbox_state_connection() refuses.
THEOREM OutboxAuditableHolds == Spec => []OutboxAuditable
<1>1. LaneInv => OutboxAuditable
  <2> SUFFICES ASSUME LaneInv, outgrown = 0 PROVE StateAudit
    BY DEF OutboxAuditable
  <2>1. OutboxInv
    BY DEF LaneInv
  <2>2. PayloadsValid
    BY <2>1 DEF PayloadsValid, Unreadable, OutboxInv
  <2> QED
    BY <2>1, <2>2 DEF StateAudit, OutboxInv
<1> QED
  BY <1>1, LaneInvariant, PTL

\* A finished row is never touched again, a cursor never goes back, and a blocked lane
\* stands still: mark_runtime_outbox_delivered(), the retries, quarantines and claims.
THEOREM TerminalIsFinalHolds == Spec => TerminalIsFinal
<1>1. LaneInv /\ [Next]_vars =>
        [/\ \A k \in DOMAIN delivery : block # None \/ Terminal(delivery[k]) => delivery'[k] = delivery[k]
         /\ \A i \in Ids : cursor[i] <= cursor'[i]
         /\ block # None => block' = block /\ cursor' = cursor]_vars
  <2> SUFFICES ASSUME LaneInv, [Next]_vars
               PROVE  /\ \A k \in DOMAIN delivery : block # None \/ Terminal(delivery[k]) => delivery'[k] = delivery[k]
                      /\ \A i \in Ids : cursor[i] <= cursor'[i]
                      /\ block # None => block' = block /\ cursor' = cursor
    OBVIOUS
  <2>1. OutboxInv /\ LaneTypeOK /\ LeaseInv /\ OutboxStep
    BY LaneNext DEF LaneInv
  <2> QED
    BY <2>1, StepIsFinal
<1> QED
  BY <1>1, LaneInvariant, PTL DEF Spec, TerminalIsFinal

-----------------------------------------------------------------------------
(* The files of the records.                                                *)

FileInv == LaneInv /\ HandlerInv /\ FilesInv

\* The handler of a failed append is alone in its store, and unlinks no file of a row.
LEMMA HandlerStep ==
  ASSUME Undisturbed, LaneInv, HandlerInv, LaneStep
  PROVE  HandlerInv'
<1>1. StoresInv /\ LaneTypeOK /\ \A w \in Workers : RecordInv(w) /\ StoreOf[w] \in Stores
  BY DeliveryAssumption DEF LaneInv
<1> DEFINE Alone(v) == \A u \in Workers : StoreOf[u] = StoreOf[v] => u = v
           Safe(v) == /\ Alone(v)
                      /\ pc[v] = "unlink" => record[v] \notin Rows(StoreOf[v])
<1>2. \A v \in Workers : pc[v] \in {"lookup", "unlink"} => Safe(v)
  BY DEF HandlerInv
<1>3. \A s \in Stores : catalog'[s] = catalog[s] => Rows(s)' = Rows(s)
  BY DEF Rows
<1>4. ASSUME Stays, NEW v \in Workers, pc'[v] \in {"lookup", "unlink"} PROVE Safe(v)'
  BY <1>1, <1>2, <1>3, <1>4 DEF Stays, storeVars
<1>5. ASSUME NEW w \in Workers, WorkerKind(w), NEW v \in Workers, v # w, pc'[v] \in {"lookup", "unlink"}
      PROVE  Safe(v)'
  <2>1. pc'[v] = pc[v] /\ record'[v] = record[v] /\ Safe(v)
    BY <1>1, <1>2, <1>5, WorkerFrame
  <2>2. StoreOf[w] # StoreOf[v]
    BY <1>5, <2>1
  <2>3. Rows(StoreOf[v])' = Rows(StoreOf[v])
    BY <1>1, <1>3, <1>5, <2>2, WorkerFrame
  <2> QED
    BY <2>1, <2>3
<1>6. ASSUME NEW w \in Workers, WorkerKind(w), pc'[w] \in {"lookup", "unlink"} PROVE Safe(w)'
  <2>1. CASE RollsBack(w)
    <3>1. pc'[w] = "lookup"
      BY <1>1, <1>6, <2>1, WorkerMoves
    <3>2. faults < MaxFaults
      BY <1>1, <2>1, <3>1 DEF RollsBack, LaneTypeOK
    <3>3. MaxFaults # 0
      BY <1>1, <3>2 DEF LaneTypeOK
    <3> QED
      BY <3>1, <3>3 DEF Undisturbed
  <2>2. CASE GoesOn(w)
    <3>1. pc'[w] = "unlink" /\ record'[w] = record[w]
      BY <1>1, <1>6, <2>2, WorkerMoves
    <3>2. pc[w] = "lookup" /\ UnlinkAllowed(StoreOf[w], record[w]) /\ UNCHANGED catalog
      BY <1>1, <2>2, <3>1 DEF GoesOn, LaneTypeOK, storeVars
    <3>3. record[w] \notin Rows(StoreOf[w])
      BY <3>2 DEF UnlinkAllowed, RowOf
    <3>4. Rows(StoreOf[w])' = Rows(StoreOf[w])
      BY <1>1, <1>3, <3>2
    <3> QED
      BY <1>2, <3>1, <3>2, <3>3, <3>4
  <2>3. ~(Returns(w) \/ Leased(w) \/ Finds(w) \/ Opens(w) \/ Commits(w) \/ Unlinks(w))
    BY <1>1, <1>6, WorkerMoves
  <2> QED
    BY <1>6, <2>1, <2>2, <2>3 DEF WorkerKind
<1> HIDE DEF Safe
<1>7. \A v \in Workers : pc'[v] \in {"lookup", "unlink"} => Safe(v)'
  BY <1>4, <1>5, <1>6 DEF LaneStep, WorkerKind
<1> QED
  BY <1>7 DEF HandlerInv, Safe

LEMMA FilesStep ==
  ASSUME LaneInv, HandlerInv, FilesInv, LaneStep
  PROVE  FilesInv'
<1>1. StoresInv /\ LaneTypeOK /\ \A w \in Workers : RecordInv(w) /\ StoreOf[w] \in Stores
  BY DeliveryAssumption DEF LaneInv
<1> DEFINE Kept(s) == Rows(s) \subseteq files[s] /\ (tx[s] # <<>> => tx[s][1].record \in files[s])
<1>2. \A s \in Stores : Kept(s)
  BY DEF FilesInv, FilesComplete
<1>3. \A s \in Stores : catalog'[s] = catalog[s] => Rows(s)' = Rows(s)
  BY DEF Rows
<1>4. ASSUME NEW s \in Stores, catalog'[s] = catalog[s], files[s] \subseteq files'[s], tx'[s] = tx[s] \/ tx'[s] = <<>>
      PROVE  Kept(s)'
  BY <1>2, <1>3, <1>4
<1>5. ASSUME NEW s \in Stores, UNCHANGED storeVars PROVE Kept(s)'
  BY <1>4, <1>5 DEF storeVars
<1>6. ASSUME NEW w \in Workers, WorkerKind(w), NEW s \in Stores PROVE Kept(s)'
  <2>1. CASE s # StoreOf[w]
    <3>1. catalog'[s] = catalog[s] /\ files'[s] = files[s] /\ tx'[s] = tx[s]
      BY <1>1, <1>6, <2>1, WorkerFrame
    <3> QED
      BY <1>4, <3>1
  <2>2. CASE s = StoreOf[w] /\ RollsBack(w)
    <3>1. catalog'[s] = catalog[s] /\ files'[s] = files[s] /\ tx'[s] = <<>>
      BY <1>1, <2>2 DEF RollsBack, Rollback, StoresInv, StoreTypeOK
    <3> QED
      BY <1>4, <3>1
  <2>3. CASE s = StoreOf[w] /\ Opens(w)
    <3>1. PICK r \in Records, created \in BOOLEAN :
            /\ tx' = [tx EXCEPT ![s] = <<[by |-> w, record |-> r, created |-> created]>>]
            /\ files' = [files EXCEPT ![s] = files[s] \cup {r}]
            /\ UNCHANGED catalog
      BY <2>3 DEF Opens
    <3>2. PICK a : a = [by |-> w, record |-> r, created |-> created]
      OBVIOUS
    <3>3. a.record = r /\ tx' = [tx EXCEPT ![s] = <<a>>]
      BY <3>1, <3>2
    <3>4. tx'[s] = <<a>> /\ files'[s] = files[s] \cup {r} /\ Rows(s)' = Rows(s)
      BY <1>1, <1>3, <3>1, <3>3 DEF StoresInv, StoreTypeOK
    <3>5. tx'[s][1].record \in files'[s]
      BY <3>3, <3>4
    <3> QED
      BY <1>2, <3>4, <3>5
  <2>4. CASE s = StoreOf[w] /\ Commits(w)
    <3>1. /\ Rows(s)' = Rows(s) \cup {record[w]} /\ files'[s] = files[s] /\ tx'[s] = <<>>
      BY <1>1, <2>4, CommitsEffect
    <3>2. tx[s] # <<>> /\ tx[s][1].by = w
      BY <1>1, <2>4 DEF Commits, RecordInv
    <3>3. tx[s][1].record = record[w]
      BY <1>1, <3>2 DEF StoresInv, StoreInv, AppendInv
    <3> QED
      BY <1>2, <3>1, <3>2, <3>3
  <2>5. CASE s = StoreOf[w] /\ Unlinks(w)
    <3>1. pc[w] = "unlink" /\ catalog'[s] = catalog[s] /\ files'[s] = files[s] \ {record[w]} /\ tx'[s] = tx[s]
      BY <1>1, <2>5 DEF Unlinks, Unlink, StoresInv, StoreTypeOK
    <3>2. record[w] \notin Rows(s) /\ \A v \in Workers : StoreOf[v] = s => v = w
      BY <2>5, <3>1 DEF HandlerInv
    <3>3. tx[s] = <<>>
      <4> SUFFICES ASSUME tx[s] # <<>> PROVE FALSE
        OBVIOUS
      <4>1. tx[s][1].by \in Workers /\ StoreOf[tx[s][1].by] = s /\ pc[tx[s][1].by] = "insert"
        BY <1>1, OpenAppend DEF StoresInv, StoreInv, AppendInv
      <4> QED
        BY <3>1, <3>2, <4>1
    <3> QED
      BY <1>2, <1>3, <3>1, <3>2, <3>3
  <2>6. Returns(w) \/ Leased(w) \/ GoesOn(w) \/ Finds(w) => UNCHANGED storeVars
    BY DEF Returns, Leased, GoesOn, Finds
  <2> QED
    BY <1>5, <1>6, <2>1, <2>2, <2>3, <2>4, <2>5, <2>6 DEF WorkerKind
<1> HIDE DEF Kept
<1>7. \A s \in Stores : Kept(s)'
  BY <1>5, <1>6 DEF LaneStep, WorkerKind, Stays
<1> QED
  BY <1>7 DEF FilesInv, FilesComplete, Kept

\* Every catalogued record has its file, while no handler of a failed append runs next to
\* another worker of its store.
THEOREM FileInvariant ==
  ASSUME Undisturbed
  PROVE  Spec => []FileInv
<1>1. Init => FileInv
  <2> SUFFICES ASSUME Init PROVE FileInv
    OBVIOUS
  <2>1. HandlerInv
    BY DEF Init, HandlerInv
  <2>2. FilesInv
    BY DEF Init, StoreInit, FilesInv, FilesComplete, Rows
  <2> QED
    BY <2>1, <2>2, LaneInit DEF FileInv
<1>2. FileInv /\ [Next]_vars => FileInv'
  BY LaneNext, HandlerStep, FilesStep DEF FileInv
<1> QED
  BY <1>1, <1>2, PTL DEF Spec

\* _validate_state() never refuses what append() committed: the chain of hashes is intact
\* and no record lacks its file, whatever worker dies where.
THEOREM StoreIntactHolds ==
  ASSUME Undisturbed
  PROVE  Spec => []StoreIntact
<1>1. FileInv => StoreIntact
  BY DEF FileInv, LaneInv, StoresInv, StoreInv, FilesInv, StoreIntact, Valid
<1> QED
  BY <1>1, FileInvariant, PTL

-----------------------------------------------------------------------------
(* The chain of transitions.                                                *)

\* The last of the first n transitions of the signal s ended in x; None: there is none.
Ends(rows, s, n, x) ==
  \/ x = None /\ \A i \in 1..n : rows[i].signal # s
  \/ \E i \in 1..n : rows[i].signal = s /\ rows[i].to = x /\ \A h \in i + 1..n : rows[h].signal # s
Current(s) == IF signals[s] = None THEN None ELSE StateOf[signals[s]]
ChainInv ==
  /\ \A j \in DOMAIN history : Ends(history, history[j].signal, j - 1, history[j].from)
  /\ \A s \in Signals : Ends(history, s, Len(history), Current(s))
  /\ \A j, k \in DOMAIN outbox : outbox[j].decision = outbox[k].decision => j = k

LEMMA EndsStays ==
  ASSUME NEW rows, NEW more, NEW s, NEW n \in Nat, NEW x, Ends(rows, s, n, x), \A i \in 1..n : more[i] = rows[i]
  PROVE  Ends(more, s, n, x)
<1>1. CASE x = None /\ \A i \in 1..n : rows[i].signal # s
  BY <1>1 DEF Ends
<1>2. ASSUME NEW i \in 1..n, rows[i].signal = s, rows[i].to = x, \A h \in i + 1..n : rows[h].signal # s
      PROVE  Ends(more, s, n, x)
  <2>1. \A h \in i + 1..n : h \in 1..n /\ more[h].signal # s
    BY <1>2
  <2> QED
    BY <1>2, <2>1 DEF Ends
<1> QED
  BY <1>1, <1>2 DEF Ends

LEMMA EndsNext ==
  ASSUME NEW rows, NEW s, NEW n \in Nat, NEW x
  PROVE  /\ rows[n + 1].signal = s => Ends(rows, s, n + 1, rows[n + 1].to)
         /\ rows[n + 1].signal # s /\ Ends(rows, s, n, x) => Ends(rows, s, n + 1, x)
<1>1. ASSUME rows[n + 1].signal = s PROVE Ends(rows, s, n + 1, rows[n + 1].to)
  <2>1. n + 1 \in 1..(n + 1) /\ \A h \in n + 1 + 1..n + 1 : rows[h].signal # s
    OBVIOUS
  <2> QED
    BY <1>1, <2>1 DEF Ends
<1>2. ASSUME rows[n + 1].signal # s, Ends(rows, s, n, x) PROVE Ends(rows, s, n + 1, x)
  <2>1. CASE x = None /\ \A i \in 1..n : rows[i].signal # s
    <3>1. \A i \in 1..(n + 1) : rows[i].signal # s
      <4>1. \A i \in 1..(n + 1) : i \in 1..n \/ i = n + 1
        OBVIOUS
      <4> QED
        BY <1>2, <2>1, <4>1
    <3> QED
      BY <2>1, <3>1 DEF Ends
  <2>2. ASSUME NEW i \in 1..n, rows[i].signal = s, rows[i].to = x, \A h \in i + 1..n : rows[h].signal # s
        PROVE  Ends(rows, s, n + 1, x)
    <3>1. i \in 1..(n + 1) /\ \A h \in i + 1..n + 1 : h \in i + 1..n \/ h = n + 1
      OBVIOUS
    <3>2. \A h \in i + 1..n + 1 : rows[h].signal # s
      BY <1>2, <2>2, <3>1
    <3> QED
      BY <2>2, <3>1, <3>2 DEF Ends
  <2> QED
    BY <1>2, <2>1, <2>2 DEF Ends
<1> QED
  BY <1>1, <1>2

\* What a persist makes of the signal and its history.
LEMMA PersistedChain ==
  ASSUME OutboxInv, ChainInv, NEW c \in Candidates, SnapshotCurrent(c),
         signals' = [signals EXCEPT ![c.signal] = c.target],
         IF c.evidence = "refresh" THEN history' = history ELSE history' = Append(history, HistoryRow(c))
  PROVE  /\ \A j \in DOMAIN history' : Ends(history', history'[j].signal, j - 1, history'[j].from)
         /\ \A s \in Signals : Ends(history', s, Len(history'), Current(s)')
<1>1. /\ history \in Seq(Transitions) /\ DOMAIN history = 1..Len(history) /\ Len(history) \in Nat
      /\ signals \in [Signals -> DOMAIN StateOf \cup {None}]
  BY OutboxDomains DEF OutboxTypeOK
<1>2. /\ c.signal \in Signals /\ c.target # None /\ signals[c.signal] = c.prev
      /\ \A s \in Signals : signals'[s] = IF s = c.signal THEN c.target ELSE signals[s]
  BY <1>1, CandidateType DEF SnapshotCurrent
<1>3. \A s \in Signals : Current(s)' = IF s = c.signal THEN StateOf[c.target] ELSE Current(s)
  BY <1>2 DEF Current
<1>4. CASE c.evidence = "refresh"
  <2>1. history' = history /\ c.prev # None /\ StateOf[c.prev] = StateOf[c.target]
    BY <1>4 DEF SnapshotCurrent
  <2>2. \A s \in Signals : Current(s)' = Current(s)
    BY <1>2, <1>3, <2>1 DEF Current
  <2> QED
    BY <2>1, <2>2 DEF ChainInv
<1>5. CASE c.evidence # "refresh"
  <2>1. PICK n \in Nat, h \in Transitions : n = Len(history) /\ h = HistoryRow(c)
    BY <1>1, CandidateType
  <2>2. h.signal = c.signal /\ h.to = StateOf[c.target] /\ h.from = Current(c.signal)
    BY <1>2, <2>1, CandidateType DEF HistoryRow, Current
  <2>3. /\ history' \in Seq(Transitions) /\ Len(history') = n + 1 /\ history'[n + 1] = h
        /\ \A i \in 1..n : history'[i] = history[i]
    BY <1>1, <1>5, <2>1, Appended
  <2>4. DOMAIN history = 1..n /\ DOMAIN history' = 1..(n + 1)
    BY <1>1, <2>1, <2>3, LenProperties
  <2>5. ASSUME NEW s \in Signals PROVE Ends(history', s, n, Current(s))
    <3>1. Ends(history, s, n, Current(s))
      BY <2>1 DEF ChainInv
    <3> QED
      BY <2>3, <3>1, EndsStays
  <2>6. ASSUME NEW j \in 1..(n + 1) PROVE Ends(history', history'[j].signal, j - 1, history'[j].from)
    <3>1. CASE j \in 1..n
      <4>1. PICK m \in Nat : m = j - 1 /\ history'[j] = history[j]
        BY <2>3, <3>1
      <4>2. Ends(history, history[j].signal, m, history[j].from)
        BY <2>4, <3>1, <4>1 DEF ChainInv
      <4>3. \A i \in 1..m : history'[i] = history[i]
        BY <2>3, <3>1, <4>1
      <4>4. Ends(history', history[j].signal, m, history[j].from)
        BY <4>2, <4>3, EndsStays
      <4> QED
        BY <4>1, <4>4
    <3>2. CASE j = n + 1
      <4>1. j - 1 = n /\ history'[j] = h
        BY <2>3, <3>2
      <4> QED
        BY <1>2, <2>2, <2>5, <4>1
    <3> QED
      BY <3>1, <3>2
  <2>7. ASSUME NEW s \in Signals PROVE Ends(history', s, n + 1, Current(s)')
    <3>1. CASE s = c.signal
      <4>1. history'[n + 1].signal = s /\ history'[n + 1].to = Current(s)'
        BY <1>3, <2>2, <2>3, <3>1
      <4> QED
        BY <4>1, EndsNext
    <3>2. CASE s # c.signal
      <4>1. history'[n + 1].signal # s /\ Current(s)' = Current(s)
        BY <1>3, <2>2, <2>3, <3>2
      <4> QED
        BY <2>5, <4>1, EndsNext
    <3> QED
      BY <3>1, <3>2
  <2> QED
    BY <2>3, <2>4, <2>6, <2>7, SMTT(60)
<1> QED
  BY <1>4, <1>5

LEMMA ChainStep ==
  ASSUME OutboxInv, LaneTypeOK, LeaseInv, ChainInv, OutboxStep
  PROVE  ChainInv'
<1>1. CASE UNCHANGED <<signals, history, outbox>>
  BY <1>1 DEF ChainInv, Current
<1>2. CASE Outgrows
  BY <1>2, OutgrowsEffect DEF ChainInv, Current
<1>3. CASE Persists
  <2>1. PICK c \in Candidates, at \in Nat :
          PersistWithEvidence(c, at) \/ PersistQuarantined(c, at) \/ PersistPlain(c)
    BY <1>3 DEF Persists
  <2>2. /\ SnapshotCurrent(c) /\ signals' = [signals EXCEPT ![c.signal] = c.target]
        /\ IF c.evidence = "refresh" THEN history' = history ELSE history' = Append(history, HistoryRow(c))
    BY <2>1 DEF PersistWithEvidence, PersistQuarantined, PersistPlain
  <2>3. /\ \A j \in DOMAIN history' : Ends(history', history'[j].signal, j - 1, history'[j].from)
        /\ \A s \in Signals : Ends(history', s, Len(history'), Current(s)')
    BY <2>2, PersistedChain
  <2>4. \A j, k \in DOMAIN outbox' : outbox'[j].decision = outbox'[k].decision => j = k
    <3>1. CASE PersistWithEvidence(c, at)
      <4>1. PICK o : outbox' = Append(outbox, o) /\ o.decision = c
        BY <3>1 DEF PersistWithEvidence
      <4>2. outbox \in Seq(Occurrences) /\ DOMAIN outbox = 1..Len(outbox) /\ Len(outbox) \in Nat
        BY OutboxDomains DEF OutboxTypeOK
      <4>3. /\ DOMAIN outbox' = 1..(Len(outbox) + 1)
            /\ \A k \in 1..Len(outbox) : outbox'[k] = outbox[k]
            /\ outbox'[Len(outbox) + 1] = o
        BY <4>1, <4>2
      <4>4. \A k \in DOMAIN outbox : outbox[k].decision # c
        BY <2>2, <3>1 DEF PersistWithEvidence, SnapshotCurrent, OccurrencesOf
      <4>5. \A k \in DOMAIN outbox' : k \in DOMAIN outbox \/ k = Len(outbox) + 1
        BY <4>2, <4>3
      <4>6. ASSUME NEW j \in DOMAIN outbox', NEW k \in DOMAIN outbox', outbox'[j].decision = outbox'[k].decision
            PROVE  j = k
        <5>1. CASE j \in DOMAIN outbox /\ k \in DOMAIN outbox
          BY <4>2, <4>3, <4>6, <5>1 DEF ChainInv
        <5> QED
          BY <4>1, <4>2, <4>3, <4>4, <4>5, <4>6, <5>1
      <4> QED
        BY <4>6
    <3> QED
      BY <2>1, <3>1 DEF PersistQuarantined, PersistPlain, ChainInv
  <2> QED
    BY <2>3, <2>4 DEF ChainInv
<1>4. CASE Claims
  BY <1>1, <1>4 DEF Claims, ClaimNothing, ClaimNext
<1>5. CASE Delivers
  <2>1. ASSUME NEW w \in Workers, NEW at, NEW result, MarkDelivered(IdOf[w], lease[w], result, at)
        PROVE  UNCHANGED <<signals, history, outbox>>
    BY <2>1 DEF MarkDelivered
  <2> QED
    BY <1>1, <1>5, <2>1 DEF Delivers
<1>6. CASE Retries
  BY <1>1, <1>6, RetriesEffect
<1>7. CASE Quarantines
  BY <1>1, <1>7, QuarantinesEffect
<1>8. CASE Blocks \/ UNCHANGED <<outboxVars, outgrown>>
  BY <1>1, <1>8 DEF Blocks, outboxVars
<1> QED
  BY <1>2, <1>3, <1>4, <1>5, <1>6, <1>7, <1>8 DEF OutboxStep

LEMMA ChainFollows ==
  ASSUME OutboxInv, ChainInv
  PROVE  HistoryIsChain
<1>1. DOMAIN history = 1..Len(history) /\ Len(history) \in Nat
  BY OutboxDomains
<1>2. ASSUME NEW j \in DOMAIN history
      PROVE  LET before == {i \in 1..j - 1 : history[i].signal = history[j].signal}
                 last == CHOOSE i \in before : \A h \in before : h <= i
             IN history[j].from = IF before = {} THEN None ELSE history[last].to
  <2> DEFINE before == {i \in 1..j - 1 : history[i].signal = history[j].signal}
             last == CHOOSE i \in before : \A h \in before : h <= i
  <2>1. j \in Nat /\ Ends(history, history[j].signal, j - 1, history[j].from)
    BY <1>1 DEF ChainInv
  <2>2. CASE before = {}
    <3>1. \A i \in 1..j - 1 : history[i].signal # history[j].signal
      BY <2>2
    <3>2. history[j].from = None
      BY <2>1, <3>1 DEF Ends
    <3> QED
      BY <2>2, <3>2
  <2>3. CASE before # {}
    <3>1. PICK i \in 1..j - 1 : /\ history[i].signal = history[j].signal /\ history[i].to = history[j].from
                                /\ \A h \in i + 1..j - 1 : history[h].signal # history[j].signal
      BY <2>1, <2>3 DEF Ends
    <3>2. i \in before
      BY <3>1
    <3>3. \A h \in before : h <= i
      <4> SUFFICES ASSUME NEW h \in before PROVE h <= i
        OBVIOUS
      <4>1. h \in 1..j - 1 /\ h \notin i + 1..j - 1
        BY <3>1
      <4> QED
        BY <2>1, <4>1
    <3>4. last = i
      <4>1. last \in before /\ \A h \in before : h <= last
        BY <3>2, <3>3
      <4>2. last <= i /\ i <= last /\ last \in Nat /\ i \in Nat
        BY <2>1, <3>2, <3>3, <4>1
      <4> QED
        BY <4>2
    <3> HIDE DEF before, last
    <3> QED
      BY <2>3, <3>1, <3>4
  <2> QED
    BY <2>2, <2>3
<1> QED
  BY <1>2 DEF HistoryIsChain, ChainInv

\* Every occurrence is in one store, once, and nothing is written into any other.
LEMMA OnceFollows ==
  ASSUME LaneInv
  PROVE  StoredOnce
<1>1. \A s \in Stores : StoreInv(s)
  BY DEF LaneInv, StoresInv
<1>2. ASSUME NEW s \in Stores, NEW t \in Stores, NEW i \in DOMAIN catalog[s], NEW j \in DOMAIN catalog[t],
             catalog[s][i].artifact = catalog[t][j].artifact
      PROVE  s = t /\ i = j
  <2>1. catalog[s] # <<>> /\ catalog[t] # <<>>
    OBVIOUS
  <2>2. s = t
    BY <1>1, <2>1 DEF StoreInv
  <2> QED
    BY <1>1, <1>2, <2>2 DEF StoreInv
<1> QED
  BY <1>1, <1>2 DEF StoredOnce, StoreInv

LEMMA DeliveredFollows ==
  ASSUME FileInv
  PROVE  DeliveredIsStored
<1> SUFFICES ASSUME NEW k \in DOMAIN delivery, delivery[k].status = "DELIVERED"
             PROVE  \E r \in RowOf(binding.store, k) : HashOf(r) = delivery[k].result /\ r \in files[binding.store]
  BY DEF DeliveredIsStored
<1>1. LaneInv /\ FilesInv
  BY DEF FileInv
<1>2. binding.store \in Stores
  BY <1>1 DEF LaneInv, OutboxInv, OutboxTypeOK, BoundOnce
<1>3. PICK r \in RowOf(binding.store, k) : HashOf(r) = delivery[k].result
  BY <1>1 DEF LaneInv, DeliveredIsRecorded
<1> QED
  BY <1>1, <1>2, <1>3 DEF FilesInv, FilesComplete, RowOf

\* The history of every signal is a chain, a decision is one occurrence, and an occurrence
\* has at most one record in all stores, however the disk fails and whoever runs beside whom.
THEOREM ChainInvariant == Spec => [](ChainInv /\ HistoryIsChain /\ StoredOnce)
<1>1. Init => ChainInv
  BY DEF Init, OutboxInit, ChainInv, Ends, Current
<1>2. LaneInv /\ ChainInv /\ [Next]_vars => ChainInv'
  BY LaneNext, ChainStep DEF LaneInv
<1>3. LaneInv /\ ChainInv => HistoryIsChain /\ StoredOnce
  BY ChainFollows, OnceFollows DEF LaneInv
<1> QED
  BY <1>1, <1>2, <1>3, LaneInvariant, PTL DEF Spec

\* From the decision to its record: what several managers decide is one chain, what several
\* workers deliver of it is stored once, and what is marked delivered is there, file included.
THEOREM DecidedAndStoredOnceHolds ==
  ASSUME Undisturbed
  PROVE  Spec => []DecidedAndStoredOnce
<1>1. FileInv => DeliveredIsStored
  BY DeliveredFollows
<1>2. HistoryIsChain /\ StoredOnce /\ DeliveredIsStored => DecidedAndStoredOnce
  BY DEF DecidedAndStoredOnce
<1> QED
  BY <1>1, <1>2, FileInvariant, ChainInvariant, PTL

-----------------------------------------------------------------------------
(* RuntimeMigration.                                                        *)

Versions == 0..LatestVersion
StoreNames == {"old", "none"} \cup Calls
Contents == [version : Versions, store : StoreNames, applied : Nat, sound : BOOLEAN, legacy : BOOLEAN, rows : Nat]

\* Where a call has read what it compares with, and where it holds the lock.
Prepared == {"read", "checked", "rehearsed", "compared", "locked", "saved"}
Started == {"hashed", "inspected"} \cup Prepared
Holding == {"locked", "saved"}

CopiesInv ==
  /\ main \in Contents /\ (wal = {} \/ \E c \in Contents : wal = {c})
  /\ backups \in [BackupPaths -> SUBSET Contents]
  /\ Database.legacy => Database.version \in {1, 2}
  /\ writes \in Nat /\ Database.rows = writes

\* What a call has read, and what of it still stands: under the lock everything, after
\* the commit what no transaction of the server changes.
CallInv(k) ==
  LET c == calls[k]
  IN /\ "at" \in DOMAIN c /\ c.at \in Started \cup {"idle", "committed", "reported", "refused", "dead"}
     /\ c.at \in Started =>
          /\ {"apply", "path", "time"} \subseteq DOMAIN c
          /\ c.path \in BackupPaths /\ c.time \in Nat
     /\ c.at \in {"inspected"} \cup Prepared => "inspection" \in DOMAIN c
     /\ c.at \in Prepared => "source" \in DOMAIN c /\ c.source \in Contents
     /\ c.at \in Holding => locker = {k}
     /\ c.at = "saved" =>
          /\ InspectTarget(Database) = c.inspection /\ Database = c.source
          /\ backups[c.path] = {Database}
     /\ c.at # "idle" /\ "apply" \notin DOMAIN c => Database.version = LatestVersion
     /\ c.at = "committed" =>
          /\ {"source", "inspection", "final"} \subseteq DOMAIN c /\ "apply" \notin DOMAIN c
          /\ c.final = InspectTarget(Database)
          /\ \A d \in migrated : d.by = k =>
               c.inspection.version < LatestVersion /\ c.source.version = c.inspection.version

\* Only a call that is done has migrated, and never against what it rehearsed.
MigratedInv ==
  \A d \in migrated :
    /\ d.by \in Calls /\ calls[d.by].at \in {"committed", "reported", "dead"}
    /\ d.path \in BackupPaths /\ backups[d.path] = {d.before}
    /\ d.before = d.rehearsed /\ ~d.before.legacy
MigrationInv ==
  /\ CopiesInv /\ MigratedInv
  /\ DOMAIN calls = Calls /\ \A k \in Calls : CallInv(k)

-----------------------------------------------------------------------------
(* The database.                                                            *)

LEMMA DatabaseIsLog ==
  ASSUME NEW c, wal = {c}
  PROVE  Database = c
BY DEF Database

LEMMA DatabaseType ==
  ASSUME CopiesInv
  PROVE  Database \in Contents
<1>1. CASE wal = {}
  BY <1>1 DEF CopiesInv, Database
<1>2. CASE \E c \in Contents : wal = {c}
  BY <1>2, DatabaseIsLog
<1> QED
  BY <1>1, <1>2 DEF CopiesInv

\* What a step of another actor leaves a call.
CallKept(k) ==
  /\ calls'[k] = calls[k]
  /\ Database.version = LatestVersion =>
       Database'.version = LatestVersion /\ InspectTarget(Database)' = InspectTarget(Database)
  /\ calls[k].at \in Holding => locker' = locker
  /\ calls[k].at = "saved" =>
       Database' = Database /\ backups'[calls[k].path] = backups[calls[k].path]
  /\ \A d \in migrated' : d.by = k => d \in migrated

LEMMA CallStays ==
  ASSUME NEW k \in Calls, CallInv(k), CallKept(k)
  PROVE  CallInv(k)'
<1> DEFINE c == calls[k]
<1>1. c' = c
  BY DEF CallKept
<1>2. ASSUME c.at \in Holding PROVE locker' = {k}
  BY <1>2 DEF CallInv, CallKept
<1>3. ASSUME c.at = "saved"
      PROVE  InspectTarget(Database)' = c.inspection /\ Database' = c.source /\ backups'[c.path] = {Database'}
  <2>1. Database' = Database
    BY <1>3 DEF CallKept
  <2>2. InspectTarget(Database)' = InspectTarget(Database)
    BY <2>1 DEF InspectTarget
  <2> QED
    BY <1>3, <2>1, <2>2 DEF CallInv, CallKept
<1>4. ASSUME c.at # "idle", "apply" \notin DOMAIN c PROVE Database'.version = LatestVersion
  BY <1>4 DEF CallInv, CallKept
<1>5. ASSUME c.at = "committed"
      PROVE  /\ c.final = InspectTarget(Database)'
             /\ \A d \in migrated' : d.by = k =>
                  c.inspection.version < LatestVersion /\ c.source.version = c.inspection.version
  BY <1>5 DEF CallInv, CallKept
<1> HIDE DEF c
<1> QED
  BY <1>1, <1>2, <1>3, <1>4, <1>5 DEF CallInv, c

\* An inspection looks at the version, the store and the soundness only.
LEMMA InspectionOf ==
  ASSUME NEW c, NEW d, c.version = d.version, c.store = d.store, c.sound = d.sound
  PROVE  InspectTarget(c) = InspectTarget(d)
BY Zenon DEF InspectTarget

LEMMA InspectedVersion ==
  ASSUME NEW c
  PROVE  InspectTarget(c).version = c.version
BY DEF InspectTarget

-----------------------------------------------------------------------------
(* Steps of a call.                                                         *)

LEMMA GoesEffect ==
  ASSUME NEW k \in Calls, DOMAIN calls = Calls, "at" \in DOMAIN calls[k], NEW place, Goes(k, place)
  PROVE  /\ DOMAIN calls' = Calls
         /\ \A j \in Calls : j # k => calls'[j] = calls[j]
         /\ DOMAIN calls'[k] = DOMAIN calls[k] /\ calls'[k].at = place
         /\ \A f \in DOMAIN calls[k] : f # "at" => calls'[k][f] = calls[k][f]
<1> DEFINE c == [calls[k] EXCEPT !.at = place]
<1>1. DOMAIN c = DOMAIN calls[k] /\ c.at = place /\ \A f \in DOMAIN calls[k] : f # "at" => c[f] = calls[k][f]
  OBVIOUS
<1>2. calls' = [calls EXCEPT ![k] = c]
  BY DEF Goes
<1> HIDE DEF c
<1>3. calls'[k] = c /\ \A j \in Calls : j # k => calls'[j] = calls[j]
  BY <1>2
<1>4. DOMAIN calls' = Calls
  BY <1>2
<1> QED
  BY <1>1, <1>3, <1>4

\* A call that goes on and touches nothing else: its own invariant is all there is to show.
LEMMA CallMoves ==
  ASSUME MigrationInv, NEW k \in Calls, DOMAIN calls' = Calls, \A j \in Calls : j # k => calls'[j] = calls[j],
         UNCHANGED <<main, wal, locker, backups, writes, migrated>>, CallInv(k)',
         calls[k].at \in {"committed", "reported", "dead"} =>
           calls'[k].at \in {"committed", "reported", "dead"} \/ \A d \in migrated : d.by # k
  PROVE  MigrationInv'
<1>1. Database' = Database
  BY DEF Database
<1>2. CopiesInv'
  BY <1>1 DEF MigrationInv, CopiesInv
<1>3. ASSUME NEW j \in Calls, j # k PROVE CallInv(j)'
  <2>1. InspectTarget(Database)' = InspectTarget(Database)
    BY <1>1 DEF InspectTarget
  <2>2. CallKept(j)
    BY <1>1, <1>3, <2>1 DEF CallKept
  <2> QED
    BY <1>3, <2>2, CallStays DEF MigrationInv
<1>4. MigratedInv'
  BY DEF MigrationInv, MigratedInv
<1> QED
  BY <1>2, <1>3, <1>4 DEF MigrationInv

LEMMA GoesInv ==
  ASSUME MigrationInv, NEW k \in Calls, NEW place, Goes(k, place),
         UNCHANGED <<main, wal, locker, backups, writes, migrated>>,
         calls[k].at \in Started,
         \/ place \in {"refused", "dead"}
         \/ calls[k].at \in Prepared /\ place \in Prepared \ Holding
         \/ place = "reported"
  PROVE  MigrationInv'
<1>1. CallInv(k) /\ DOMAIN calls = Calls
  BY DEF MigrationInv
<1>2. /\ DOMAIN calls' = Calls /\ \A j \in Calls : j # k => calls'[j] = calls[j]
      /\ DOMAIN calls'[k] = DOMAIN calls[k] /\ calls'[k].at = place
      /\ \A f \in DOMAIN calls[k] : f # "at" => calls'[k][f] = calls[k][f]
  BY <1>1, GoesEffect DEF CallInv
<1>3. "apply" \in DOMAIN calls[k]
  BY <1>1 DEF CallInv
<1>4. CallInv(k)'
  BY <1>1, <1>2, <1>3 DEF CallInv, Started, Prepared, Holding
<1> QED
  BY <1>2, <1>4, CallMoves DEF Started, Prepared

-----------------------------------------------------------------------------
(* The steps of a call that read.                                           *)

\* A call whose record is written anew.
LEMMA RecordWritten ==
  ASSUME NEW k \in Calls, DOMAIN calls = Calls, NEW c, calls' = [calls EXCEPT ![k] = c]
  PROVE  /\ DOMAIN calls' = Calls /\ calls'[k] = c
         /\ \A j \in Calls : j # k => calls'[j] = calls[j]
OBVIOUS

LEMMA BeginInv ==
  ASSUME MigrationInv, NEW k \in Calls, NEW apply \in BOOLEAN, NEW path \in BackupPaths,
         NEW t \in 0..MaxMoments, Begin(k, apply, path, t)
  PROVE  MigrationInv'
<1> DEFINE c == [at |-> "hashed", apply |-> apply, path |-> path, time |-> t,
                 mainSha |-> main, walSha |-> wal]
<1>1. c.at = "hashed" /\ {"at", "apply", "path", "time"} \subseteq DOMAIN c /\ c.path = path /\ c.time \in Nat
  BY SMT
<1>2. /\ calls' = [calls EXCEPT ![k] = c]
      /\ UNCHANGED <<main, wal, locker, backups, writes, migrated>> /\ calls[k].at = "idle"
  BY DEF Begin, At
<1> HIDE DEF c
<1>3. /\ DOMAIN calls' = Calls /\ calls'[k] = c /\ \A j \in Calls : j # k => calls'[j] = calls[j]
  BY <1>2, RecordWritten DEF MigrationInv
<1>4. CallInv(k)'
  BY <1>1, <1>3 DEF CallInv, Started, Prepared, Holding
<1> QED
  BY <1>2, <1>3, <1>4, CallMoves

LEMMA InspectInv ==
  ASSUME MigrationInv, NEW k \in Calls, Inspect(k)
  PROVE  MigrationInv'
<1> DEFINE immutable == wal = {}
           inspection == InspectTarget(IF immutable THEN main ELSE Database)
           c == [at |-> "inspected", apply |-> calls[k].apply, path |-> calls[k].path,
                 time |-> calls[k].time, mainSha |-> calls[k].mainSha, walSha |-> calls[k].walSha,
                 immutable |-> immutable, inspection |-> inspection]
<1>1. /\ c.at = "inspected" /\ {"at", "apply", "path", "time", "inspection"} \subseteq DOMAIN c
      /\ c.path = calls[k].path /\ c.time = calls[k].time
  <2> HIDE DEF immutable, inspection
  <2> QED
    BY SMT
<1>2. /\ calls' = [calls EXCEPT ![k] = c]
      /\ UNCHANGED <<main, wal, locker, backups, writes, migrated>> /\ calls[k].at = "hashed"
  BY DEF Inspect, At, MigrationInv
<1> HIDE DEF c
<1>3. /\ DOMAIN calls' = Calls /\ calls'[k] = c /\ \A j \in Calls : j # k => calls'[j] = calls[j]
  BY <1>2, RecordWritten DEF MigrationInv
<1>4. c.path \in BackupPaths /\ c.time \in Nat
  BY <1>1, <1>2 DEF MigrationInv, CallInv, Started
<1>5. CallInv(k)'
  BY <1>1, <1>3, <1>4 DEF CallInv, Started, Prepared, Holding
<1> QED
  BY <1>2, <1>3, <1>5, CallMoves

LEMMA HashLogicalInv ==
  ASSUME MigrationInv, NEW k \in Calls, HashLogical(k)
  PROVE  MigrationInv'
<1> DEFINE c == [at |-> "read", apply |-> calls[k].apply, path |-> calls[k].path,
                 time |-> calls[k].time, mainSha |-> calls[k].mainSha, walSha |-> calls[k].walSha,
                 immutable |-> calls[k].immutable, inspection |-> calls[k].inspection, source |-> Seen(k)]
<1>1. /\ c.at = "read" /\ {"at", "apply", "path", "time", "inspection", "source"} \subseteq DOMAIN c
      /\ c.path = calls[k].path /\ c.time = calls[k].time /\ c.source = Seen(k)
  BY SMT
<1>2. /\ calls' = [calls EXCEPT ![k] = c]
      /\ UNCHANGED <<main, wal, locker, backups, writes, migrated>> /\ calls[k].at = "inspected"
  BY DEF HashLogical, At
<1> HIDE DEF c
<1>3. /\ DOMAIN calls' = Calls /\ calls'[k] = c /\ \A j \in Calls : j # k => calls'[j] = calls[j]
  BY <1>2, RecordWritten DEF MigrationInv
<1>4. c.path \in BackupPaths /\ c.time \in Nat
  BY <1>1, <1>2 DEF MigrationInv, CallInv, Started
<1>5. c.source \in Contents
  BY <1>1, DatabaseType DEF MigrationInv, CopiesInv, Seen
<1>6. CallInv(k)'
  BY <1>1, <1>3, <1>4, <1>5 DEF CallInv, Started, Prepared, Holding
<1> QED
  BY <1>2, <1>3, <1>6, CallMoves

LEMMA ChecksInv ==
  ASSUME MigrationInv, NEW k \in Calls,
         CheckBlock(k) \/ Rehearse(k) \/ CompareAfterRehearsal(k)
  PROVE  MigrationInv'
<1>1. /\ UNCHANGED <<main, wal, locker, backups, writes, migrated>>
      /\ calls[k].at \in Prepared
      /\ \E place \in {"refused", "checked", "rehearsed", "compared", "reported"} : Goes(k, place)
  BY DEF CheckBlock, Rehearse, CompareAfterRehearsal, At, Refused, Prepared
<1>2. PICK place \in {"refused", "checked", "rehearsed", "compared", "reported"} : Goes(k, place)
  BY <1>1
<1> QED
  BY <1>1, <1>2, GoesInv DEF Started, Prepared, Holding

-----------------------------------------------------------------------------
(* The steps of a call under the lock.                                      *)

\* Whoever takes or leaves the lock, the others keep what they have: none of them holds it.
LEMMA LockMoves ==
  ASSUME MigrationInv, NEW k \in Calls, NEW place, Goes(k, place),
         UNCHANGED <<main, backups, writes, migrated>>, Database' = Database,
         wal' = wal \/ wal' = {Database},
         \/ place = "locked" /\ calls[k].at \in Prepared /\ locker = {} /\ locker' = {k}
         \/ place = "refused" /\ calls[k].at \in Holding /\ locker' = {}
         \/ place = "dead" /\ calls[k].at \in Started \cup {"committed"} /\ locker' = locker \ {k}
  PROVE  MigrationInv'
<1>1. CallInv(k) /\ DOMAIN calls = Calls
  BY DEF MigrationInv
<1>2. /\ DOMAIN calls' = Calls /\ \A j \in Calls : j # k => calls'[j] = calls[j]
      /\ DOMAIN calls'[k] = DOMAIN calls[k] /\ calls'[k].at = place
      /\ \A f \in DOMAIN calls[k] : f # "at" => calls'[k][f] = calls[k][f]
  BY <1>1, GoesEffect DEF CallInv
<1>3. CopiesInv'
  <2>1. Database \in Contents
    BY DatabaseType DEF MigrationInv
  <2> QED
    BY <2>1 DEF MigrationInv, CopiesInv
<1>4. CallInv(k)'
  BY <1>1, <1>2 DEF CallInv, Started, Prepared, Holding
<1>5. ASSUME NEW j \in Calls, j # k PROVE CallInv(j)'
  <2>1. InspectTarget(Database)' = InspectTarget(Database)
    BY DEF InspectTarget
  <2>2. calls[j].at \in Holding => locker' = locker
    <3> SUFFICES ASSUME calls[j].at \in Holding PROVE locker' = locker
      OBVIOUS
    <3>1. locker = {j}
      BY DEF MigrationInv, CallInv
    <3>2. calls[k].at \notin Holding
      BY <1>1, <1>5, <3>1 DEF CallInv
    <3>3. place = "dead" /\ locker' = locker \ {k}
      BY <3>1, <3>2
    <3> QED
      BY <1>5, <3>1, <3>3
  <2>3. CallKept(j)
    BY <1>2, <1>5, <2>1, <2>2 DEF CallKept
  <2> QED
    BY <1>5, <2>3, CallStays DEF MigrationInv
<1>6. MigratedInv'
  BY <1>2 DEF MigrationInv, MigratedInv, Started, Prepared, Holding
<1> QED
  BY <1>2, <1>3, <1>4, <1>5, <1>6 DEF MigrationInv

LEMMA BeginExclusiveInv ==
  ASSUME MigrationInv, NEW k \in Calls, BeginExclusive(k)
  PROVE  MigrationInv'
<1>1. CASE locker # {}
  <2>1. Goes(k, "refused") /\ UNCHANGED <<main, wal, locker, backups, writes, migrated>> /\ calls[k].at = "compared"
    BY <1>1 DEF BeginExclusive, Refused, At
  <2> QED
    BY <2>1, GoesInv DEF Started, Prepared
<1>2. CASE locker = {}
  <2>1. /\ Goes(k, "locked") /\ UNCHANGED <<main, backups, writes, migrated>> /\ calls[k].at = "compared"
        /\ locker' = {k} /\ wal' = {Database}
    BY <1>2 DEF BeginExclusive, At
  <2>2. Database' = Database
    BY <2>1, DatabaseIsLog DEF Database
  <2> QED
    BY <1>2, <2>1, <2>2, LockMoves DEF Started, Prepared, Holding
<1> QED
  BY <1>1, <1>2

LEMMA CompareAndBackupInv ==
  ASSUME MigrationInv, NEW k \in Calls, CompareAndBackup(k)
  PROVE  MigrationInv'
<1>0. CallInv(k) /\ DOMAIN calls = Calls /\ calls[k].at = "locked" /\ Database \in Contents
  BY DatabaseType DEF CompareAndBackup, At, MigrationInv
<1>1. CASE ~(SameUnderLock(k) /\ backups[calls[k].path] = {})
  <2>1. Goes(k, "refused") /\ locker' = {} /\ UNCHANGED <<main, wal, backups, writes, migrated>>
    BY <1>1 DEF CompareAndBackup, BackOut
  <2>2. Database' = Database
    BY <2>1 DEF Database
  <2> QED
    BY <1>0, <2>1, <2>2, LockMoves DEF Holding
<1>2. CASE SameUnderLock(k) /\ backups[calls[k].path] = {}
  <2> DEFINE path == calls[k].path
  <2>1. /\ backups' = [backups EXCEPT ![path] = {Database}]
        /\ Goes(k, "saved") /\ UNCHANGED <<main, wal, locker, writes, migrated>>
    BY <1>2 DEF CompareAndBackup, BackedUp
  <2>2. Database' = Database /\ InspectTarget(Database)' = InspectTarget(Database)
    BY <2>1 DEF Database, InspectTarget
  <2>3. /\ DOMAIN calls' = Calls /\ \A j \in Calls : j # k => calls'[j] = calls[j]
        /\ DOMAIN calls'[k] = DOMAIN calls[k] /\ calls'[k].at = "saved"
        /\ \A f \in DOMAIN calls[k] : f # "at" => calls'[k][f] = calls[k][f]
    BY <1>0, <2>1, GoesEffect DEF CallInv
  <2>4. path \in BackupPaths /\ locker = {k}
    BY <1>0 DEF CallInv, Started, Prepared, Holding
  <2>5. /\ backups' \in [BackupPaths -> SUBSET Contents] /\ backups'[path] = {Database}
        /\ \A p \in BackupPaths : p # path => backups'[p] = backups[p]
    BY <1>0, <2>1, <2>4 DEF MigrationInv, CopiesInv
  <2>6. CopiesInv'
    BY <2>1, <2>2, <2>5 DEF MigrationInv, CopiesInv
  <2>7. CallInv(k)'
    <3>1. InspectTarget(Database) = calls[k].inspection /\ Database = calls[k].source
      BY <1>2 DEF SameUnderLock
    <3>2. /\ {"at", "apply", "path", "time", "inspection", "source"} \subseteq DOMAIN calls[k]
          /\ calls[k].time \in Nat
      BY <1>0 DEF CallInv, Started, Prepared
    <3>3. /\ calls'[k].path = path /\ calls'[k].time \in Nat
          /\ calls'[k].inspection = InspectTarget(Database)' /\ calls'[k].source = Database'
          /\ {"at", "apply", "path", "time", "inspection", "source"} \subseteq DOMAIN calls'[k]
      BY <2>2, <2>3, <3>1, <3>2
    <3> HIDE DEF path
    <3> QED
      BY <1>0, <2>1, <2>2, <2>3, <2>4, <2>5, <3>3 DEF CallInv, Started, Prepared, Holding
  <2>8. ASSUME NEW j \in Calls, j # k PROVE CallInv(j)'
    <3>1. calls[j].at \notin Holding
      BY <2>4, <2>8 DEF MigrationInv, CallInv
    <3>2. CallKept(j)
      BY <2>1, <2>2, <2>3, <2>8, <3>1 DEF CallKept, Holding
    <3> QED
      BY <2>8, <3>2, CallStays DEF MigrationInv
  <2>9. MigratedInv'
    <3> SUFFICES ASSUME NEW d \in migrated
                 PROVE  /\ d.by \in Calls /\ calls'[d.by].at \in {"committed", "reported", "dead"}
                        /\ d.path \in BackupPaths /\ backups'[d.path] = {d.before}
                        /\ d.before = d.rehearsed /\ ~d.before.legacy
      BY <2>1 DEF MigratedInv
    <3>1. /\ d.by \in Calls /\ calls[d.by].at \in {"committed", "reported", "dead"}
          /\ d.path \in BackupPaths /\ backups[d.path] = {d.before}
          /\ d.before = d.rehearsed /\ ~d.before.legacy
      BY DEF MigrationInv, MigratedInv
    <3>2. d.path # path
      BY <1>2, <3>1
    <3> QED
      BY <1>0, <2>3, <2>5, <3>1, <3>2
  <2> QED
    BY <2>3, <2>6, <2>7, <2>8, <2>9 DEF MigrationInv
<1> QED
  BY <1>1, <1>2

\* What applying the pending migrations makes of a database.
LEMMA AppliedEffect ==
  ASSUME NEW c \in Contents, NEW t \in Nat, NEW k \in Calls
  PROVE  /\ Applied(c, t, k) \in Contents
         /\ Applied(c, t, k).version = LatestVersion
         /\ Applied(c, t, k).legacy = c.legacy /\ Applied(c, t, k).rows = c.rows
         /\ c.version = LatestVersion => Applied(c, t, k) = c
<1>1. CASE c.version = LatestVersion
  BY <1>1 DEF Applied
<1>2. CASE c.version # LatestVersion
  <2> DEFINE store == IF c.version < 2 THEN k ELSE c.store
             d == [version |-> LatestVersion, store |-> store, applied |-> t,
                   sound |-> c.sound, legacy |-> c.legacy, rows |-> c.rows]
  <2>1. Applied(c, t, k) = d
    BY <1>2 DEF Applied, Contents
  <2>2. store \in StoreNames
    BY DEF Contents, StoreNames
  <2> HIDE DEF store
  <2>3. d \in Contents /\ d.version = LatestVersion /\ d.legacy = c.legacy /\ d.rows = c.rows
    BY <2>2 DEF Contents, Versions, LatestVersion
  <2> QED
    BY <1>2, <2>1, <2>3
<1> QED
  BY <1>1, <1>2

LEMMA CommitInv ==
  ASSUME MigrationInv, NEW k \in Calls, Commit(k)
  PROVE  MigrationInv'
<1>0. /\ CallInv(k) /\ DOMAIN calls = Calls /\ calls[k].at = "saved" /\ Database \in Contents
      /\ locker = {k}
  BY DatabaseType DEF Commit, At, MigrationInv, CallInv, Holding
<1>1. CASE ~CanApply(Database, calls[k].inspection.version, calls[k].time)
  <2>1. Goes(k, "refused") /\ locker' = {} /\ UNCHANGED <<main, wal, backups, writes, migrated>>
    BY <1>1 DEF Commit, BackOut
  <2>2. Database' = Database
    BY <2>1 DEF Database
  <2> QED
    BY <1>0, <2>1, <2>2, LockMoves DEF Holding
<1>2. CASE CanApply(Database, calls[k].inspection.version, calls[k].time)
  <2> DEFINE after == Applied(Database, calls[k].time, k)
             new == [by |-> k, rehearsed |-> calls[k].source, path |-> calls[k].path,
                     before |-> Database, after |-> after]
             c == [at |-> "committed", source |-> calls[k].source, inspection |-> calls[k].inspection,
                   final |-> InspectTarget(after)]
  <2>1. /\ wal' = {after} /\ locker' = {}
        /\ migrated' = IF after = Database THEN migrated ELSE migrated \cup {new}
        /\ calls' = [calls EXCEPT ![k] = c]
        /\ UNCHANGED <<main, backups, writes>>
    BY <1>2 DEF Commit
  <2>2. /\ calls[k].time \in Nat /\ calls[k].path \in BackupPaths /\ calls[k].source = Database
        /\ backups[calls[k].path] = {Database} /\ calls[k].inspection = InspectTarget(Database)
    BY <1>0 DEF CallInv, Started, Prepared
  <2>3. /\ after \in Contents /\ after.version = LatestVersion
        /\ after.legacy = Database.legacy /\ after.rows = Database.rows
        /\ Database.version = LatestVersion => after = Database
    BY <1>0, <2>2, AppliedEffect
  <2>4. /\ c.at = "committed" /\ DOMAIN c = {"at", "source", "inspection", "final"}
        /\ c.source = Database /\ c.inspection = InspectTarget(Database) /\ c.final = InspectTarget(after)
    <3> HIDE DEF after
    <3> QED
      BY <2>2
  <2>5. new.by = k /\ new.before = Database /\ new.rehearsed = Database /\ new.path = calls[k].path
    BY <2>2
  <2>6. ~Database.legacy
    <3>1. Database.legacy => Database.version \in {1, 2}
      BY DEF MigrationInv, CopiesInv
    <3>2. InspectTarget(Database).version = Database.version
      BY InspectedVersion
    <3> QED
      BY <1>2, <3>1, <3>2 DEF CanApply, LegacyBlock
  <2> HIDE DEF after, new, c
  <2>7. Database' = after /\ InspectTarget(Database)' = InspectTarget(after)
    BY <2>1, DatabaseIsLog DEF Database, InspectTarget
  <2>8. /\ DOMAIN calls' = Calls /\ calls'[k] = c /\ \A j \in Calls : j # k => calls'[j] = calls[j]
    BY <1>0, <2>1, RecordWritten
  <2>9. \A d \in migrated : d.by # k
    BY <1>0 DEF MigrationInv, MigratedInv
  <2>10. CopiesInv'
    BY <1>0, <2>1, <2>3, <2>6, <2>7 DEF MigrationInv, CopiesInv
  <2>11. CallInv(k)'
    <3>1. \A d \in migrated' : d.by = k => c.inspection.version < LatestVersion /\ c.source.version = c.inspection.version
      <4> SUFFICES ASSUME NEW d \in migrated', d.by = k
                   PROVE  c.inspection.version < LatestVersion /\ c.source.version = c.inspection.version
        OBVIOUS
      <4>1. after # Database
        BY <2>1, <2>9
      <4>2. Database.version # LatestVersion
        BY <2>3, <4>1
      <4>3. Database.version < LatestVersion
        BY <1>0, <4>2 DEF Contents, Versions, LatestVersion
      <4> QED
        BY <2>4, <4>3, InspectedVersion
    <3> QED
      BY <2>3, <2>4, <2>7, <2>8, <3>1 DEF CallInv, Started, Prepared, Holding
  <2>12. ASSUME NEW j \in Calls, j # k PROVE CallInv(j)'
    <3>1. calls[j].at \notin Holding
      BY <1>0, <2>12 DEF MigrationInv, CallInv
    <3>2. CallKept(j)
      BY <2>1, <2>3, <2>5, <2>7, <2>8, <2>12, <3>1 DEF CallKept, Holding
    <3> QED
      BY <2>12, <3>2, CallStays DEF MigrationInv
  <2>13. MigratedInv'
    <3> SUFFICES ASSUME NEW d \in migrated'
                 PROVE  /\ d.by \in Calls /\ calls'[d.by].at \in {"committed", "reported", "dead"}
                        /\ d.path \in BackupPaths /\ backups'[d.path] = {d.before}
                        /\ d.before = d.rehearsed /\ ~d.before.legacy
      BY DEF MigratedInv
    <3>1. CASE d \in migrated
      BY <2>1, <2>8, <2>9, <3>1 DEF MigrationInv, MigratedInv
    <3>2. CASE d = new
      BY <2>1, <2>2, <2>4, <2>5, <2>6, <2>8, <3>2
    <3> QED
      BY <2>1, <3>1, <3>2
  <2> QED
    BY <2>8, <2>10, <2>11, <2>12, <2>13 DEF MigrationInv
<1> QED
  BY <1>1, <1>2

\* A call that has migrated finds what it committed, whatever was written since.
LEMMA VerifyInv ==
  ASSUME MigrationInv, NEW k \in Calls, Verify(k)
  PROVE  MigrationInv'
<1>0. CallInv(k) /\ DOMAIN calls = Calls /\ calls[k].at = "committed"
  BY DEF Verify, At, MigrationInv
<1>1. PICK place \in {"reported", "refused"} :
        /\ Goes(k, place) /\ UNCHANGED <<main, wal, locker, backups, writes, migrated>>
        /\ place = "refused" =>
             ~(/\ InspectTarget(Database) = calls[k].final
               /\ (calls[k].inspection.version < LatestVersion) <=> (calls[k].source # Database))
  BY DEF Verify, Refused
<1>2. /\ DOMAIN calls' = Calls /\ \A j \in Calls : j # k => calls'[j] = calls[j]
      /\ DOMAIN calls'[k] = DOMAIN calls[k] /\ calls'[k].at = place
      /\ \A f \in DOMAIN calls[k] : f # "at" => calls'[k][f] = calls[k][f]
  BY <1>0, <1>1, GoesEffect DEF CallInv
<1>3. Database' = Database
  BY <1>1 DEF Database
<1>4. CallInv(k)'
  BY <1>0, <1>1, <1>2, <1>3 DEF CallInv, Started, Prepared, Holding
<1>5. place = "refused" => \A d \in migrated : d.by # k
  <2> SUFFICES ASSUME NEW d \in migrated, d.by = k, place = "refused" PROVE FALSE
    OBVIOUS
  <2>1. /\ calls[k].final = InspectTarget(Database)
        /\ calls[k].inspection.version < LatestVersion
        /\ calls[k].source.version = calls[k].inspection.version
        /\ Database.version = LatestVersion
    BY <1>0 DEF CallInv
  <2>2. calls[k].source # Database
    BY <2>1 DEF LatestVersion
  <2> QED
    BY <1>1, <2>1, <2>2
<1> QED
  BY <1>1, <1>2, <1>4, <1>5, CallMoves

LEMMA DieInv ==
  ASSUME MigrationInv, NEW k \in Calls, Die(k)
  PROVE  MigrationInv'
<1>0. calls[k].at \in Started \cup {"committed"}
  BY DEF Die, MigrationInv, CallInv
<1>1. Goes(k, "dead") /\ locker' = locker \ {k} /\ UNCHANGED <<main, wal, backups, writes, migrated>>
  BY DEF Die
<1>2. Database' = Database
  BY <1>1 DEF Database
<1> QED
  BY <1>0, <1>1, <1>2, LockMoves

-----------------------------------------------------------------------------
(* The server.                                                              *)

\* Outside every lock, a step that keeps the version, the store and the soundness.
LEMMA ServerMoves ==
  ASSUME MigrationInv, UNCHANGED <<backups, calls, migrated>>, CopiesInv',
         Database' = Database \/ locker = {}, locker' = locker,
         Database'.version = Database.version, Database'.store = Database.store,
         Database'.sound = Database.sound
  PROVE  MigrationInv'
<1>1. InspectTarget(Database)' = InspectTarget(Database)
  <2>1. InspectTarget(Database)' = InspectTarget(Database')
    BY DEF InspectTarget
  <2> QED
    BY <2>1, InspectionOf
<1>2. ASSUME NEW j \in Calls PROVE CallInv(j)'
  <2>1. locker = {} => calls[j].at \notin Holding
    BY DEF MigrationInv, CallInv
  <2>2. CallKept(j)
    BY <1>1, <2>1 DEF CallKept, Holding
  <2> QED
    BY <2>2, CallStays DEF MigrationInv
<1>3. MigratedInv'
  BY DEF MigrationInv, MigratedInv
<1> QED
  BY <1>2, <1>3 DEF MigrationInv

LEMMA WriteInv ==
  ASSUME MigrationInv, NEW legacy \in BOOLEAN, Write(legacy)
  PROVE  MigrationInv'
<1> DEFINE new == [version |-> Database.version, store |-> Database.store, applied |-> Database.applied,
                   sound |-> Database.sound, legacy |-> Database.legacy \/ legacy, rows |-> Database.rows + 1]
<1>0. Database \in Contents /\ CopiesInv
  BY DatabaseType DEF MigrationInv
<1>1. wal' = {new}
  <2> DEFINE more == [Database EXCEPT !.rows = Database.rows + 1]
             mixed == Database.legacy \/ legacy
  <2>1. more = [version |-> Database.version, store |-> Database.store, applied |-> Database.applied,
                sound |-> Database.sound, legacy |-> Database.legacy, rows |-> Database.rows + 1]
    BY <1>0 DEF Contents
  <2>2. wal' = {[more EXCEPT !.legacy = mixed]}
    <3>1. more.legacy = Database.legacy
      BY <2>1
    <3> QED
      BY <3>1 DEF Write
  <2>3. new = [version |-> Database.version, store |-> Database.store, applied |-> Database.applied,
               sound |-> Database.sound, legacy |-> mixed, rows |-> Database.rows + 1]
    OBVIOUS
  <2> HIDE DEF more, mixed, new
  <2>4. [more EXCEPT !.legacy = mixed] = new
    BY <2>1, <2>3
  <2> QED
    BY <2>2, <2>4
<1>2. /\ new \in Contents /\ new.version = Database.version /\ new.store = Database.store
      /\ new.sound = Database.sound /\ new.rows = Database.rows + 1
      /\ new.legacy => Database.legacy \/ legacy
  <2> DEFINE mixed == Database.legacy \/ legacy
  <2>1. mixed \in BOOLEAN
    OBVIOUS
  <2> HIDE DEF mixed
  <2> QED
    BY <1>0, <2>1 DEF Contents, mixed
<1> HIDE DEF new
<1>3. Database' = new
  BY <1>1, DatabaseIsLog DEF Database
<1>4. /\ UNCHANGED <<main, locker, backups, calls, migrated>> /\ locker = {}
      /\ writes' = writes + 1
      /\ legacy => Database.version \in {1, 2}
  BY DEF Write
<1>5. CopiesInv'
  <2>1. Database'.legacy => Database'.version \in {1, 2}
    <3> SUFFICES ASSUME new.legacy PROVE new.version \in {1, 2}
      BY <1>3
    <3>1. CASE legacy
      BY <1>2, <1>4, <3>1
    <3>2. CASE Database.legacy
      BY <1>0, <1>2, <3>2 DEF CopiesInv
    <3> QED
      BY <1>2, <3>1, <3>2
  <2>2. main' \in Contents /\ \E c \in Contents : wal' = {c}
    BY <1>0, <1>1, <1>2, <1>4 DEF CopiesInv
  <2>3. writes' \in Nat /\ Database'.rows = writes'
    <3>1. writes \in Nat /\ Database.rows = writes
      BY <1>0 DEF CopiesInv
    <3>2. new.rows = writes + 1 /\ writes' = writes + 1
      BY <1>2, <1>4, <3>1
    <3> QED
      BY <1>3, <3>1, <3>2
  <2> QED
    BY <1>0, <1>4, <2>1, <2>2, <2>3 DEF CopiesInv
<1> QED
  BY <1>2, <1>3, <1>4, <1>5, ServerMoves

LEMMA CheckpointInv ==
  ASSUME MigrationInv, Checkpoint \/ CloseLast
  PROVE  MigrationInv'
<1>0. Database \in Contents /\ CopiesInv
  BY DatabaseType DEF MigrationInv
<1>1. /\ main' = Database /\ (wal' = {} \/ (wal # {} /\ wal' = wal))
      /\ UNCHANGED <<locker, backups, calls, writes, migrated>>
  BY DEF Checkpoint, CloseLast
<1>2. Database' = Database
  <2>1. CASE wal' = {}
    BY <1>1, <2>1 DEF Database
  <2>2. CASE wal # {} /\ wal' = wal
    BY <2>2 DEF Database
  <2> QED
    BY <1>1, <2>1, <2>2
<1>3. CopiesInv'
  BY <1>0, <1>1, <1>2 DEF CopiesInv
<1> QED
  BY <1>1, <1>2, <1>3, ServerMoves

-----------------------------------------------------------------------------
LEMMA MigrationStarts == MigrationInit => MigrationInv
<1> SUFFICES ASSUME MigrationInit PROVE MigrationInv
  OBVIOUS
<1>1. PICK v \in 0..LatestVersion, l \in BOOLEAN, s \in BOOLEAN :
        /\ l => v \in {1, 2}
        /\ main = [version |-> v, store |-> IF v >= 2 THEN "old" ELSE "none",
                   applied |-> IF v = 0 THEN 0 ELSE 1, sound |-> s, legacy |-> l, rows |-> 0]
  BY DEF MigrationInit
<1>2. main \in Contents /\ main.legacy = l /\ main.version = v /\ main.rows = 0
  BY <1>1 DEF Contents, Versions, StoreNames
<1>3. Database = main
  BY DEF MigrationInit, Database
<1>4. CopiesInv
  BY <1>1, <1>2, <1>3 DEF MigrationInit, CopiesInv
<1>5. ASSUME NEW k \in Calls PROVE CallInv(k)
  <2>1. calls[k] = [at |-> "idle"]
    BY DEF MigrationInit, Unstarted
  <2>2. calls[k].at = "idle" /\ "at" \in DOMAIN calls[k]
    BY <2>1
  <2> QED
    BY <2>2 DEF CallInv, Started, Prepared, Holding
<1>6. MigratedInv /\ DOMAIN calls = Calls
  BY DEF MigrationInit, MigratedInv
<1> QED
  BY <1>4, <1>5, <1>6 DEF MigrationInv

\* The inductive invariant: what each call of migrate_runtime_database() has read and what of
\* it still stands, whatever calls, writes, checkpoints and deaths there are in between.
THEOREM MigrationInvariant == MigrationSpec => []MigrationInv
<1>1. MigrationInv /\ [MigrationNext]_migrationVars => MigrationInv'
  <2> SUFFICES ASSUME MigrationInv, [MigrationNext]_migrationVars PROVE MigrationInv'
    OBVIOUS
  <2>1. CASE UNCHANGED migrationVars
    <3>1. Database' = Database
      BY <2>1 DEF migrationVars, Database
    <3>2. CopiesInv'
      BY <2>1, <3>1 DEF migrationVars, MigrationInv, CopiesInv
    <3> QED
      BY <2>1, <3>1, <3>2, ServerMoves DEF migrationVars
  <2>2. ASSUME NEW k \in Calls, NEW apply \in BOOLEAN, NEW path \in BackupPaths, NEW t \in 0..MaxMoments,
               Begin(k, apply, path, t)
        PROVE  MigrationInv'
    BY <2>2, BeginInv
  <2>3. ASSUME NEW k \in Calls,
               \/ Inspect(k) \/ HashLogical(k) \/ CheckBlock(k) \/ Rehearse(k)
               \/ CompareAfterRehearsal(k) \/ BeginExclusive(k) \/ CompareAndBackup(k)
               \/ Commit(k) \/ Verify(k) \/ Die(k)
        PROVE  MigrationInv'
    BY <2>3, InspectInv, HashLogicalInv, ChecksInv, BeginExclusiveInv, CompareAndBackupInv, CommitInv,
       VerifyInv, DieInv
  <2>4. ASSUME NEW legacy \in BOOLEAN, Write(legacy) PROVE MigrationInv'
    BY <2>4, WriteInv
  <2>5. CASE Checkpoint \/ CloseLast
    BY <2>5, CheckpointInv
  <2> QED
    BY <2>1, <2>2, <2>3, <2>4, <2>5 DEF MigrationNext
<1> QED
  BY <1>1, MigrationStarts, PTL DEF MigrationSpec

\* migrate_runtime_database() migrates what it rehearsed, of which a backup exists, and no
\* legacy evidence; it never refuses what it has committed, and no transaction of the
\* server is lost.
THEOREM MigrationIsSafeHolds == MigrationSpec => []MigrationIsSafe
<1>1. MigrationInv => MigrationIsSafe
  <2> SUFFICES ASSUME MigrationInv PROVE MigrationIsSafe
    OBVIOUS
  <2>1. ASSUME NEW d \in migrated
        PROVE  /\ d.before = d.rehearsed /\ backups[d.path] = {d.before} /\ ~d.before.legacy
               /\ ~At(d.by, "refused")
    BY DEF MigrationInv, MigratedInv, At
  <2>2. Database.rows = writes
    BY DEF MigrationInv, CopiesInv
  <2>3. ASSUME NEW k \in Calls, At(k, "reported"), "apply" \notin DOMAIN calls[k]
        PROVE  Database.version = LatestVersion
    BY <2>3 DEF MigrationInv, CallInv, At
  <2> QED
    BY <2>1, <2>2, <2>3 DEF MigrationIsSafe
<1> QED
  BY <1>1, MigrationInvariant, PTL
=============================================================================
