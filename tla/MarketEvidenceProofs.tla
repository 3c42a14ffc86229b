-------------------------- MODULE MarketEvidenceProofs --------------------------
(* Proofs about MarketIngestion and its store, for any symbols, bounds and  *)
(* sizes of the ring and of a response, about TransportCoverage and about   *)
(* PathResolution.                                                          *)
EXTENDS MarketIngestion, TransportCoverage, PathResolution, SequenceTheorems, FiniteSetTheorems, NaturalsInduction, WellFoundedInduction, TLAPS

Places == {"idle", "fetch", "next", "manifest", "commit", "undo", "rebuild", "evaluate", "finish"}
Writing == {"manifest", "commit", "undo"}     \* append() has its transaction open
Dirty == Writing \cup {"rebuild"}             \* the manifest of its partition may be another's
Running == pc \notin {"idle", "fetch"}

RingSet == {ring[i] : i \in DOMAIN ring}
EventsFiled == {f.event : f \in files}        \* events with a file
Known == inFlight \cup RingSet \cup batch \cup Stored \cup EventsFiled
Chain(p) == PartitionRows(rows, p)

\* How far a session has been passed, by the poll under way or by the next.
Here == IF Running THEN processed ELSE cursor
Mark(s) == IF session = s THEN Here ELSE lastSeq[s]
Level == IF session = sidecar.session THEN Here ELSE lastSeq[sidecar.session]
Polled == Running /\ session = sidecar.session

TypesInv ==
  /\ sidecar \in [session : Sessions, seq : 0..MaxSeq]
  /\ ring \in Seq(Events) /\ Len(ring) <= RingSize
  /\ pc \in Places /\ session \in Sessions \cup {None} /\ cursor \in Nat /\ processed \in Nat
  /\ rows \in Seq({rows[i] : i \in DOMAIN rows})
  /\ lastSeq \in [Sessions -> Nat]
  /\ \A f \in findings : f.expected \in Nat /\ f.observed \in Nat
  /\ DOMAIN partitions = Symbols /\ DOMAIN manifests = Symbols
  /\ crashes \in Nat /\ torn \in Nat
  /\ Known \subseteq Events

\* An event is known by its session and its number.
NumbersInv ==
  /\ \A e \in Known : e.session <= sidecar.session
  /\ \A e \in Known : e.session = sidecar.session => e.seq <= sidecar.seq
  /\ \A e, f \in Known : e.session = f.session /\ e.seq = f.seq => e = f
  /\ \A e \in inFlight \cup RingSet : e.session = sidecar.session
  /\ \A e \in inFlight : e \notin RingSet \cup batch \cup Stored \cup EventsFiled
  /\ \A i, j \in DOMAIN ring : ring[i] = ring[j] => i = j

RowsInv ==
  /\ \A i, j \in DOMAIN rows : rows[i].event = rows[j].event => i = j
  /\ \A i \in DOMAIN rows :
       /\ rows[i] \in files
       /\ \A p \in Symbols : Partition(rows[i].event) = p => rows[i].prev = HashBefore(Chain(p), i)
  /\ \A f, g \in files : f.event = g.event => f = g

\* Number n of session s is stored, or in a recorded gap.
Accounted(s, n) ==
  \/ \E e \in Stored : e.session = s /\ e.seq = n
  \/ \E f \in findings : /\ f.kind = "CALLBACK_SEQUENCE" /\ f.session = s
                         /\ f.expected <= n /\ n < f.observed
LastInv ==
  \A s \in Sessions :
    /\ \A e \in Stored : e.session = s => e.seq <= lastSeq[s]
    /\ lastSeq[s] = 0 \/ \E e \in Stored : e.session = s /\ e.seq = lastSeq[s]
    /\ s \notin misread => \A n \in 1..lastSeq[s] : Accounted(s, n)

PollInv ==
  /\ session = None => pc = "idle"
  /\ session # None => session <= sidecar.session /\ \A e \in EventsFiled : e.session <= session
  /\ ~Running => batch = {}
  /\ \A e \in batch : e.session = session /\ e.seq > processed
  /\ pc \in Dirty \cup {"evaluate"} => batch # {}
\* The event poll_once() is at, and what append() has done of it.
AppendInv ==
  /\ pc = "evaluate" => \A e \in batch : e = Event => e \in Stored
  /\ pc \in Writing => \A e \in batch : e = Event => e \notin Stored /\ tx.row = NewRow(e) /\ tx.row \in files
  /\ pc = "commit" => \A e \in batch : e = Event =>
       manifests[Partition(e)] = PartitionRows(Append(rows, tx.row), Partition(e))
  /\ \A p \in Symbols : partitions[p] = Chain(p)
MisreadInv ==
  /\ \A s \in misread : s \in Sessions /\ s <= sidecar.session
  /\ sidecar.session \in misread => session \in {None, sidecar.session}

\* What holds of a session that no poll has misread: it is passed no further than it is stored.
PassedInv ==
  session # None => /\ cursor <= Here /\ Here <= lastSeq[session]
                    /\ lastSeq[session] = 0 => \A e \in batch : e = Event => e.seq = 1
\* The event poll_once() is at is the only one of the batch it has touched.
BegunInv ==
  /\ \A e \in batch \cap EventsFiled : e = Event
  /\ \A e \in batch : e = Event /\ e \notin Stored => \A f \in files : f.event = e => f = NewRow(e)

\* An event of the ring that was begun and not passed leads all that is to come.
Leads(j) ==
  /\ \A i \in 1..(j - 1) : ring[i].seq <= Level
  /\ ring[j] \notin Stored => \A f \in files : f.event = ring[j] => f = NewRow(f.event)
  /\ Polled => ring[j] \in batch /\ ring[j] = Event
RingInv ==
  /\ \A j \in DOMAIN ring : ring[j] \in EventsFiled /\ ring[j].seq > Level => Leads(j)
  /\ \A j \in DOMAIN ring : \A i \in 1..(j - 1) :
       /\ ring[j] \in Stored \cup batch => ring[i].seq < ring[j].seq
       /\ ring[j] \in batch => ring[i].seq <= Level \/ ring[i] \in batch
\* What the ring has evicted.
EvictedInv ==
  \A e \in (Stored \cup batch) \ RingSet : e.session = sidecar.session =>
    /\ ring # <<>>
    /\ e \in Stored /\ ~Overtaken(e) => \A h \in RingSet : h.seq > e.seq
    /\ e \in batch => \A h \in RingSet \cap (Stored \cup batch) : h.seq > e.seq

Pending(e) == e \in Stored \ evaluated /\ ~Overtaken(e) /\ e.session = session /\ e.seq > Here
Missed(s) == {e \in Stored \ evaluated : e.session = s /\ e.seq <= Mark(s) /\ ~Overtaken(e)}
RulesInv ==
  /\ \A e \in Stored : Pending(e) /\ Running => e \in batch /\ e = Event
  /\ \A e, f \in Stored : Pending(e) /\ Pending(f) => e = f
  /\ \A s \in Sessions : s \in {session, sidecar.session} => Cardinality(Missed(s)) <= crashes

Fresh(p) == manifests[p] = Chain(p)
ManifestsInv ==
  /\ \A e \in batch : e = Event /\ e \in Stored => Fresh(Partition(e))
  /\ \A e \in RingSet \cap Stored : e.seq > Level => Fresh(Partition(e))
CleanInv ==
  torn = 0 =>
    /\ \A p \in Symbols : Fresh(p) \/ (pc \in Dirty /\ \E e \in batch : e = Event /\ p = Partition(e))
    /\ \A f \in files : f.event \in Stored \/ (pc \in Writing /\ f.event \in batch /\ f.event = Event)
    /\ pc \in Writing => tx.created

StoreInv ==
  /\ TypesInv /\ NumbersInv /\ RowsInv /\ LastInv
  /\ PollInv /\ AppendInv /\ CleanInv /\ MisreadInv
TrackedInv == PassedInv /\ BegunInv /\ RingInv /\ EvictedInv /\ RulesInv /\ ManifestsInv
\* Neither the session that is polled nor the one that runs was misread.
Aware == session \notin misread /\ sidecar.session \notin misread
IngestionInv == StoreInv /\ (Aware => TrackedInv)

-----------------------------------------------------------------------------
(* Operators.                                                              *)

LEMMA LeastOf ==
  ASSUME NEW S \in SUBSET Nat, S # {}
  PROVE  \E m \in S : \A k \in S : m <= k
<1> DEFINE Less == OpToRel(<, Nat)
<1>1. IsWellFoundedOn(Less, Nat)
  BY NatLessThanWellFounded
<1>2. PICK m \in S : \A k \in S : <<k, m>> \notin Less
  <2> HIDE DEF Less
  <2> QED
    BY <1>1, WFMin
<1>3. \A k \in S : ~(k < m)
  BY <1>2 DEF OpToRel
<1> QED
  BY <1>3

LEMMA MaxOf ==
  ASSUME NEW n \in Nat, NEW S \in SUBSET (1..n), S # {}
  PROVE  Max(S) \in S /\ \A k \in S : k <= Max(S)
<1> DEFINE above == {b \in Nat : \A k \in S : k <= b}
<1>1. above \in SUBSET Nat /\ n \in above
  OBVIOUS
<1>2. PICK b \in above : \A c \in above : b <= c
  BY <1>1, LeastOf
<1>3. b \in S
  <2> SUFFICES ASSUME b \notin S PROVE FALSE
    OBVIOUS
  <2>1. PICK x \in S : TRUE
    OBVIOUS
  <2>2. b \in Nat /\ b >= 1 /\ \A k \in S : k <= b - 1
    BY <2>1
  <2>3. b - 1 \in above
    BY <2>2
  <2> QED
    BY <1>2, <2>2, <2>3
<1>4. \A k \in S : b >= k
  BY <1>2
<1> QED
  BY <1>3, <1>4 DEF Max

LEMMA LeastEvent ==
  ASSUME NEW B \in SUBSET Events, B # {}, NEW e, e = CHOOSE x \in B : \A f \in B : x.seq <= f.seq
  PROVE  e \in B /\ \A f \in B : e.seq <= f.seq
<1> DEFINE T == {x.seq : x \in B}
<1>1. T \in SUBSET Nat /\ T # {}
  BY IngestionAssumption DEF Events
<1>2. PICK m \in T : \A k \in T : m <= k
  BY <1>1, LeastOf
<1>3. PICK x \in B : m = x.seq
  BY <1>2
<1>4. \A f \in B : x.seq <= f.seq
  BY <1>2, <1>3
<1> QED
  BY <1>4

\* What a row says of its predecessor does not depend on the rows after it.
LEMMA HashKept ==
  ASSUME NEW S, NEW table \in Seq(S), NEW r, NEW p, NEW i \in 1..(Len(table) + 1)
  PROVE  HashBefore(PartitionRows(Append(table, r), p), i) = HashBefore(PartitionRows(table, p), i)
<1> DEFINE longer == PartitionRows(Append(table, r), p)
           chain == PartitionRows(table, p)
           before == {j \in DOMAIN chain : j < i}
<1>1. /\ DOMAIN table = 1..Len(table) /\ Len(table) \in Nat
      /\ DOMAIN Append(table, r) = 1..(Len(table) + 1)
      /\ \A j \in 1..Len(table) : Append(table, r)[j] = table[j]
  BY AppendProperties
<1>2. /\ DOMAIN chain = {j \in DOMAIN table : Partition(table[j].event) = p}
      /\ DOMAIN longer = {j \in DOMAIN Append(table, r) : Partition(Append(table, r)[j].event) = p}
  BY DEF PartitionRows
<1>3. {j \in DOMAIN longer : j < i} = before /\ before \in SUBSET (1..Len(table))
  BY <1>1, <1>2
<1>4. \A j \in before : longer[j] = chain[j]
  BY <1>1, <1>3 DEF PartitionRows
<1>5. before # {} => Max(before) \in before
  BY <1>1, <1>3, MaxOf
<1> HIDE DEF before, longer, chain
<1> QED
  BY <1>3, <1>4, <1>5 DEF HashBefore, before, longer, chain

\* What a partition's rows are after an append: those of another stay.
LEMMA ChainOfAppend ==
  ASSUME NEW S, NEW table \in Seq(S), NEW r, NEW p, Partition(r.event) # p
  PROVE  PartitionRows(Append(table, r), p) = PartitionRows(table, p)
<1>1. /\ DOMAIN table = 1..Len(table) /\ Len(table) \in Nat
      /\ DOMAIN Append(table, r) = 1..(Len(table) + 1)
      /\ \A j \in 1..Len(table) : Append(table, r)[j] = table[j]
      /\ Append(table, r)[Len(table) + 1] = r
  BY AppendProperties
<1>2. {j \in DOMAIN Append(table, r) : Partition(Append(table, r)[j].event) = p}
        = {j \in DOMAIN table : Partition(table[j].event) = p}
  BY <1>1
<1> QED
  BY <1>1, <1>2 DEF PartitionRows

-----------------------------------------------------------------------------
(* What an invariant depends on.                                           *)

LEMMA StoreFacts ==
  ASSUME StoreInv
  PROVE  /\ DOMAIN ring = 1..Len(ring) /\ Len(ring) \in Nat
         /\ DOMAIN rows = 1..Len(rows) /\ Len(rows) \in Nat
         /\ sidecar.session \in Sessions /\ sidecar.session \in Nat /\ sidecar.seq \in Nat
         /\ inFlight \subseteq Events /\ RingSet \subseteq Events /\ batch \subseteq Events
         /\ Stored \subseteq EventsFiled /\ EventsFiled \subseteq Events
         /\ \A e \in Events : /\ e.session \in Sessions /\ e.session \in Nat /\ e.seq \in Nat /\ e.seq >= 1
                              /\ e.symbol \in Symbols
         /\ session # None => session \in Sessions /\ session \in Nat
         /\ Here \in Nat /\ \A s \in Sessions : lastSeq[s] \in Nat
         /\ batch # {} => Event \in batch
         /\ \A e \in batch : Event.seq <= e.seq
<1>1. \A s \in Sessions : s \in Nat
  BY IngestionAssumption DEF Sessions
<1>2. /\ DOMAIN ring = 1..Len(ring) /\ Len(ring) \in Nat
      /\ DOMAIN rows = 1..Len(rows) /\ Len(rows) \in Nat
  BY DEF StoreInv, TypesInv
<1>3. sidecar.session \in Sessions /\ sidecar.session \in Nat /\ sidecar.seq \in Nat
  <2>1. sidecar \in [session : Sessions, seq : 0..MaxSeq] /\ MaxSeq \in Nat
    BY IngestionAssumption DEF StoreInv, TypesInv
  <2>2. sidecar.session \in Sessions /\ sidecar.seq \in 0..MaxSeq
    BY <2>1
  <2> QED
    BY <1>1, <2>1, <2>2
<1>4. /\ inFlight \subseteq Events /\ RingSet \subseteq Events /\ batch \subseteq Events
      /\ Stored \subseteq EventsFiled /\ EventsFiled \subseteq Events
  BY DEF StoreInv, TypesInv, Known, RowsInv, Stored, EventsFiled
<1>5. ASSUME NEW e \in Events
      PROVE  /\ e.session \in Sessions /\ e.session \in Nat /\ e.seq \in Nat /\ e.seq >= 1
             /\ e.symbol \in Symbols
  <2>1. e.session \in Sessions /\ e.seq \in 1..MaxSeq /\ e.symbol \in Symbols /\ MaxSeq \in Nat
    BY IngestionAssumption DEF Events
  <2> QED
    BY <1>1, <2>1
<1>6. session # None => session \in Sessions /\ session \in Nat
  BY <1>1 DEF StoreInv, TypesInv
<1>7. Here \in Nat /\ \A s \in Sessions : lastSeq[s] \in Nat
  BY DEF StoreInv, TypesInv, Here
<1>8. batch # {} => Event \in batch /\ \A e \in batch : Event.seq <= e.seq
  BY <1>4, LeastEvent DEF Event
<1> QED
  BY <1>2, <1>3, <1>4, <1>5, <1>6, <1>7, <1>8

\* How far a session was passed, where none was misread.
LEMMA Facts ==
  ASSUME StoreInv, TrackedInv
  PROVE  /\ Level \in Nat /\ Level <= lastSeq[sidecar.session]
         /\ \A s \in Sessions : Mark(s) \in Nat /\ Mark(s) <= lastSeq[s]
<1>1. /\ sidecar.session \in Sessions /\ Here \in Nat
      /\ \A s \in Sessions : lastSeq[s] \in Nat /\ s # None
  BY StoreFacts, IngestionAssumption
<1>2. session # None => session \in Sessions /\ Here <= lastSeq[session]
  BY StoreFacts DEF TrackedInv, PassedInv
<1>3. \A s \in Sessions : Mark(s) \in Nat /\ Mark(s) <= lastSeq[s]
  BY <1>1, <1>2 DEF Mark
<1> QED
  BY <1>1, <1>3 DEF Level, Mark

LEMMA StoreSame ==
  ASSUME rows' = rows, files' = files
  PROVE  /\ Stored' = Stored /\ EventsFiled' = EventsFiled
         /\ \A p : Chain(p)' = Chain(p)
         /\ \A e : NewRow(e)' = NewRow(e)
  BY DEF Stored, EventsFiled, Chain, NewRow, PreviousHash

LEMMA NumbersStay ==
  ASSUME NumbersInv, sidecar' = sidecar, ring' = ring, inFlight' \subseteq inFlight,
         batch' \subseteq batch \cup RingSet, Stored' \cup EventsFiled' \subseteq batch \cup Stored \cup EventsFiled
  PROVE  NumbersInv'
<1>1. RingSet' = RingSet /\ Known' \subseteq Known
  BY DEF RingSet, Known
<1>2. \A e \in inFlight' : e \notin RingSet \cup batch' \cup Stored' \cup EventsFiled'
  BY <1>1 DEF NumbersInv
<1> QED
  BY <1>1, <1>2 DEF NumbersInv

LEMMA RowsStay ==
  ASSUME RowsInv, rows' = rows, files' = files
  PROVE  RowsInv'
<1>1. \A p : Chain(p)' = Chain(p)
  BY StoreSame
<1> QED
  BY <1>1 DEF RowsInv

LEMMA LastStays ==
  ASSUME LastInv, rows' = rows, lastSeq' = lastSeq, findings' = findings, misread \subseteq misread'
  PROVE  LastInv'
<1>1. Stored' = Stored /\ \A s, n : Accounted(s, n)' = Accounted(s, n)
  BY DEF Stored, Accounted
<1> QED
  BY <1>1 DEF LastInv

\* The ring stands still, and the session has been passed as far as before.
LEMMA RingStays ==
  ASSUME RingInv, rows' = rows, files' = files, batch' = batch, ring' = ring,
         Level' = Level, Polled' => Polled
  PROVE  RingInv'
<1>1. Stored' = Stored /\ EventsFiled' = EventsFiled /\ \A e : NewRow(e)' = NewRow(e)
  BY StoreSame
<1>2. Event' = Event
  BY DEF Event
<1>3. \A j : Leads(j) => Leads(j)'
  BY <1>1, <1>2 DEF Leads
<1> QED
  BY <1>1, <1>3 DEF RingInv

LEMMA EvictedStays ==
  ASSUME EvictedInv, Stored' = Stored, findings' = findings, ring' = ring,
         sidecar'.session = sidecar.session, batch' \subseteq batch
  PROVE  EvictedInv'
<1>1. RingSet' = RingSet /\ \A e : Overtaken(e)' = Overtaken(e)
  BY DEF RingSet, Overtaken
<1> QED
  BY <1>1 DEF EvictedInv

\* Nothing is stored, evaluated or passed.
LEMMA RulesStay ==
  ASSUME RulesInv, rows' = rows, evaluated' = evaluated, findings' = findings, lastSeq' = lastSeq,
         batch' = batch, session' = session, sidecar'.session = sidecar.session, crashes' = crashes,
         Here' = Here, Running' => Running
  PROVE  RulesInv'
<1>1. /\ Stored' = Stored /\ Event' = Event
      /\ \A e : Overtaken(e)' = Overtaken(e)
      /\ \A s : Mark(s)' = Mark(s)
  BY DEF Stored, Event, Overtaken, Mark
<1>2. \A e : Pending(e)' = Pending(e)
  BY <1>1 DEF Pending
<1>3. \A s : Missed(s)' = Missed(s)
  BY <1>1 DEF Missed
<1> QED
  BY <1>1, <1>2, <1>3 DEF RulesInv

LEMMA PollStays ==
  ASSUME PollInv, files' = files, UNCHANGED <<pc, memory>>,
         session # None => session <= sidecar'.session
  PROVE  PollInv'
<1>1. EventsFiled' = EventsFiled /\ Running' = Running
  BY DEF EventsFiled, Running
<1> QED
  BY <1>1 DEF PollInv, memory

LEMMA PassedStays ==
  ASSUME PassedInv, lastSeq' = lastSeq, UNCHANGED <<pc, memory>>
  PROVE  PassedInv'
<1>1. Event' = Event /\ Here' = Here
  BY DEF Event, memory, Running, Here
<1> QED
  BY <1>1 DEF PassedInv, memory

LEMMA AppendStays ==
  ASSUME AppendInv, rows' = rows, files' = files, batch' = batch, pc' = pc, tx' = tx,
         manifests' = manifests, partitions' = partitions
  PROVE  AppendInv'
<1>1. Stored' = Stored /\ Event' = Event /\ \A e : NewRow(e)' = NewRow(e) /\ \A p : Chain(p)' = Chain(p)
  BY StoreSame DEF Event
<1> QED
  BY <1>1 DEF AppendInv

LEMMA BegunStays ==
  ASSUME BegunInv, rows' = rows, files' = files, batch' = batch
  PROVE  BegunInv'
<1>1. Stored' = Stored /\ EventsFiled' = EventsFiled /\ Event' = Event /\ \A e : NewRow(e)' = NewRow(e)
  BY StoreSame DEF Event
<1> QED
  BY <1>1 DEF BegunInv

LEMMA ManifestsStay ==
  ASSUME ManifestsInv, rows' = rows, manifests' = manifests, batch' = batch,
         \A e \in RingSet' \cap Stored : e.seq > Level' => e \in RingSet /\ e.seq > Level
  PROVE  ManifestsInv'
<1>1. Stored' = Stored /\ Event' = Event /\ \A p : Fresh(p)' = Fresh(p)
  BY DEF Stored, Event, Chain, Fresh
<1> QED
  BY <1>1 DEF ManifestsInv

LEMMA CleanStays ==
  ASSUME CleanInv, rows' = rows, files' = files, manifests' = manifests,
         batch' = batch, pc' = pc, tx' = tx, torn' = torn
  PROVE  CleanInv'
<1>1. Stored' = Stored /\ Event' = Event /\ \A p : Fresh(p)' = Fresh(p)
  BY DEF Stored, Event, Chain, Fresh
<1> QED
  BY <1>1 DEF CleanInv

LEMMA MisreadStays ==
  ASSUME MisreadInv, sidecar'.session = sidecar.session, session' \in {None, session}, misread' = misread
  PROVE  MisreadInv'
  BY DEF MisreadInv

\* Under a stored event that no gap precedes, whatever is known is stored.
LEMMA LowerIsStored ==
  ASSUME StoreInv, NEW e \in Stored, e.session \notin misread, ~Overtaken(e),
         NEW h \in Known, h.session = e.session, h.seq < e.seq
  PROVE  h \in Stored
<1>1. /\ h \in Events /\ e \in Events /\ e.session \in Sessions /\ h.seq \in Nat /\ e.seq \in Nat /\ h.seq >= 1
      /\ lastSeq[e.session] \in Nat
  BY StoreFacts DEF StoreInv, TypesInv
<1>2. e.seq <= lastSeq[e.session]
  BY <1>1 DEF StoreInv, LastInv
<1>3. Accounted(e.session, h.seq)
  BY <1>1, <1>2 DEF StoreInv, LastInv
<1>4. ASSUME NEW f \in findings, f.kind = "CALLBACK_SEQUENCE", f.session = e.session, f.expected <= h.seq
      PROVE  FALSE
  <2>1. f.expected \in Nat
    BY DEF StoreInv, TypesInv
  <2> QED
    BY <1>1, <1>4, <2>1 DEF Overtaken
<1>5. PICK x \in Stored : x.session = e.session /\ x.seq = h.seq
  BY <1>3, <1>4 DEF Accounted
<1> QED
  BY <1>5 DEF StoreInv, NumbersInv, Known

-----------------------------------------------------------------------------
(* The sidecar.                                                            *)

LEMMA NextCallbackStore ==
  ASSUME StoreInv, NEW symbol \in Symbols, NextCallback(symbol)
  PROVE  StoreInv'
<1> PICK e : e = [session |-> sidecar.session, seq |-> sidecar.seq + 1, symbol |-> symbol]
  OBVIOUS
<1>1. /\ sidecar' = [sidecar EXCEPT !.seq = @ + 1] /\ sidecar.seq < MaxSeq
      /\ inFlight' = inFlight \cup {e} /\ ring' = ring
      /\ UNCHANGED <<rows, lastSeq, findings, partitions, files, manifests, tx>>
      /\ UNCHANGED <<pc, session, cursor, batch, processed, evaluated, crashes, faults, torn, misread>>
      /\ UNCHANGED <<pc, memory, evaluated>>
  BY DEF NextCallback, storeVars, memory, budget
<1>2. /\ sidecar'.session = sidecar.session /\ sidecar'.seq = sidecar.seq + 1
      /\ sidecar' \in [session : Sessions, seq : 0..MaxSeq]
      /\ e \in Events
  <2>1. sidecar \in [session : Sessions, seq : 0..MaxSeq] /\ MaxSeq \in Nat
    BY IngestionAssumption DEF StoreInv, TypesInv
  <2> QED
    BY <1>1, <2>1 DEF Events
<1>3. /\ Stored' = Stored /\ EventsFiled' = EventsFiled /\ RingSet' = RingSet /\ Known' = Known \cup {e}
  BY <1>1, <1>2 DEF Stored, EventsFiled, RingSet, Known
<1>4. TypesInv'
  <2>1. Known' \subseteq Events
    BY <1>2, <1>3 DEF StoreInv, TypesInv
  <2> QED
    BY <1>1, <1>2, <2>1 DEF StoreInv, TypesInv
<1>5. NumbersInv'
  <2>1. /\ \A x \in Known : x \in Events /\ x.seq \in Nat
        /\ sidecar.seq \in Nat /\ sidecar.session \in Nat
        /\ e.session = sidecar.session /\ e.seq = sidecar.seq + 1
    BY StoreFacts DEF StoreInv, TypesInv
  <2>2. \A x \in Known : ~(x.session = e.session /\ x.seq = e.seq)
    BY <2>1 DEF StoreInv, NumbersInv
  <2>3. e \notin Known
    BY <2>2
  <2>4. \A x \in Known' : x.session <= sidecar'.session /\ (x.session = sidecar'.session => x.seq <= sidecar'.seq)
    BY <1>2, <1>3, <2>1 DEF StoreInv, NumbersInv
  <2>5. \A x, y \in Known' : x.session = y.session /\ x.seq = y.seq => x = y
    BY <1>3, <2>2 DEF StoreInv, NumbersInv
  <2>6. \A x \in inFlight' : x \notin RingSet' \cup batch' \cup Stored' \cup EventsFiled'
    BY <1>1, <1>3, <2>3 DEF StoreInv, NumbersInv, Known
  <2>7. \A x \in inFlight' \cup RingSet' : x.session = sidecar'.session
    BY <1>1, <1>2, <1>3, <2>1 DEF StoreInv, NumbersInv
  <2> QED
    BY <1>1, <2>4, <2>5, <2>6, <2>7 DEF StoreInv, NumbersInv
<1>6. RowsInv' /\ LastInv' /\ PollInv' /\ AppendInv'
  BY <1>1, <1>2, RowsStay, LastStays, PollStays, AppendStays DEF StoreInv, PollInv
<1>7. CleanInv' /\ MisreadInv'
  BY <1>1, <1>2, CleanStays, MisreadStays DEF StoreInv
<1> QED
  BY <1>4, <1>5, <1>6, <1>7 DEF StoreInv

LEMMA NextCallbackInv ==
  ASSUME TrackedInv, NEW symbol \in Symbols, NextCallback(symbol)
  PROVE  TrackedInv'
<1>1. /\ sidecar'.session = sidecar.session /\ ring' = ring
      /\ UNCHANGED <<rows, lastSeq, findings, partitions, files, manifests, tx>>
      /\ UNCHANGED <<pc, session, cursor, batch, processed, evaluated, crashes>>
      /\ UNCHANGED <<pc, memory>>
  BY DEF NextCallback, storeVars, memory, budget
<1>2. /\ Stored' = Stored /\ RingSet' = RingSet
      /\ Running' = Running /\ Here' = Here /\ Level' = Level /\ Polled' = Polled
  BY <1>1 DEF Stored, RingSet, Running, Here, Level, Polled
<1> QED
  BY <1>1, <1>2, PassedStays, BegunStays, RingStays, EvictedStays, RulesStay, ManifestsStay DEF TrackedInv

\* What enters is last; the first may leave.
LEMMA EnterIs ==
  ASSUME StoreInv, NEW e \in Events, ring' = Enter(e)
  PROVE  \E k \in {0, 1} :
           /\ k <= Len(ring) /\ Len(ring') = Len(ring) + 1 - k
           /\ ring' \in Seq(Events) /\ Len(ring') <= RingSize
           /\ DOMAIN ring' = 1..Len(ring') /\ ring'[Len(ring')] = e
           /\ \A i \in 1..(Len(ring') - 1) : i + k \in DOMAIN ring /\ ring'[i] = ring[i + k]
<1>1. ring \in Seq(Events) /\ Len(ring) <= RingSize /\ RingSize \in Nat /\ RingSize >= 1 /\ Len(ring) \in Nat
  BY IngestionAssumption DEF StoreInv, TypesInv
<1>2. CASE Len(ring) = RingSize
  <2>1. /\ Tail(ring) \in Seq(Events) /\ Len(Tail(ring)) = Len(ring) - 1
        /\ \A i \in 1..(Len(ring) - 1) : Tail(ring)[i] = ring[i + 1]
    BY <1>1, <1>2
  <2>2. ring' = Append(Tail(ring), e)
    BY <1>2 DEF Enter
  <2>3. /\ ring' \in Seq(Events) /\ Len(ring') = Len(ring) /\ DOMAIN ring' = 1..Len(ring')
        /\ ring'[Len(ring')] = e /\ \A i \in 1..(Len(ring) - 1) : ring'[i] = Tail(ring)[i]
    BY <1>1, <2>1, <2>2, AppendProperties
  <2>4. \A i \in 1..(Len(ring') - 1) : i + 1 \in DOMAIN ring /\ ring'[i] = ring[i + 1]
    BY <1>1, <2>1, <2>3
  <2> QED
    BY <1>1, <1>2, <2>3, <2>4
<1>3. CASE Len(ring) # RingSize
  <2>1. ring' = Append(ring, e)
    BY <1>3 DEF Enter
  <2>2. /\ ring' \in Seq(Events) /\ Len(ring') = Len(ring) + 1 /\ DOMAIN ring' = 1..Len(ring')
        /\ ring'[Len(ring')] = e /\ \A i \in 1..Len(ring) : ring'[i] = ring[i]
    BY <1>1, <2>1, AppendProperties
  <2>3. \A i \in 1..(Len(ring') - 1) : i + 0 \in DOMAIN ring /\ ring'[i] = ring[i + 0]
    BY <1>1, <2>2
  <2> QED
    BY <1>1, <1>3, <2>2, <2>3
<1> QED
  BY <1>2, <1>3

LEMMA RingAppendStore ==
  ASSUME StoreInv, NEW e \in inFlight, RingAppend(e)
  PROVE  StoreInv'
<1>1. /\ inFlight' = inFlight \ {e} /\ ring' = Enter(e) /\ sidecar' = sidecar
      /\ UNCHANGED <<rows, lastSeq, findings, partitions, files, manifests, tx>>
      /\ UNCHANGED <<pc, session, cursor, batch, processed, evaluated, crashes, faults, torn, misread>>
      /\ UNCHANGED <<pc, memory, evaluated>>
  BY DEF RingAppend, storeVars, memory, budget
<1>2. /\ Stored' = Stored /\ EventsFiled' = EventsFiled /\ Event' = Event
  BY <1>1 DEF Stored, EventsFiled, Event
<1>3. /\ e \in Events /\ e.seq \in Nat /\ e.session = sidecar.session
      /\ e \notin RingSet \cup batch \cup Stored \cup EventsFiled
      /\ \A x \in Known : x \in Events /\ x.seq \in Nat
      /\ DOMAIN ring = 1..Len(ring) /\ Len(ring) \in Nat
  BY StoreFacts DEF StoreInv, TypesInv, NumbersInv
<1>4. PICK k \in {0, 1} :
        /\ k <= Len(ring) /\ Len(ring') = Len(ring) + 1 - k
        /\ ring' \in Seq(Events) /\ Len(ring') <= RingSize
        /\ DOMAIN ring' = 1..Len(ring') /\ ring'[Len(ring')] = e
        /\ \A i \in 1..(Len(ring') - 1) : i + k \in DOMAIN ring /\ ring'[i] = ring[i + k]
  BY <1>1, <1>3, EnterIs
<1> PICK n : n = Len(ring')
  OBVIOUS
<1>5. /\ n = Len(ring) + 1 - k /\ n \in Nat /\ n >= 1 /\ DOMAIN ring' = 1..n /\ ring'[n] = e
      /\ \A i \in 1..(n - 1) : i + k \in DOMAIN ring /\ ring'[i] = ring[i + k]
  BY <1>3, <1>4
<1>6. RingSet' \subseteq RingSet \cup {e} /\ e \in RingSet'
  <2>1. ASSUME NEW i \in 1..n PROVE ring'[i] \in RingSet \cup {e}
    <3>1. i = n \/ i \in 1..(n - 1)
      BY <1>5
    <3> QED
      BY <1>5, <3>1 DEF RingSet
  <2>2. n \in 1..n
    BY <1>5
  <2> QED
    BY <1>5, <2>1, <2>2 DEF RingSet
<1>7. Known' \subseteq Known
  BY <1>1, <1>2, <1>6 DEF Known
<1>8. TypesInv'
  BY <1>1, <1>4, <1>7 DEF StoreInv, TypesInv
<1>9. NumbersInv'
  <2>1. ASSUME NEW i \in 1..n, NEW j \in 1..n, ring'[i] = ring'[j] PROVE i = j
    <3>1. \A h \in 1..(n - 1) : ring'[h] \in RingSet /\ ring'[h] # e
      BY <1>3, <1>5 DEF RingSet
    <3>2. CASE i \in 1..(n - 1) /\ j \in 1..(n - 1)
      <4>1. i + k = j + k
        BY <1>5, <2>1, <3>2, SMTT(60) DEF StoreInv, NumbersInv
      <4> QED
        BY <1>5, <4>1
    <3>3. \A h \in 1..n : h = n \/ h \in 1..(n - 1)
      BY <1>5
    <3> QED
      BY <1>5, <2>1, <3>1, <3>2, <3>3
  <2>2. \A x \in inFlight' : x \notin RingSet' \cup batch' \cup Stored' \cup EventsFiled'
    BY <1>1, <1>2, <1>6 DEF StoreInv, NumbersInv
  <2>3. \A x \in inFlight' \cup RingSet' : x \in inFlight \cup RingSet
    BY <1>1, <1>6
  <2> QED
    BY <1>1, <1>5, <1>7, <2>1, <2>2, <2>3 DEF StoreInv, NumbersInv
<1>10. RowsInv' /\ LastInv' /\ PollInv' /\ AppendInv'
  BY <1>1, RowsStay, LastStays, PollStays, AppendStays DEF StoreInv, PollInv
<1>11. CleanInv' /\ MisreadInv'
  BY <1>1, CleanStays, MisreadStays DEF StoreInv
<1> QED
  BY <1>8, <1>9, <1>10, <1>11 DEF StoreInv

LEMMA RingAppendInv ==
  ASSUME StoreInv, TrackedInv, Aware, NEW e \in inFlight, RingAppend(e)
  PROVE  TrackedInv'
<1>1. /\ inFlight' = inFlight \ {e} /\ ring' = Enter(e) /\ sidecar' = sidecar
      /\ UNCHANGED <<rows, lastSeq, findings, partitions, files, manifests, tx>>
      /\ UNCHANGED <<pc, session, cursor, batch, processed, evaluated, crashes, faults, torn>>
      /\ UNCHANGED <<pc, memory>>
  BY DEF RingAppend, storeVars, memory, budget
<1>2. /\ Stored' = Stored /\ EventsFiled' = EventsFiled /\ Event' = Event
      /\ Running' = Running /\ Here' = Here /\ Level' = Level /\ Polled' = Polled
  BY <1>1 DEF Stored, EventsFiled, Event, Running, Here, Level, Polled
<1>3. /\ e \in Events /\ e.seq \in Nat /\ e.session = sidecar.session
      /\ e \notin RingSet \cup batch \cup Stored \cup EventsFiled
      /\ \A x \in Known : x \in Events /\ x.seq \in Nat
      /\ DOMAIN ring = 1..Len(ring) /\ Len(ring) \in Nat
  BY StoreFacts DEF StoreInv, TypesInv, NumbersInv
<1>4. PICK k \in {0, 1} :
        /\ k <= Len(ring) /\ Len(ring') = Len(ring) + 1 - k
        /\ ring' \in Seq(Events) /\ Len(ring') <= RingSize
        /\ DOMAIN ring' = 1..Len(ring') /\ ring'[Len(ring')] = e
        /\ \A i \in 1..(Len(ring') - 1) : i + k \in DOMAIN ring /\ ring'[i] = ring[i + k]
  BY <1>1, <1>3, EnterIs
<1> PICK n : n = Len(ring')
  OBVIOUS
<1>5. /\ n = Len(ring) + 1 - k /\ n \in Nat /\ n >= 1 /\ DOMAIN ring' = 1..n /\ ring'[n] = e
      /\ \A i \in 1..(n - 1) : i + k \in DOMAIN ring /\ ring'[i] = ring[i + k]
  BY <1>3, <1>4
<1>6. RingSet' \subseteq RingSet \cup {e} /\ e \in RingSet'
  <2>1. ASSUME NEW i \in 1..n PROVE ring'[i] \in RingSet \cup {e}
    <3>1. i = n \/ i \in 1..(n - 1)
      BY <1>5
    <3> QED
      BY <1>5, <3>1 DEF RingSet
  <2>2. n \in 1..n
    BY <1>5
  <2> QED
    BY <1>5, <2>1, <2>2 DEF RingSet
<1>7. ASSUME NEW x \in RingSet \ RingSet'
      PROVE  1 \in DOMAIN ring /\ x = ring[1] /\ \A h \in RingSet' : h = e \/ \E i \in 2..Len(ring) : h = ring[i]
  <2>1. PICK i \in DOMAIN ring : x = ring[i]
    BY <1>7 DEF RingSet
  <2>2. k = 1 /\ i = 1
    <3>1. CASE i - k \in 1..(n - 1)
      <4>1. (i - k) + k = i /\ i - k \in 1..n
        BY <1>3, <1>5, <3>1
      <4>2. ring'[i - k] = ring[i]
        BY <1>5, <3>1, <4>1
      <4> QED
        BY <1>5, <1>7, <2>1, <4>1, <4>2 DEF RingSet
    <3>2. CASE i - k \notin 1..(n - 1)
      BY <1>3, <1>5, <3>2
    <3> QED
      BY <3>1, <3>2
  <2>3. \A j \in 1..(n - 1) : j + 1 \in 2..Len(ring) /\ ring'[j] = ring[j + 1]
    BY <1>3, <1>5, <2>2
  <2>4. ASSUME NEW h \in RingSet', h # e PROVE \E j \in 2..Len(ring) : h = ring[j]
    <3>1. PICK j \in 1..n : h = ring'[j]
      BY <1>5 DEF RingSet
    <3>2. j \in 1..(n - 1)
      BY <1>5, <2>4, <3>1
    <3> QED
      BY <2>3, <3>1, <3>2
  <2> QED
    BY <2>1, <2>2, <2>4
<1>8. RingInv'
  <2>1. \A x : NewRow(x)' = NewRow(x)
    BY <1>1, StoreSame
  <2>2. ASSUME NEW j \in 1..n, ring'[j] \in EventsFiled \cup Stored \cup batch
        PROVE  /\ j + k \in DOMAIN ring /\ ring'[j] = ring[j + k]
               /\ \A i \in 1..(j - 1) : i + k \in 1..(j + k - 1) /\ ring'[i] = ring[i + k]
    <3>1. j # n
      BY <1>3, <1>5, <2>2
    <3>2. j \in 1..(n - 1) /\ \A i \in 1..(j - 1) : i \in 1..(n - 1)
      BY <1>5, <3>1
    <3> QED
      BY <1>5, <3>2
  <2>3. ASSUME NEW j \in DOMAIN ring', ring'[j] \in EventsFiled', ring'[j].seq > Level' PROVE Leads(j)'
    <3>1. j \in 1..n /\ ring'[j] \in EventsFiled
      BY <1>2, <1>5, <2>3
    <3> PICK m : m = j + k
      OBVIOUS
    <3>2. m \in DOMAIN ring /\ ring'[j] = ring[m] /\ \A i \in 1..(j - 1) : i + k \in 1..(m - 1) /\ ring'[i] = ring[i + k]
      BY <2>2, <3>1
    <3>3. Leads(m)
      BY <1>2, <2>3, <3>1, <3>2 DEF TrackedInv, RingInv
    <3> QED
      BY <1>1, <1>2, <2>1, <3>2, <3>3 DEF Leads
  <2>4. ASSUME NEW j \in DOMAIN ring', NEW i \in 1..(j - 1)
        PROVE  /\ ring'[j] \in Stored' \cup batch' => ring'[i].seq < ring'[j].seq
               /\ ring'[j] \in batch' => ring'[i].seq <= Level' \/ ring'[i] \in batch'
    <3> SUFFICES ASSUME ring'[j] \in Stored \cup batch
                 PROVE  /\ ring'[i].seq < ring'[j].seq
                        /\ ring'[j] \in batch => ring'[i].seq <= Level \/ ring'[i] \in batch
      BY <1>1, <1>2
    <3> PICK m, h : m = j + k /\ h = i + k
      OBVIOUS
    <3>1. m \in DOMAIN ring /\ ring'[j] = ring[m] /\ h \in 1..(m - 1) /\ ring'[i] = ring[h]
      BY <1>5, <2>2, SMTT(60)
    <3> QED
      BY <3>1 DEF TrackedInv, RingInv
  <2> QED
    BY <2>3, <2>4 DEF RingInv
<1>9. EvictedInv'
  <2> SUFFICES ASSUME NEW x \in (Stored \cup batch) \ RingSet', x.session = sidecar.session
               PROVE  /\ ring' # <<>>
                      /\ x \in Stored /\ ~Overtaken(x) => \A h \in RingSet' : h.seq > x.seq
                      /\ x \in batch => \A h \in RingSet' \cap (Stored \cup batch) : h.seq > x.seq
    <3>1. \A x : Overtaken(x)' = Overtaken(x)
      BY <1>1 DEF Overtaken
    <3> QED
      BY <1>1, <1>2, <3>1 DEF EvictedInv
  <2>1. ring' # <<>>
    BY <1>5
  <2>2. \A h \in RingSet' : h \in Known /\ h.session = x.session /\ h.seq \in Nat /\ x.seq \in Nat /\ h # x
    BY <1>3, <1>6 DEF StoreInv, NumbersInv, Known
  <2>3. \A h \in RingSet' : h.seq # x.seq
    BY <2>2 DEF StoreInv, NumbersInv, Known
  <2>4. ASSUME NEW h \in RingSet', h \in Stored \cup batch PROVE x \in RingSet => h.seq > x.seq
    <3> SUFFICES ASSUME x \in RingSet PROVE h.seq > x.seq
      OBVIOUS
    <3>1. x = ring[1] /\ \E i \in 2..Len(ring) : h = ring[i]
      BY <1>3, <1>7, <2>4
    <3>2. PICK i \in 2..Len(ring) : h = ring[i]
      BY <3>1
    <3>3. i \in DOMAIN ring /\ 1 \in 1..(i - 1)
      BY <1>3, <3>2
    <3>4. ring[1].seq < ring[i].seq
      BY <2>4, <3>2, <3>3 DEF TrackedInv, RingInv
    <3> QED
      BY <2>2, <3>1, <3>2, <3>4
  <2>5. ASSUME x \in Stored, ~Overtaken(x), NEW h \in RingSet' PROVE h.seq > x.seq
    <3> SUFFICES ASSUME h.seq < x.seq PROVE FALSE
      BY <2>2, <2>3
    <3>1. h \in Stored
      BY <2>2, <2>5, LowerIsStored DEF Aware
    <3>2. h \in RingSet
      BY <1>3, <1>6, <3>1
    <3>3. CASE x \in RingSet
      BY <2>2, <2>4, <3>1, <3>3
    <3>4. CASE x \notin RingSet
      BY <2>2, <2>5, <3>2, <3>4 DEF TrackedInv, EvictedInv
    <3> QED
      BY <3>3, <3>4
  <2>6. ASSUME x \in batch, NEW h \in RingSet', h \in Stored \cup batch PROVE h.seq > x.seq
    <3>1. h \in RingSet
      BY <1>3, <1>6, <2>6
    <3> QED
      BY <2>4, <2>6, <3>1 DEF TrackedInv, EvictedInv
  <2> QED
    BY <2>1, <2>5, <2>6
<1>10. PassedInv' /\ BegunInv' /\ RulesInv' /\ ManifestsInv'
  BY <1>1, <1>2, <1>3, <1>6, PassedStays, BegunStays, RulesStay, ManifestsStay DEF TrackedInv
<1> QED
  BY <1>8, <1>9, <1>10 DEF TrackedInv

LEMMA SidecarRestartsStore ==
  ASSUME StoreInv, SidecarRestarts
  PROVE  StoreInv' /\ \A e \in Known \cup Known' : e.session # sidecar'.session
<1>1. /\ sidecar' = [session |-> sidecar.session + 1, seq |-> 0] /\ sidecar.session < MaxSessions
      /\ inFlight' = {} /\ ring' = <<>>
      /\ UNCHANGED <<rows, lastSeq, findings, partitions, files, manifests, tx>>
      /\ UNCHANGED <<pc, session, cursor, batch, processed, evaluated, crashes, faults, torn, misread>>
      /\ UNCHANGED <<pc, memory>>
  BY DEF SidecarRestarts, storeVars, memory, budget
<1> PICK s : s = sidecar.session
  OBVIOUS
<1>2. /\ s \in Nat /\ sidecar'.session = s + 1 /\ sidecar'.seq = 0
      /\ s + 1 \in Sessions /\ sidecar' \in [session : Sessions, seq : 0..MaxSeq]
  BY <1>1, StoreFacts, IngestionAssumption, SMTT(60) DEF Sessions
<1>3. /\ Stored' = Stored /\ EventsFiled' = EventsFiled
      /\ DOMAIN ring' = {} /\ RingSet' = {} /\ Known' \subseteq Known
  BY <1>1 DEF Stored, EventsFiled, RingSet, Known
<1>4. \A e \in Known : e \in Events /\ e.session \in Nat /\ e.session <= s
  BY StoreFacts DEF StoreInv, TypesInv, NumbersInv
<1>5. TypesInv'
  BY <1>1, <1>2, <1>3, IngestionAssumption DEF StoreInv, TypesInv
<1>6. \A e \in Known : e.session <= sidecar'.session /\ e.session # sidecar'.session
  BY <1>2, <1>4
<1>7. NumbersInv'
  BY <1>1, <1>3, <1>6 DEF StoreInv, NumbersInv
<1>8. session # None => session <= sidecar'.session
  BY <1>2, StoreFacts DEF StoreInv, PollInv
<1>9. RowsInv' /\ LastInv' /\ PollInv' /\ AppendInv' /\ CleanInv'
  BY <1>1, <1>8, RowsStay, LastStays, PollStays, AppendStays, CleanStays DEF StoreInv
<1>10. MisreadInv'
  <2>1. \A x \in misread : x \in Sessions /\ x \in Nat /\ x <= s
    BY IngestionAssumption DEF StoreInv, MisreadInv, Sessions
  <2> QED
    BY <1>1, <1>2, <2>1 DEF MisreadInv
<1> QED
  BY <1>3, <1>5, <1>6, <1>7, <1>9, <1>10 DEF StoreInv

LEMMA SidecarRestartsInv ==
  ASSUME StoreInv, TrackedInv, SidecarRestarts
  PROVE  TrackedInv'
<1>1. /\ sidecar'.session = sidecar.session + 1 /\ ring' = <<>>
      /\ UNCHANGED <<rows, lastSeq, findings, partitions, files, manifests, tx>>
      /\ UNCHANGED <<pc, session, cursor, batch, processed, evaluated, crashes>>
      /\ UNCHANGED <<pc, memory>>
  BY DEF SidecarRestarts, storeVars, memory, budget
<1> PICK c : c = sidecar'.session
  OBVIOUS
<1>2. /\ Stored' = Stored /\ EventsFiled' = EventsFiled /\ Event' = Event
      /\ Running' = Running /\ Here' = Here /\ \A x : Mark(x)' = Mark(x)
      /\ DOMAIN ring' = {} /\ RingSet' = {}
  BY <1>1 DEF Stored, EventsFiled, Event, Running, Here, Mark, RingSet
<1>3. \A e \in Stored \cup batch : e.session # c
  BY SidecarRestartsStore DEF Known
<1>4. PassedInv' /\ BegunInv'
  BY <1>1, PassedStays, BegunStays DEF TrackedInv
<1>5. RingInv' /\ EvictedInv'
  BY <1>1, <1>2, <1>3 DEF RingInv, EvictedInv
<1>6. RulesInv'
  <2>1. /\ \A e : Overtaken(e)' = Overtaken(e) /\ Pending(e)' = Pending(e)
        /\ \A x : Missed(x)' = Missed(x)
    BY <1>1, <1>2 DEF Overtaken, Pending, Missed
  <2>2. Missed(c) = {}
    BY <1>3 DEF Missed
  <2>3. Cardinality(Missed(c)) <= crashes
    <3>1. Cardinality({}) = 0
      BY FS_EmptySet
    <3>2. crashes \in Nat
      BY DEF StoreInv, TypesInv
    <3> QED
      BY <2>2, <3>1, <3>2
  <2>4. \A x \in Sessions : x \in {session', c} => Cardinality(Missed(x)) <= crashes
    BY <1>1, <2>3 DEF TrackedInv, RulesInv
  <2> QED
    BY <1>1, <1>2, <2>1, <2>4 DEF TrackedInv, RulesInv
<1>7. ManifestsInv'
  BY <1>1, <1>2, ManifestsStay DEF TrackedInv
<1> QED
  BY <1>4, <1>5, <1>6, <1>7 DEF TrackedInv

-----------------------------------------------------------------------------
(* poll_once(): steps that store, evaluate and pass nothing.               *)

LEMMA MoveStore ==
  ASSUME StoreInv, Running,
         UNCHANGED <<rows, lastSeq, findings, files>>, UNCHANGED <<sidecar, inFlight, ring>>,
         UNCHANGED <<session, batch, processed, cursor, crashes, misread>>,
         pc' \in Places, Running', torn' \in Nat,
         pc' \in Dirty \cup {"evaluate"} => batch # {},
         DOMAIN partitions' = Symbols, DOMAIN manifests' = Symbols
  PROVE  TypesInv' /\ NumbersInv' /\ RowsInv' /\ LastInv' /\ PollInv' /\ MisreadInv'
<1>1. Stored' = Stored /\ EventsFiled' = EventsFiled /\ Known' = Known
  BY StoreSame DEF Known, RingSet
<1>2. TypesInv'
  BY <1>1 DEF StoreInv, TypesInv
<1>3. NumbersInv'
  BY <1>1, NumbersStay DEF StoreInv
<1>4. PollInv'
  BY <1>1 DEF StoreInv, PollInv, Running
<1> QED
  BY <1>2, <1>3, <1>4, RowsStay, LastStays, MisreadStays DEF StoreInv

LEMMA MoveTracked ==
  ASSUME StoreInv, TrackedInv, Running,
         UNCHANGED <<rows, lastSeq, findings, files>>, UNCHANGED <<sidecar, inFlight, ring>>,
         UNCHANGED <<session, cursor, batch, processed, evaluated, crashes>>, Running'
  PROVE  PassedInv' /\ BegunInv' /\ RingInv' /\ EvictedInv' /\ RulesInv'
<1>1. /\ Stored' = Stored /\ Event' = Event /\ Here' = Here /\ Level' = Level /\ Polled' = Polled
  BY StoreSame DEF Event, Here, Level, Polled
<1>2. PassedInv'
  BY <1>1 DEF TrackedInv, PassedInv
<1> QED
  BY <1>1, <1>2, BegunStays, RingStays, EvictedStays, RulesStay DEF TrackedInv

\* Where the event is, before and while it is appended.
LEMMA EventIs ==
  ASSUME StoreInv, batch # {}
  PROVE  /\ Event \in batch /\ Event \in Events /\ Partition(Event) \in Symbols
         /\ Event.session = session /\ session \in Sessions /\ Event.seq > Here /\ Running
         /\ pc \in Writing => /\ Event \notin Stored /\ tx.row = NewRow(Event) /\ tx.row \in files
                              /\ tx.row.event = Event
<1>1. Event \in batch /\ Event \in Events /\ Partition(Event) \in Symbols /\ Event.session \in Sessions
  BY StoreFacts DEF Partition
<1>2. Running /\ Event.session = session /\ Event.seq > processed
  BY <1>1 DEF StoreInv, PollInv
<1>3. pc \in Writing => Event \notin Stored /\ tx.row = NewRow(Event) /\ tx.row \in files
  BY <1>1 DEF StoreInv, AppendInv
<1> QED
  BY <1>1, <1>2, <1>3 DEF Here, NewRow

\* The manifest of the event's partition is rewritten of its rows, or stays.
LEMMA ManifestsKept ==
  ASSUME StoreInv, TrackedInv, batch # {}, rows' = rows, batch' = batch, ring' = ring, Level' = Level,
         \/ manifests' = manifests
         \/ manifests' = [manifests EXCEPT ![Partition(Event)] = Chain(Partition(Event))]
  PROVE  ManifestsInv'
<1> PICK q : q = Partition(Event)
  OBVIOUS
<1>1. /\ Stored' = Stored /\ Event' = Event /\ RingSet' = RingSet /\ \A p : Chain(p)' = Chain(p)
      /\ q \in Symbols
  BY EventIs DEF Stored, Event, RingSet, Chain
<1>2. \A p \in Symbols : Fresh(p) => Fresh(p)'
  BY <1>1 DEF Fresh, StoreInv, TypesInv
<1>3. /\ \A e \in batch : e = Event /\ e \in Stored => Fresh(Partition(e)) /\ Partition(e) \in Symbols
      /\ \A e \in RingSet \cap Stored : e.seq > Level => Fresh(Partition(e)) /\ Partition(e) \in Symbols
  BY StoreFacts DEF TrackedInv, ManifestsInv, Partition
<1>4. ASSUME NEW e, Fresh(Partition(e)), Partition(e) \in Symbols PROVE Fresh(Partition(e))'
  <2> PICK p : p = Partition(e)
    OBVIOUS
  <2>1. Fresh(p)'
    BY <1>2, <1>4
  <2> QED
    BY <2>1 DEF Partition
<1> QED
  BY <1>1, <1>3, <1>4 DEF ManifestsInv

\* Steps that leave the store alone.
LEMMA PauseStore ==
  ASSUME StoreInv, Running, UNCHANGED <<storeVars, sidecarVars, memory, crashes, torn, misread>>,
         pc' \in Places, Running', pc' \notin {"manifest", "commit"},
         pc \in Dirty => pc' \in Dirty, pc' = "undo" => pc \in Writing,
         pc \in Writing => pc' \in Writing,
         pc' \in Dirty \cup {"evaluate"} => batch # {},
         pc' = "evaluate" => Event \in Stored
  PROVE  StoreInv'
<1>1. /\ UNCHANGED <<rows, lastSeq, findings, files>> /\ UNCHANGED <<sidecar, inFlight, ring>>
      /\ UNCHANGED <<session, batch, processed, cursor, crashes, misread>>
      /\ UNCHANGED <<partitions, manifests, tx, torn>>
      /\ pc' \in Writing => pc \in Writing
  BY DEF storeVars, sidecarVars, memory, Writing
<1>2. DOMAIN partitions' = Symbols /\ DOMAIN manifests' = Symbols /\ torn' \in Nat
  BY <1>1 DEF StoreInv, TypesInv
<1>3. /\ Stored' = Stored /\ Event' = Event /\ \A e : NewRow(e)' = NewRow(e)
      /\ \A p : Fresh(p)' = Fresh(p) /\ Chain(p)' = Chain(p)
  BY <1>1, StoreSame DEF Event, Fresh
<1>4. AppendInv'
  BY <1>1, <1>3 DEF StoreInv, AppendInv
<1>5. CleanInv'
  BY <1>1, <1>3 DEF StoreInv, CleanInv
<1> QED
  BY <1>1, <1>2, <1>4, <1>5, MoveStore DEF StoreInv

LEMMA PauseInv ==
  ASSUME StoreInv, TrackedInv, Running, UNCHANGED <<storeVars, sidecarVars, memory, evaluated, crashes>>, Running'
  PROVE  TrackedInv'
<1>1. /\ UNCHANGED <<rows, lastSeq, findings, files>> /\ UNCHANGED <<sidecar, inFlight, ring>>
      /\ UNCHANGED <<session, cursor, batch, processed, evaluated, crashes>>
      /\ manifests' = manifests
  BY DEF storeVars, sidecarVars, memory
<1>2. RingSet' = RingSet /\ Level' = Level
  BY <1>1 DEF RingSet, Level, Here
<1> QED
  BY <1>1, <1>2, MoveTracked, ManifestsStay DEF TrackedInv

LEMMA AppendBreaksStore ==
  ASSUME StoreInv, AppendBreaks
  PROVE  StoreInv' /\ Running /\ Running'
<1>1. UNCHANGED <<storeVars, sidecarVars, memory, crashes, torn, misread>>
  BY DEF AppendBreaks
<1>2. CASE pc \in {"manifest", "commit"} /\ pc' = "undo"
  <2>1. batch # {}
    BY <1>2 DEF StoreInv, PollInv, Dirty, Writing
  <2> QED
    BY <1>1, <1>2, <2>1, PauseStore DEF Running, Places, Dirty, Writing
<1>3. CASE pc = "next" /\ batch # {} /\ pc' = "rebuild"
  BY <1>1, <1>3, PauseStore DEF Running, Places, Dirty, Writing
<1> QED
  BY <1>2, <1>3 DEF AppendBreaks

LEMMA AppendBreaksInv ==
  ASSUME StoreInv, TrackedInv, AppendBreaks
  PROVE  TrackedInv'
  BY AppendBreaksStore, PauseInv DEF AppendBreaks

LEMMA EvaluateBreaksStore ==
  ASSUME StoreInv, EvaluateBreaks
  PROVE  StoreInv'
<1>1. UNCHANGED <<storeVars, sidecarVars, memory, crashes, torn, misread>> /\ pc = "evaluate" /\ pc' = "finish"
  BY DEF EvaluateBreaks
<1> QED
  BY <1>1, PauseStore DEF Running, Places, Dirty, Writing

LEMMA EvaluateBreaksInv ==
  ASSUME StoreInv, TrackedInv, EvaluateBreaks
  PROVE  TrackedInv'
  BY PauseInv DEF EvaluateBreaks, Running

\* append() of an event that is stored, or has another file.
LEMMA AppendFindsStore ==
  ASSUME StoreInv, AppendOpens, pc' # "manifest"
  PROVE  StoreInv'
<1>1. /\ pc = "next" /\ batch # {} /\ UNCHANGED storeVars
      /\ pc' \in {"evaluate", "rebuild"} /\ (pc' = "evaluate" => Event \in Stored)
  BY DEF AppendOpens, IsDuplicate
<1>2. UNCHANGED <<storeVars, sidecarVars, memory, crashes, torn, misread>>
  BY <1>1 DEF AppendOpens, budget
<1> QED
  BY <1>1, <1>2, PauseStore DEF Running, Places, Dirty, Writing

LEMMA AppendFindsInv ==
  ASSUME StoreInv, TrackedInv, AppendOpens, pc' # "manifest"
  PROVE  TrackedInv'
  BY PauseInv DEF AppendOpens, IsDuplicate, budget, Running

\* What the ring still holds of what is begun is what the poll is at.
LEMMA AheadIsEvent ==
  ASSUME StoreInv, TrackedInv, Running, NEW x \in RingSet, x \in EventsFiled, x.seq > Level
  PROVE  x = Event /\ x \in batch
<1>1. PICK j \in DOMAIN ring : ring[j] = x
  BY DEF RingSet
<1>2. Leads(j)
  BY <1>1 DEF TrackedInv, RingInv
<1>3. x.session = sidecar.session /\ session # None
  BY DEF StoreInv, NumbersInv, PollInv, Running
<1>4. sidecar.session <= session /\ session <= sidecar.session
  BY <1>3 DEF StoreInv, PollInv
<1>5. session = sidecar.session
  BY <1>3, <1>4, StoreFacts
<1> QED
  BY <1>1, <1>2, <1>5 DEF Leads, Polled

LEMMA AppendManifestStore ==
  ASSUME StoreInv, AppendManifest
  PROVE  StoreInv'
<1> PICK e, q : e = Event /\ q = Partition(e)
  OBVIOUS
<1>1. /\ pc = "manifest" /\ pc' = "commit" /\ Running
      /\ UNCHANGED <<rows, lastSeq, findings, files>> /\ UNCHANGED <<sidecar, inFlight, ring>>
      /\ UNCHANGED <<session, batch, processed, cursor, crashes, misread>>
      /\ UNCHANGED <<partitions, tx, torn>>
  BY DEF AppendManifest, WriteManifest, sidecarVars, memory, budget, Running
<1>2. /\ batch # {} /\ e \in batch /\ e \notin Stored /\ q \in Symbols
      /\ tx.row.event = e /\ tx.row = NewRow(e) /\ tx.row \in files
  BY <1>1, EventIs DEF StoreInv, PollInv, Dirty, Writing
<1>3. manifests' = [manifests EXCEPT ![q] = PartitionRows(Append(rows, tx.row), q)]
  BY <1>2 DEF AppendManifest, WriteManifest
<1>4. DOMAIN partitions' = Symbols /\ DOMAIN manifests' = Symbols /\ torn' \in Nat
  BY <1>1, <1>3 DEF StoreInv, TypesInv
<1>5. /\ Stored' = Stored /\ Event' = Event /\ \A x : NewRow(x)' = NewRow(x) /\ \A p : Chain(p)' = Chain(p)
  BY <1>1, StoreSame DEF Event
<1>6. AppendInv'
  <2>1. manifests'[q] = PartitionRows(Append(rows, tx.row), q)
    BY <1>2, <1>3 DEF StoreInv, TypesInv
  <2>2. \A x \in batch : x = Event => x = e /\ Partition(x) = q
    OBVIOUS
  <2>3. \A p \in Symbols : partitions'[p] = Chain(p)'
    BY <1>1, <1>5 DEF StoreInv, AppendInv
  <2> QED
    BY <1>1, <1>2, <1>5, <2>1, <2>2, <2>3 DEF AppendInv
<1>7. CleanInv'
  <2> SUFFICES ASSUME torn = 0 PROVE CleanInv'
    BY <1>1 DEF CleanInv
  <2>1. \A p \in Symbols : p # q => Fresh(p)
    BY <1>1 DEF StoreInv, CleanInv
  <2>2. \A p \in Symbols : Fresh(p)' \/ p = Partition(e)
    BY <1>3, <1>5, <2>1 DEF Fresh
  <2>3. /\ \A f \in files : f.event \in Stored \/ (f.event \in batch /\ f.event = Event)
        /\ tx.created
    BY <1>1 DEF StoreInv, CleanInv, Writing
  <2> QED
    BY <1>1, <1>2, <1>5, <2>2, <2>3 DEF CleanInv, Dirty, Writing
<1> QED
  BY <1>1, <1>2, <1>4, <1>6, <1>7, MoveStore DEF StoreInv, Running, Places, Dirty, Writing

LEMMA AppendManifestInv ==
  ASSUME StoreInv, TrackedInv, AppendManifest
  PROVE  TrackedInv'
<1>1. /\ pc = "manifest" /\ pc' = "commit" /\ Running /\ Running'
      /\ UNCHANGED <<rows, lastSeq, findings, files>> /\ UNCHANGED <<sidecar, inFlight, ring>>
      /\ UNCHANGED <<session, cursor, batch, processed, evaluated, crashes>>
  BY DEF AppendManifest, WriteManifest, sidecarVars, memory, budget, Running
<1>2. batch # {} /\ Event \notin Stored
  BY <1>1, EventIs DEF StoreInv, PollInv, Dirty, Writing
<1>3. ManifestsInv'
  <2>1. /\ Stored' = Stored /\ Event' = Event /\ RingSet' = RingSet /\ Level' = Level
    BY <1>1 DEF Stored, Event, RingSet, Level, Here
  <2>2. \A x \in RingSet \cap Stored : ~(x.seq > Level)
    BY <1>1, <1>2, AheadIsEvent, StoreFacts
  <2> QED
    BY <1>1, <1>2, <2>1, <2>2 DEF ManifestsInv
<1> QED
  BY <1>1, <1>3, MoveTracked DEF TrackedInv

LEMMA RebuildStore ==
  ASSUME StoreInv, Rebuild
  PROVE  StoreInv'
<1> PICK q : q = Partition(Event)
  OBVIOUS
<1>1. /\ pc = "rebuild" /\ pc' = "finish" /\ Running /\ Running'
      /\ UNCHANGED <<rows, lastSeq, findings, files>> /\ UNCHANGED <<sidecar, inFlight, ring>>
      /\ UNCHANGED <<session, batch, processed, cursor, crashes, misread>>
      /\ UNCHANGED <<tx, torn>>
      /\ manifests' = [manifests EXCEPT ![q] = Chain(q)]
      /\ partitions' = partitions \/ partitions' = [partitions EXCEPT ![q] = Chain(q)]
  BY DEF Rebuild, RebuildManifest, CommittedManifest, Chain, sidecarVars, memory, budget, Running
<1>2. batch # {} /\ q \in Symbols
  BY <1>1, EventIs DEF StoreInv, PollInv, Dirty
<1>3. DOMAIN partitions' = Symbols /\ DOMAIN manifests' = Symbols /\ torn' \in Nat
  BY <1>1 DEF StoreInv, TypesInv
<1>4. /\ Stored' = Stored /\ \A p : Chain(p)' = Chain(p)
  BY <1>1, StoreSame
<1>5. CleanInv'
  <2> SUFFICES ASSUME torn = 0 PROVE CleanInv'
    BY <1>1 DEF CleanInv
  <2>1. \A p \in Symbols : p # q => Fresh(p)
    BY DEF StoreInv, CleanInv
  <2>2. \A p \in Symbols : Fresh(p)'
    BY <1>1, <1>4, <2>1 DEF Fresh, StoreInv, TypesInv
  <2>3. \A f \in files : f.event \in Stored
    BY <1>1 DEF StoreInv, CleanInv, Writing
  <2> QED
    BY <1>1, <1>4, <2>2, <2>3 DEF CleanInv, Writing
<1>6. AppendInv'
  <2>1. \A p \in Symbols : partitions[p] = Chain(p) /\ p \in DOMAIN partitions
    BY DEF StoreInv, AppendInv, TypesInv
  <2>2. \A p \in Symbols : partitions'[p] = Chain(p)'
    BY <1>1, <1>4, <2>1
  <2> QED
    BY <1>1, <2>2 DEF AppendInv, Writing
<1> QED
  BY <1>1, <1>2, <1>3, <1>5, <1>6, MoveStore DEF StoreInv, Places, Dirty, Writing

LEMMA RebuildInv ==
  ASSUME StoreInv, TrackedInv, Rebuild
  PROVE  TrackedInv'
<1>1. /\ pc = "rebuild" /\ pc' = "finish" /\ Running /\ Running'
      /\ UNCHANGED <<rows, lastSeq, findings, files>> /\ UNCHANGED <<sidecar, inFlight, ring>>
      /\ UNCHANGED <<session, cursor, batch, processed, evaluated, crashes>>
      /\ manifests' = [manifests EXCEPT ![Partition(Event)] = Chain(Partition(Event))]
  BY DEF Rebuild, RebuildManifest, CommittedManifest, Chain, sidecarVars, memory, budget, Running
<1>2. batch # {} /\ Level' = Level
  BY <1>1 DEF StoreInv, PollInv, Dirty, Level, Here
<1> QED
  BY <1>1, <1>2, ManifestsKept, MoveTracked DEF TrackedInv

LEMMA RebuildBreaksStore ==
  ASSUME StoreInv, RebuildBreaks
  PROVE  StoreInv'
<1> PICK q : q = Partition(Event)
  OBVIOUS
<1>1. /\ pc = "rebuild" /\ pc' = "finish" /\ Running /\ Running' /\ torn' = torn + 1
      /\ UNCHANGED <<rows, lastSeq, findings, files>> /\ UNCHANGED <<sidecar, inFlight, ring>>
      /\ UNCHANGED <<session, batch, processed, cursor, crashes, misread>>
      /\ partitions' = partitions
      /\ manifests' = manifests \/ manifests' = [manifests EXCEPT ![q] = Chain(q)]
  BY DEF RebuildBreaks, CommittedManifest, Chain, sidecarVars, memory, Running
<1>2. DOMAIN partitions' = Symbols /\ DOMAIN manifests' = Symbols /\ torn' \in Nat /\ torn' # 0
  BY <1>1 DEF StoreInv, TypesInv
<1>3. CleanInv'
  BY <1>2 DEF CleanInv
<1>4. AppendInv'
  <2>1. \A p : Chain(p)' = Chain(p)
    BY <1>1, StoreSame
  <2> QED
    BY <1>1, <2>1 DEF StoreInv, AppendInv, Writing
<1> QED
  BY <1>1, <1>2, <1>3, <1>4, MoveStore DEF StoreInv, Places, Dirty, Writing

LEMMA RebuildBreaksInv ==
  ASSUME StoreInv, TrackedInv, RebuildBreaks
  PROVE  TrackedInv'
<1> PICK q : q = Partition(Event)
  OBVIOUS
<1>1. /\ pc = "rebuild" /\ pc' = "finish" /\ Running /\ Running'
      /\ UNCHANGED <<rows, lastSeq, findings, files>> /\ UNCHANGED <<sidecar, inFlight, ring>>
      /\ UNCHANGED <<session, cursor, batch, processed, evaluated, crashes>>
      /\ manifests' = manifests \/ manifests' = [manifests EXCEPT ![q] = Chain(q)]
  BY DEF RebuildBreaks, CommittedManifest, Chain, sidecarVars, memory, Running
<1>2. batch # {} /\ Level' = Level
  BY <1>1 DEF StoreInv, PollInv, Dirty, Level, Here
<1> QED
  BY <1>1, <1>2, ManifestsKept, MoveTracked DEF TrackedInv

-----------------------------------------------------------------------------
(* append() opens its transaction, undoes it, commits it.                  *)

LEMMA OpenStore ==
  ASSUME StoreInv, AppendOpens, pc' = "manifest"
  PROVE  StoreInv'
<1> PICK e, r : e = Event /\ r = NewRow(e)
  OBVIOUS
<1>1. /\ pc = "next" /\ batch # {} /\ Running /\ Running' /\ e \notin Stored
      /\ Filed(e) \in {{}, {r}}
      /\ files' = files \cup {r} /\ tx' = [row |-> r, created |-> Filed(e) = {}]
      /\ UNCHANGED <<rows, lastSeq, findings, partitions, manifests>>
      /\ UNCHANGED <<sidecar, inFlight, ring>>
      /\ UNCHANGED <<session, cursor, batch, processed, crashes, torn, misread>>
  BY DEF AppendOpens, WriteEventFile, IsDuplicate, Collides, sidecarVars, memory, budget, Running
<1>2. /\ e \in batch /\ e.session = session /\ session \in Sessions /\ r.event = e /\ e \in Events
      /\ session # None
  BY <1>1, EventIs, IngestionAssumption DEF NewRow
<1>3. /\ Stored' = Stored /\ Event' = e /\ EventsFiled' = EventsFiled \cup {e} /\ RingSet' = RingSet
      /\ \A x : NewRow(x)' = NewRow(x)
      /\ \A p : Chain(p)' = Chain(p) /\ Fresh(p)' = Fresh(p)
  BY <1>1, <1>2, ZenonT(60) DEF Stored, Event, EventsFiled, RingSet, NewRow, PreviousHash, Chain, Fresh
<1>4. Known' = Known
  BY <1>1, <1>2, <1>3 DEF Known
<1>5. TypesInv'
  BY <1>1, <1>4 DEF StoreInv, TypesInv, Places
<1>6. NumbersInv'
  BY <1>1, <1>2, <1>3, NumbersStay DEF StoreInv
<1>7. RowsInv'
  <2>1. \A f \in files : f.event = e => f = r
    BY <1>1 DEF Filed
  <2> QED
    BY <1>1, <1>2, <1>3, <2>1 DEF StoreInv, RowsInv
<1>8. PollInv'
  <2>1. \A x \in EventsFiled' : x.session <= session
    BY <1>2, <1>3, StoreFacts, SMTT(60) DEF StoreInv, PollInv
  <2>2. \A x \in batch' : x.session = session' /\ x.seq > processed'
    BY <1>1 DEF StoreInv, PollInv
  <2>3. session <= sidecar.session
    BY <1>2 DEF StoreInv, PollInv
  <2> QED
    BY <1>1, <1>2, <2>1, <2>2, <2>3 DEF PollInv
<1>9. AppendInv'
  <2>1. tx'.row = NewRow(e) /\ tx'.row \in files'
    BY <1>1
  <2>2. \A p \in Symbols : partitions'[p] = Chain(p)'
    BY <1>1, <1>3 DEF StoreInv, AppendInv
  <2> QED
    BY <1>1, <1>3, <2>1, <2>2 DEF AppendInv
<1>10. CleanInv'
  <2> SUFFICES ASSUME torn = 0 PROVE CleanInv'
    BY <1>1 DEF CleanInv
  <2>1. (\A p \in Symbols : Fresh(p)) /\ \A f \in files : f.event \in Stored
    BY <1>1 DEF StoreInv, CleanInv, Dirty, Writing
  <2>2. tx'.created
    <3>1. Filed(e) = {}
      BY <1>1, <2>1 DEF Filed
    <3> QED
      BY <1>1, <3>1
  <2> QED
    BY <1>1, <1>2, <1>3, <2>1, <2>2 DEF CleanInv, Writing
<1>11. LastInv' /\ MisreadInv'
  BY <1>1, LastStays, MisreadStays DEF StoreInv
<1> QED
  BY <1>5, <1>6, <1>7, <1>8, <1>9, <1>10, <1>11 DEF StoreInv

LEMMA OpenInv ==
  ASSUME StoreInv, TrackedInv, AppendOpens, pc' = "manifest"
  PROVE  TrackedInv'
<1> PICK e, r : e = Event /\ r = NewRow(e)
  OBVIOUS
<1>1. /\ batch # {} /\ Running /\ Running' /\ e \notin Stored
      /\ Filed(e) \in {{}, {r}}
      /\ files' = files \cup {r}
      /\ UNCHANGED <<rows, lastSeq, findings, partitions, manifests>>
      /\ UNCHANGED <<sidecar, inFlight, ring>>
      /\ UNCHANGED <<session, cursor, batch, processed, evaluated, crashes>>
  BY DEF AppendOpens, WriteEventFile, IsDuplicate, Collides, sidecarVars, memory, budget, Running
<1>2. /\ e \in batch /\ e.session = session /\ r.event = e
  BY <1>1, EventIs DEF NewRow
<1>3. /\ Stored' = Stored /\ Event' = e /\ EventsFiled' = EventsFiled \cup {e} /\ RingSet' = RingSet
      /\ \A x : NewRow(x)' = NewRow(x)
      /\ Here' = Here /\ Level' = Level /\ Polled' = Polled
  BY <1>1, <1>2, ZenonT(60) DEF Stored, Event, EventsFiled, RingSet, NewRow, PreviousHash, Here, Level, Polled
<1>4. PassedInv'
  BY <1>1, <1>3 DEF TrackedInv, PassedInv
<1>5. BegunInv'
  <2>1. \A x \in batch \cap EventsFiled' : x = e
    BY <1>3 DEF TrackedInv, BegunInv
  <2>2. \A f \in files' : f.event = e => f = NewRow(e)
    BY <1>1 DEF Filed
  <2> QED
    BY <1>1, <1>3, <2>1, <2>2 DEF BegunInv
<1>6. RingInv'
  <2>1. ASSUME NEW j \in DOMAIN ring, ring[j] \in EventsFiled', ring[j].seq > Level PROVE Leads(j)'
    <3>1. \A f \in files' : f.event = ring[j] /\ ring[j] \notin Stored => f \in files \/ f = NewRow(f.event)
      BY <1>1, <1>2
    <3>2. CASE ring[j] \in EventsFiled
      <4>1. Leads(j)
        BY <2>1, <3>2 DEF TrackedInv, RingInv
      <4> QED
        BY <1>1, <1>3, <3>1, <4>1 DEF Leads
    <3>3. CASE ring[j] = e
      <4>1. \A f \in files' : f.event = e => f = NewRow(f.event)
        BY <1>1 DEF Filed
      <4>2. ASSUME NEW i \in 1..(j - 1) PROVE ring[i].seq <= Level
        <5>1. /\ ring[i].seq < ring[j].seq
              /\ ring[i].seq <= Level \/ ring[i] \in batch
          BY <1>2, <3>3 DEF TrackedInv, RingInv
        <5>2. ring[i] \in batch => e.seq <= ring[i].seq /\ e.seq \in Nat /\ ring[i].seq \in Nat
          BY <1>2, StoreFacts
        <5> QED
          BY <3>3, <5>1, <5>2
      <4> QED
        BY <1>1, <1>2, <1>3, <3>3, <4>1, <4>2 DEF Leads
    <3> QED
      BY <1>3, <2>1, <3>2, <3>3
  <2> QED
    BY <1>1, <1>3, <2>1 DEF TrackedInv, RingInv
<1>7. EvictedInv' /\ RulesInv' /\ ManifestsInv'
  BY <1>1, <1>3, EvictedStays, RulesStay, ManifestsStay DEF TrackedInv
<1> QED
  BY <1>4, <1>5, <1>6, <1>7 DEF TrackedInv

LEMMA UndoStore ==
  ASSUME StoreInv, Undo
  PROVE  StoreInv'
<1> PICK e : e = Event
  OBVIOUS
<1>1. /\ pc = "undo" /\ pc' = "rebuild" /\ Running /\ Running'
      /\ files' = IF tx.created THEN files \ Filed(tx.row.event) ELSE files
      /\ UNCHANGED <<rows, lastSeq, findings, partitions, manifests>>
      /\ UNCHANGED <<sidecar, inFlight, ring>>
      /\ UNCHANGED <<session, cursor, batch, processed, crashes, torn, misread>>
  BY DEF Undo, UndoAppend, sidecarVars, memory, budget, Running
<1>2. batch # {} /\ e \in batch /\ e \notin Stored /\ tx.row.event = e /\ session # None
  BY <1>1, EventIs, IngestionAssumption DEF StoreInv, PollInv, Dirty, Writing
<1>3. /\ files' \subseteq files /\ \A f \in files : f.event # e => f \in files'
      /\ tx.created => \A f \in files' : f.event # e
  BY <1>1, <1>2 DEF Filed
<1>4. /\ Stored' = Stored /\ Event' = Event /\ RingSet' = RingSet /\ EventsFiled' \subseteq EventsFiled
      /\ \A p : Chain(p)' = Chain(p) /\ Fresh(p)' = Fresh(p)
  BY <1>1, <1>3 DEF Stored, Event, EventsFiled, RingSet, Chain, Fresh
<1>5. Known' \subseteq Known
  BY <1>1, <1>4 DEF Known
<1>6. TypesInv'
  BY <1>1, <1>5 DEF StoreInv, TypesInv, Places
<1>7. NumbersInv'
  BY <1>1, <1>4, NumbersStay DEF StoreInv
<1>8. RowsInv'
  <2>1. \A i \in DOMAIN rows : rows[i].event # e
    BY <1>2 DEF Stored
  <2> QED
    BY <1>1, <1>3, <1>4, <2>1 DEF StoreInv, RowsInv
<1>9. PollInv'
  BY <1>1, <1>2, <1>4 DEF StoreInv, PollInv
<1>10. AppendInv'
  BY <1>1, <1>4 DEF StoreInv, AppendInv, Writing
<1>11. LastInv' /\ MisreadInv'
  BY <1>1, LastStays, MisreadStays DEF StoreInv
<1>12. CleanInv'
  BY <1>1, <1>3, <1>4 DEF StoreInv, CleanInv, Dirty, Writing
<1> QED
  BY <1>6, <1>7, <1>8, <1>9, <1>10, <1>11, <1>12 DEF StoreInv

LEMMA UndoInv ==
  ASSUME StoreInv, TrackedInv, Undo
  PROVE  TrackedInv'
<1>1. /\ Running /\ Running' /\ files' \subseteq files
      /\ UNCHANGED <<rows, lastSeq, findings, partitions, manifests>>
      /\ UNCHANGED <<sidecar, inFlight, ring>>
      /\ UNCHANGED <<session, cursor, batch, processed, evaluated, crashes>>
  BY DEF Undo, UndoAppend, sidecarVars, memory, budget, Running
<1>2. /\ Stored' = Stored /\ Event' = Event /\ RingSet' = RingSet /\ EventsFiled' \subseteq EventsFiled
      /\ \A x : NewRow(x)' = NewRow(x)
      /\ Here' = Here /\ Level' = Level /\ Polled' = Polled
  BY <1>1 DEF Stored, Event, EventsFiled, RingSet, NewRow, PreviousHash, Here, Level, Polled
<1>3. PassedInv'
  BY <1>1, <1>2 DEF TrackedInv, PassedInv
<1>4. BegunInv'
  BY <1>1, <1>2 DEF TrackedInv, BegunInv
<1>5. RingInv'
  <2>1. \A j : Leads(j) => Leads(j)'
    BY <1>1, <1>2 DEF Leads
  <2> QED
    BY <1>1, <1>2, <2>1 DEF TrackedInv, RingInv
<1>6. EvictedInv' /\ RulesInv' /\ ManifestsInv'
  BY <1>1, <1>2, EvictedStays, RulesStay, ManifestsStay DEF TrackedInv
<1> QED
  BY <1>3, <1>4, <1>5, <1>6 DEF TrackedInv

LEMMA MaxPair ==
  ASSUME NEW a \in Nat, NEW b \in Nat
  PROVE  Max({a, b}) \in {a, b} /\ Max({a, b}) >= a /\ Max({a, b}) >= b
<1>1. \E m \in {a, b} : \A k \in {a, b} : m >= k
  OBVIOUS
<1> QED
  BY <1>1 DEF Max

LEMMA StoredFinite ==
  ASSUME StoreInv
  PROVE  IsFiniteSet(Stored)
<1> PICK eventOf : eventOf = [i \in 1..Len(rows) |-> rows[i].event]
  OBVIOUS
<1>1. eventOf \in Surjection(1..Len(rows), Stored)
  BY StoreFacts DEF Stored, Surjection
<1>2. IsFiniteSet(1..Len(rows))
  BY StoreFacts, FS_Interval
<1> QED
  BY <1>1, <1>2, FS_Surjection

\* The findings of an event say by how much it is ahead of the last one of its session.
LEMMA FindingsOf ==
  ASSUME StoreInv, NEW e \in Events
  PROVE  /\ \A f \in SequenceFindings(e) : f.expected \in Nat /\ f.observed \in Nat
         /\ lastSeq[e.session] # 0 /\ e.seq > lastSeq[e.session] + 1 =>
              \E f \in SequenceFindings(e) : /\ f.kind = "CALLBACK_SEQUENCE" /\ f.session = e.session
                                             /\ f.expected = lastSeq[e.session] + 1 /\ f.observed = e.seq
<1> DEFINE stored == {x.seq : x \in {y \in Stored : y.session = e.session}}
           last == Max(stored)
           Finding(kind) == [kind |-> kind, session |-> e.session, expected |-> last + 1, observed |-> e.seq]
<1>1. SequenceFindings(e) = IF stored = {} THEN {}
                            ELSE IF e.seq <= last THEN {Finding("OUT_OF_ORDER")}
                            ELSE IF e.seq > last + 1 THEN {Finding("CALLBACK_SEQUENCE")}
                            ELSE {}
  BY DEF SequenceFindings
<1> PICK s, L : s = e.session /\ L = lastSeq[s]
  OBVIOUS
<1>2. /\ s \in Sessions /\ L \in Nat /\ MaxSeq \in Nat
      /\ \A y \in Stored : y.session = s => y.seq \in 1..MaxSeq /\ y.seq <= L
      /\ L = 0 \/ \E y \in Stored : y.session = s /\ y.seq = L
  <2>1. s \in Sessions /\ \A y \in Stored : y.seq \in 1..MaxSeq
    BY StoreFacts DEF Events
  <2> QED
    BY <2>1, StoreFacts, IngestionAssumption DEF StoreInv, LastInv
<1>3. stored \in SUBSET (1..MaxSeq) /\ (\A k \in stored : k <= L) /\ (L = 0 \/ L \in stored)
  BY <1>2
<1>4. stored # {} => last \in stored /\ \A k \in stored : k <= last
  BY <1>2, <1>3, MaxOf
<1>5. \A k \in stored : k \in Nat /\ k >= 1
  BY <1>2, <1>3
<1> HIDE DEF stored, last
<1>6. stored # {} => last = L /\ last \in Nat
  <2> SUFFICES ASSUME stored # {} PROVE last = L /\ last \in Nat
    OBVIOUS
  <2>1. last \in stored /\ last \in Nat /\ last >= 1 /\ last <= L
    BY <1>3, <1>4, <1>5
  <2>2. L \in stored /\ L <= last
    BY <1>2, <1>3, <1>4, <2>1
  <2> QED
    BY <1>2, <2>1, <2>2
<1>7. e.seq \in Nat
  BY StoreFacts
<1>8. CASE stored = {}
  <2>1. SequenceFindings(e) = {} /\ L = 0
    BY <1>1, <1>3, <1>8
  <2> QED
    BY <2>1
<1>9. CASE stored # {}
  <2>1. \A f \in SequenceFindings(e) : f.expected = L + 1 /\ f.observed = e.seq
    BY <1>1, <1>6, <1>9
  <2>2. e.seq > L + 1 => ~(e.seq <= L)
    BY <1>2, <1>7
  <2>3. e.seq > L + 1 => SequenceFindings(e) = {Finding("CALLBACK_SEQUENCE")}
    BY <1>1, <1>6, <1>9, <2>2
  <2> HIDE DEF Finding
  <2>4. /\ Finding("CALLBACK_SEQUENCE").kind = "CALLBACK_SEQUENCE" /\ Finding("CALLBACK_SEQUENCE").session = s
        /\ Finding("CALLBACK_SEQUENCE").expected = L + 1 /\ Finding("CALLBACK_SEQUENCE").observed = e.seq
    BY <1>6, <1>9 DEF Finding
  <2> QED
    BY <1>2, <1>7, <2>1, <2>3, <2>4
<1> QED
  BY <1>8, <1>9

\* The n rows stay, and the row of an event is added.
GrowsFrom(n, e) ==
  /\ DOMAIN rows = 1..n /\ DOMAIN rows' = 1..(n + 1) /\ \A i \in 1..n : rows'[i] = rows[i]
  /\ rows'[n + 1] = NewRow(e) /\ NewRow(e) \in files /\ NewRow(e).event = e
  /\ rows' \in Seq({rows'[i] : i \in DOMAIN rows'})
  /\ \A p, i : i \in 1..(n + 1) => HashBefore(Chain(p)', i) = HashBefore(Chain(p), i)
  /\ NewRow(e).prev = HashBefore(Chain(Partition(e)), n + 1)
\* What the commit of an event makes of the store.
LEMMA CommitIs ==
  ASSUME StoreInv, AppendCommits, NEW e, e = Event, NEW q, q = Partition(e), NEW L, L = lastSeq[session]
  PROVE  /\ pc = "commit" /\ pc' = "evaluate" /\ Running /\ Running'
         /\ UNCHANGED <<sidecar, inFlight, ring, files, manifests>>
         /\ UNCHANGED <<session, cursor, batch, processed, evaluated, crashes, torn, misread>>
         /\ e \in batch /\ e \in Events /\ e \notin Stored /\ q \in Symbols
         /\ e.session = session /\ session \in Sessions /\ session # None
         /\ e.seq > Here /\ e.seq \in Nat /\ e.seq >= 1
         /\ Stored' = Stored \cup {e} /\ EventsFiled' = EventsFiled /\ e \in EventsFiled /\ Event' = e
         /\ RingSet' = RingSet /\ Here' = Here /\ Polled' = Polled
         /\ Known' = Known /\ \A x \in Stored' : x \in EventsFiled /\ x \in Events
         /\ findings' = findings \cup SequenceFindings(e)
         /\ partitions' = [partitions EXCEPT ![q] = manifests[q]]
         /\ L \in Nat /\ lastSeq' \in [Sessions -> Nat]
         /\ \A s \in Sessions : s # session => lastSeq'[s] = lastSeq[s]
         /\ \E M \in Nat : lastSeq'[session] = M /\ M >= L /\ M >= e.seq /\ M \in {L, e.seq}
         /\ \E n \in Nat : GrowsFrom(n, e)
         /\ Chain(q)' = manifests[q] /\ \A p \in Symbols : p # q => Chain(p)' = Chain(p)
         /\ Fresh(q)' /\ \A p \in Symbols : p # q /\ Fresh(p) => Fresh(p)'
<1> PICK r, n : r = tx.row /\ n = Len(rows)
  OBVIOUS
<1>1. /\ pc = "commit" /\ pc' = "evaluate" /\ Running /\ Running'
      /\ Commit
      /\ UNCHANGED <<sidecar, inFlight, ring>>
      /\ UNCHANGED <<session, cursor, batch, processed, evaluated, crashes, torn, misread>>
  BY DEF AppendCommits, sidecarVars, memory, budget, Running
<1>2. /\ batch # {} /\ e \in batch /\ e \notin Stored /\ q \in Symbols /\ r.event = e /\ r = NewRow(e)
      /\ r \in files /\ e \in Events /\ e.session = session /\ session \in Sessions /\ e.seq > Here
      /\ session # None
  BY <1>1, EventIs, IngestionAssumption DEF StoreInv, PollInv, Dirty, Writing
<1>3. /\ rows' = Append(rows, r)
      /\ lastSeq' = [lastSeq EXCEPT ![session] = Max({@, e.seq})]
      /\ findings' = findings \cup SequenceFindings(e)
      /\ partitions' = [partitions EXCEPT ![q] = manifests[q]]
      /\ UNCHANGED <<files, manifests>>
  BY <1>1, <1>2 DEF Commit
<1>4. /\ n \in Nat /\ DOMAIN rows = 1..n /\ DOMAIN rows' = 1..(n + 1) /\ rows'[n + 1] = r
      /\ \A i \in 1..n : rows'[i] = rows[i]
      /\ rows' \in Seq({rows'[i] : i \in DOMAIN rows'})
  <2>1. rows \in Seq({rows[i] : i \in DOMAIN rows}) /\ n \in Nat /\ DOMAIN rows = 1..n
    BY StoreFacts DEF StoreInv, TypesInv
  <2>2. /\ DOMAIN rows' = 1..(n + 1) /\ rows'[n + 1] = r
        /\ \A i \in 1..n : rows'[i] = rows[i] /\ Len(rows') = n + 1
    BY <1>3, <2>1, AppendProperties
  <2>3. {rows[i] : i \in DOMAIN rows} \cup {r} = {rows'[i] : i \in DOMAIN rows'}
    <3>1. \A i \in 1..(n + 1) : i = n + 1 \/ i \in 1..n
      BY <2>1
    <3>2. n + 1 \in 1..(n + 1) /\ \A i \in 1..n : i \in 1..(n + 1)
      BY <2>1
    <3> QED
      BY <2>1, <2>2, <3>1, <3>2
  <2>4. rows' \in Seq({rows[i] : i \in DOMAIN rows} \cup {r})
    <3> PICK T : T = {rows[i] : i \in DOMAIN rows}
      OBVIOUS
    <3>1. rows \in Seq(T \cup {r})
      BY <2>1
    <3> QED
      BY <1>3, <3>1
  <2> QED
    BY <2>1, <2>2, <2>3, <2>4
<1>5. /\ Stored' = Stored \cup {e} /\ EventsFiled' = EventsFiled /\ e \in EventsFiled /\ Event' = e
      /\ RingSet' = RingSet /\ Here' = Here /\ Polled' = Polled
  <2>1. Stored' = Stored \cup {e}
    <3>1. \A i \in 1..(n + 1) : i = n + 1 \/ i \in 1..n
      BY <1>4
    <3>2. n + 1 \in 1..(n + 1) /\ \A i \in 1..n : i \in 1..(n + 1)
      BY <1>4
    <3> QED
      BY <1>2, <1>4, <3>1, <3>2 DEF Stored
  <2> QED
    BY <1>1, <1>2, <1>3, <2>1 DEF EventsFiled, Event, RingSet, Here, Polled
<1>6. Known' = Known /\ \A x \in Stored' : x \in EventsFiled /\ x \in Events
  BY <1>1, <1>2, <1>5, StoreFacts DEF Known
<1> PICK M : M = Max({L, e.seq})
  OBVIOUS
<1>7. /\ L \in Nat /\ e.seq \in Nat /\ e.seq >= 1 /\ M \in Nat /\ M >= L /\ M >= e.seq /\ M \in {L, e.seq}
      /\ lastSeq' \in [Sessions -> Nat] /\ lastSeq'[session] = M
      /\ \A s \in Sessions : s # session => lastSeq'[s] = lastSeq[s]
  <2>1. L \in Nat /\ e.seq \in Nat /\ e.seq >= 1 /\ lastSeq \in [Sessions -> Nat]
    BY <1>2, StoreFacts DEF StoreInv, TypesInv
  <2>2. M \in Nat /\ M >= L /\ M >= e.seq /\ M \in {L, e.seq}
    BY <2>1, MaxPair
  <2>3. lastSeq' = [lastSeq EXCEPT ![session] = M]
    BY <1>3
  <2> QED
    BY <1>2, <2>1, <2>2, <2>3
<1>8. \A p : Chain(p)' = PartitionRows(Append(rows, r), p)
  BY <1>3 DEF Chain
<1>9. \A p, i : i \in 1..(n + 1) => HashBefore(Chain(p)', i) = HashBefore(Chain(p), i)
  <2>1. rows \in Seq({rows[i] : i \in DOMAIN rows})
    BY DEF StoreInv, TypesInv
  <2> QED
    BY <1>8, <2>1, HashKept DEF Chain
<1>10. Chain(q)' = manifests[q] /\ \A p \in Symbols : p # q => Chain(p)' = Chain(p)
  <2>1. manifests[q] = PartitionRows(Append(rows, r), q)
    BY <1>1, <1>2 DEF StoreInv, AppendInv
  <2>2. rows \in Seq({rows[i] : i \in DOMAIN rows})
    BY DEF StoreInv, TypesInv
  <2> QED
    BY <1>2, <1>8, <2>1, <2>2, ChainOfAppend DEF Chain
<1>11. /\ Fresh(q)' /\ \A p \in Symbols : p # q /\ Fresh(p) => Fresh(p)'
  BY <1>3, <1>10 DEF Fresh
<1>12. r.prev = HashBefore(Chain(q), n + 1)
  BY <1>2 DEF NewRow, PreviousHash, Chain
<1>13. GrowsFrom(n, e)
  BY <1>2, <1>4, <1>9, <1>12 DEF GrowsFrom
<1> QED
  BY <1>4, <1>1, <1>2, <1>3, <1>5, <1>6, <1>7, <1>10, <1>11, <1>13

LEMMA CommitStore ==
  ASSUME StoreInv, AppendCommits, session \notin misread => PassedInv
  PROVE  StoreInv'
<1> PICK e, q, L : e = Event /\ q = Partition(e) /\ L = lastSeq[session]
  OBVIOUS
<1>1. /\ pc = "commit" /\ pc' = "evaluate" /\ Running /\ Running'
      /\ UNCHANGED <<sidecar, inFlight, ring, files, manifests>>
      /\ UNCHANGED <<session, cursor, batch, processed, evaluated, crashes, torn, misread>>
  BY CommitIs
<1>2. /\ e \in batch /\ e \in Events /\ e \notin Stored /\ q \in Symbols
      /\ e.session = session /\ session \in Sessions /\ session # None
      /\ e.seq > Here /\ e.seq \in Nat /\ e.seq >= 1 /\ L \in Nat
  BY CommitIs
<1>3. /\ Stored' = Stored \cup {e} /\ EventsFiled' = EventsFiled /\ e \in EventsFiled /\ Event' = e
      /\ RingSet' = RingSet /\ Here' = Here /\ Polled' = Polled
  BY CommitIs
<1>4. /\ Known' = Known /\ \A x \in Stored' : x \in EventsFiled /\ x \in Events
      /\ findings' = findings \cup SequenceFindings(e)
      /\ partitions' = [partitions EXCEPT ![q] = manifests[q]]
      /\ Chain(q)' = manifests[q] /\ \A p \in Symbols : p # q => Chain(p)' = Chain(p)
      /\ Fresh(q)' /\ \A p \in Symbols : p # q /\ Fresh(p) => Fresh(p)'
  BY CommitIs
<1>5. PICK M \in Nat : lastSeq'[session] = M /\ M >= L /\ M >= e.seq /\ M \in {L, e.seq}
  BY CommitIs
<1>6. /\ lastSeq' \in [Sessions -> Nat] /\ \A s \in Sessions : s # session => lastSeq'[s] = lastSeq[s]
  BY CommitIs
<1>7. PICK n \in Nat : GrowsFrom(n, e)
  BY CommitIs
<1>8. TypesInv'
  <2>1. \A f \in findings' : f.expected \in Nat /\ f.observed \in Nat
    BY <1>2, <1>4, FindingsOf DEF StoreInv, TypesInv
  <2>2. DOMAIN partitions' = Symbols /\ DOMAIN manifests' = Symbols /\ Known' \subseteq Events
    BY <1>1, <1>4 DEF StoreInv, TypesInv
  <2>3. pc' \in Places
    BY <1>1 DEF Places
  <2> QED
    BY <1>1, <1>6, <1>7, <2>1, <2>2, <2>3 DEF StoreInv, TypesInv, GrowsFrom
<1>9. NumbersInv'
  BY <1>1, <1>2, <1>3, <1>4, NumbersStay DEF StoreInv
<1>10. RowsInv'
  <2>1. ASSUME NEW i \in 1..(n + 1), NEW j \in 1..(n + 1), rows'[i].event = rows'[j].event PROVE i = j
    <3>1. (i = n + 1 \/ i \in 1..n) /\ (j = n + 1 \/ j \in 1..n)
      BY <1>7 DEF GrowsFrom
    <3>2. (\A k \in 1..n : rows'[k].event # e /\ rows'[k] = rows[k]) /\ rows'[n + 1].event = e /\ DOMAIN rows = 1..n
      BY <1>2, <1>7 DEF Stored, GrowsFrom
    <3> QED
      BY <2>1, <3>1, <3>2 DEF StoreInv, RowsInv
  <2>2. ASSUME NEW i \in 1..(n + 1)
        PROVE  /\ rows'[i] \in files
               /\ \A p \in Symbols : Partition(rows'[i].event) = p => rows'[i].prev = HashBefore(Chain(p)', i)
    <3>1. CASE i \in 1..n
      <4>1. rows'[i] = rows[i] /\ i \in DOMAIN rows
        BY <1>7, <3>1 DEF GrowsFrom
      <4> QED
        BY <1>7, <4>1 DEF StoreInv, RowsInv, GrowsFrom
    <3>2. CASE i = n + 1
      BY <1>2, <1>7, <3>2 DEF GrowsFrom
    <3> QED
      BY <1>7, <3>1, <3>2 DEF GrowsFrom
  <2> QED
    BY <1>1, <1>7, <2>1, <2>2 DEF StoreInv, RowsInv, GrowsFrom
<1>11. LastInv'
  <2> SUFFICES ASSUME NEW s \in Sessions
               PROVE  /\ \A x \in Stored' : x.session = s => x.seq <= lastSeq'[s]
                      /\ lastSeq'[s] = 0 \/ \E x \in Stored' : x.session = s /\ x.seq = lastSeq'[s]
                      /\ s \notin misread => \A i \in 1..lastSeq'[s] : Accounted(s, i)'
    BY <1>1 DEF LastInv
  <2>1. \A i : Accounted(s, i) => Accounted(s, i)'
    BY <1>4, <1>3 DEF Accounted
  <2>2. /\ \A x \in Stored : x.session = s => x.seq <= lastSeq[s] /\ x.seq \in Nat
        /\ lastSeq[s] = 0 \/ \E x \in Stored : x.session = s /\ x.seq = lastSeq[s]
        /\ s \notin misread => \A i \in 1..lastSeq[s] : Accounted(s, i)
    BY <1>4, <1>3, StoreFacts DEF StoreInv, LastInv
  <2>3. CASE s # session
    BY <1>2, <1>3, <1>5, <1>6, <2>1, <2>2, <2>3
  <2>4. CASE s = session
    <3>1. \A x \in Stored' : x.session = s => x.seq <= M
      BY <1>3, <1>2, <1>5, <1>6, <2>2, <2>4
    <3>2. \E x \in Stored' : x.session = s /\ x.seq = M
      <4>1. CASE M = e.seq
        BY <1>2, <1>3, <2>4, <4>1
      <4>2. CASE M = L
        <5>1. L # 0
          <6>1. M # 0
            BY <1>2, <1>5, <1>6
          <6> QED
            BY <4>2, <6>1
        <5> QED
          BY <1>3, <2>2, <2>4, <4>2, <5>1
      <4> QED
        BY <1>2, <1>5, <1>6, <4>1, <4>2
    <3>3. ASSUME s \notin misread, NEW i \in 1..M PROVE Accounted(s, i)'
      <4>1. CASE i <= L
        BY <1>2, <1>5, <1>6, <2>1, <2>2, <2>4, <3>3, <4>1
      <4>2. CASE i = e.seq
        BY <1>2, <1>3, <2>4, <4>2 DEF Accounted
      <4>3. CASE i > L /\ i # e.seq
        <5>1. M = e.seq /\ i < e.seq /\ i >= 1
          BY <1>2, <1>5, <1>6, <4>3
        <5>2. L # 0
          <6>1. L = 0 => e.seq = 1
            BY <1>2, <2>4, <3>3 DEF PassedInv
          <6> QED
            BY <5>1, <6>1
        <5>3. e.seq > L + 1
          BY <1>2, <1>5, <1>6, <4>3, <5>1
        <5>4. PICK f \in SequenceFindings(e) : /\ f.kind = "CALLBACK_SEQUENCE" /\ f.session = session
                                               /\ f.expected = L + 1 /\ f.observed = e.seq
          BY <1>2, <5>2, <5>3, FindingsOf
        <5>5. f \in findings' /\ f.expected <= i /\ i < f.observed
          BY <1>4, <1>2, <1>5, <1>6, <4>3, <5>1, <5>4
        <5> QED
          BY <2>4, <5>4, <5>5 DEF Accounted
      <4> QED
        BY <1>2, <1>5, <1>6, <4>1, <4>2, <4>3
    <3> QED
      BY <1>2, <1>5, <1>6, <2>4, <3>1, <3>2, <3>3
  <2> QED
    BY <2>3, <2>4
<1>12. CleanInv'
  <2> SUFFICES ASSUME torn = 0 PROVE CleanInv'
    BY <1>1 DEF CleanInv
  <2>1. \A p \in Symbols : p = q \/ Fresh(p)
    BY <1>1 DEF StoreInv, CleanInv
  <2>2. \A p \in Symbols : Fresh(p)'
    BY <1>4, <2>1
  <2>3. \A f \in files : f.event \in Stored'
    BY <1>3 DEF StoreInv, CleanInv
  <2> QED
    BY <1>1, <1>4, <2>2, <2>3 DEF CleanInv, Writing
<1>13. PollInv'
  <2>1. \A x \in batch' : x.session = session' /\ x.seq > processed'
    BY <1>1 DEF StoreInv, PollInv
  <2>2. session <= sidecar.session /\ \A x \in EventsFiled : x.session <= session
    BY <1>2 DEF StoreInv, PollInv
  <2> QED
    BY <1>1, <1>2, <1>3, <2>1, <2>2 DEF PollInv
<1>14. AppendInv'
  <2>1. \A p \in Symbols : partitions'[p] = Chain(p)'
    BY <1>2, <1>4, <1>4 DEF StoreInv, AppendInv, TypesInv
  <2> QED
    BY <1>1, <1>3, <2>1 DEF AppendInv, Writing
<1>15. MisreadInv'
  BY <1>1, MisreadStays DEF StoreInv
<1> QED
  BY <1>8, <1>9, <1>10, <1>11, <1>12, <1>13, <1>14, <1>15 DEF StoreInv

LEMMA CommitInv ==
  ASSUME StoreInv, TrackedInv, Aware, AppendCommits, StoreInv'
  PROVE  TrackedInv'
<1> PICK e, q, L : e = Event /\ q = Partition(e) /\ L = lastSeq[session]
  OBVIOUS
<1>1. /\ pc = "commit" /\ pc' = "evaluate" /\ Running /\ Running'
      /\ UNCHANGED <<sidecar, inFlight, ring, files, manifests>>
      /\ UNCHANGED <<session, cursor, batch, processed, evaluated, crashes, torn, misread>>
  BY CommitIs
<1>2. /\ e \in batch /\ e \in Events /\ e \notin Stored /\ q \in Symbols
      /\ e.session = session /\ session \in Sessions /\ session # None
      /\ e.seq > Here /\ e.seq \in Nat /\ e.seq >= 1 /\ L \in Nat
  BY CommitIs
<1>3. /\ Stored' = Stored \cup {e} /\ EventsFiled' = EventsFiled /\ e \in EventsFiled /\ Event' = e
      /\ RingSet' = RingSet /\ Here' = Here /\ Polled' = Polled
  BY CommitIs
<1>4. /\ Known' = Known /\ \A x \in Stored' : x \in EventsFiled /\ x \in Events
      /\ findings' = findings \cup SequenceFindings(e)
      /\ partitions' = [partitions EXCEPT ![q] = manifests[q]]
      /\ Chain(q)' = manifests[q] /\ \A p \in Symbols : p # q => Chain(p)' = Chain(p)
      /\ Fresh(q)' /\ \A p \in Symbols : p # q /\ Fresh(p) => Fresh(p)'
  BY CommitIs
<1>5. PICK M \in Nat : lastSeq'[session] = M /\ M >= L /\ M >= e.seq /\ M \in {L, e.seq}
  BY CommitIs
<1>6. /\ lastSeq' \in [Sessions -> Nat] /\ \A s \in Sessions : s # session => lastSeq'[s] = lastSeq[s]
  BY CommitIs
<1>7. /\ \A s \in Sessions : Mark(s)' = Mark(s)
      /\ Level' = Level
  BY <1>1, <1>2, <1>3, <1>5, <1>6, StoreFacts DEF Mark, Level
<1>8. \A x : Overtaken(x) => Overtaken(x)'
  BY <1>4 DEF Overtaken
<1>9. PassedInv'
  <2>1. /\ cursor <= Here /\ Here <= L /\ Here \in Nat /\ cursor \in Nat
    BY <1>2, StoreFacts DEF StoreInv, TypesInv, TrackedInv, PassedInv
  <2>2. cursor <= Here /\ Here <= M /\ M # 0
    BY <1>2, <1>5, <1>6, <2>1
  <2> QED
    BY <1>1, <1>2, <1>3, <1>5, <1>6, <2>2 DEF PassedInv
<1>10. BegunInv'
  BY <1>1, <1>4, <1>3 DEF TrackedInv, BegunInv
<1>11. RingInv'
  <2>1. ASSUME NEW j \in DOMAIN ring, ring[j] \in EventsFiled, ring[j].seq > Level PROVE Leads(j)'
    <3>1. Leads(j)
      BY <2>1 DEF TrackedInv, RingInv
    <3>2. ring[j] = e
      BY <1>1, <2>1, AheadIsEvent DEF RingSet
    <3> QED
      BY <1>1, <1>2, <1>3, <1>7, <3>1, <3>2 DEF Leads
  <2> QED
    BY <1>1, <1>2, <1>3, <1>7, <2>1 DEF TrackedInv, RingInv
<1>12. EvictedInv'
  <2> SUFFICES ASSUME NEW x \in (Stored \cup batch) \ RingSet, x.session = sidecar.session
               PROVE  /\ ring # <<>>
                      /\ x \in Stored' /\ ~Overtaken(x)' => \A h \in RingSet : h.seq > x.seq
                      /\ x \in batch => \A h \in RingSet \cap (Stored \cup batch) : h.seq > x.seq
    BY <1>1, <1>2, <1>3 DEF EvictedInv
  <2>1. /\ ring # <<>>
        /\ x \in Stored /\ ~Overtaken(x) => \A h \in RingSet : h.seq > x.seq
        /\ x \in batch => \A h \in RingSet \cap (Stored \cup batch) : h.seq > x.seq
    BY DEF TrackedInv, EvictedInv
  <2>2. ASSUME x = e, ~Overtaken(x)', NEW h \in RingSet PROVE h.seq > x.seq
    <3>1. /\ h \in Known /\ e \in Known /\ h \in Events /\ h.session = session
          /\ h.seq \in Nat /\ h.seq >= 1 /\ h # e
      BY <1>2, <2>2, StoreFacts DEF Known, StoreInv, NumbersInv
    <3>2. h.seq # e.seq
      BY <1>2, <3>1 DEF StoreInv, NumbersInv
    <3> SUFFICES ASSUME h.seq < e.seq PROVE FALSE
      BY <1>2, <1>5, <1>6, <2>2, <3>1, <3>2
    <3>3. Accounted(session, h.seq)'
      <4>1. h.seq \in 1..lastSeq'[session]
        BY <1>2, <1>5, <1>6, <3>1
      <4> QED
        BY <1>1, <1>2, <4>1 DEF StoreInv, LastInv, Aware
    <3>4. ASSUME NEW f \in findings', f.kind = "CALLBACK_SEQUENCE", f.session = session, f.expected <= h.seq
          PROVE  FALSE
      <4>1. f.expected \in Nat
        BY DEF StoreInv, TypesInv
      <4>2. f.expected < e.seq
        BY <1>2, <1>5, <1>6, <3>1, <3>4, <4>1
      <4> QED
        BY <1>2, <2>2, <3>4, <4>2 DEF Overtaken
    <3>5. PICK y \in Stored' : y.session = session /\ y.seq = h.seq
      BY <1>1, <3>3, <3>4 DEF Accounted
    <3>6. y \in Known
      BY <1>4, <3>5 DEF Known
    <3>7. y = h
      BY <3>1, <3>5, <3>6 DEF StoreInv, NumbersInv
    <3>8. h \in Stored
      BY <1>3, <3>1, <3>5, <3>7
    <3>9. h.seq > e.seq
      BY <1>2, <2>1, <2>2, <3>8
    <3> QED
      BY <1>2, <1>5, <1>6, <3>1, <3>9
  <2>3. x \in Stored' /\ ~Overtaken(x)' => x = e \/ (x \in Stored /\ ~Overtaken(x))
    BY <1>3, <1>8
  <2> QED
    BY <2>1, <2>2, <2>3
<1>13. RulesInv'
  <2>1. ASSUME NEW x \in Stored', Pending(x)' PROVE x = e
    <3> SUFFICES ASSUME x # e PROVE FALSE
      OBVIOUS
    <3>1. x \in Stored /\ Pending(x)
      BY <1>1, <1>3, <1>8, <2>1 DEF Pending
    <3> QED
      BY <1>1, <3>1 DEF TrackedInv, RulesInv
  <2>2. ASSUME NEW s \in Sessions, s \in {session, sidecar.session} PROVE Cardinality(Missed(s)') <= crashes
    <3>1. Mark(s)' = Mark(s) /\ (s = session => Mark(s) = Here)
      BY <1>7 DEF Mark
    <3>2. e.session = s => ~(e.seq <= Mark(s))
      <4>1. Here \in Nat
        BY StoreFacts
      <4> QED
        BY <1>2, <1>5, <1>6, <3>1, <4>1
    <3>3. Missed(s)' \subseteq Missed(s)
      BY <1>1, <1>3, <1>8, <3>1, <3>2 DEF Missed
    <3>4. IsFiniteSet(Missed(s))
      <4>1. Missed(s) \subseteq Stored
        BY DEF Missed
      <4> QED
        BY <4>1, StoredFinite, FS_Subset
    <3>5. Cardinality(Missed(s)') <= Cardinality(Missed(s))
      BY <3>3, <3>4, FS_Subset
    <3>6. Cardinality(Missed(s)') \in Nat /\ Cardinality(Missed(s)) \in Nat
      <4>1. IsFiniteSet(Missed(s)')
        BY <3>3, <3>4, FS_Subset
      <4> QED
        BY <3>4, <4>1, FS_CardinalityType
    <3>7. Cardinality(Missed(s)) <= crashes /\ crashes \in Nat
      BY <2>2 DEF StoreInv, TypesInv, TrackedInv, RulesInv
    <3> QED
      BY <3>5, <3>6, <3>7
  <2>3. \A x \in Stored' : Pending(x)' => x \in batch' /\ x = Event'
    BY <1>1, <1>2, <1>3, <2>1
  <2> QED
    BY <1>1, <2>1, <2>2, <2>3 DEF RulesInv
<1>14. ManifestsInv'
  <2>1. \A x \in RingSet \cap Stored' : x.seq > Level => x = e
    BY <1>1, <1>4, AheadIsEvent
  <2>2. Fresh(Partition(e))'
    BY <1>4
  <2>3. \A x : x = e => (Fresh(Partition(e)) => Fresh(Partition(x)))'
    OBVIOUS
  <2> QED
    BY <1>1, <1>3, <1>7, <2>1, <2>2 DEF ManifestsInv
<1> QED
  BY <1>9, <1>10, <1>11, <1>12, <1>13, <1>14 DEF TrackedInv

-----------------------------------------------------------------------------
(* poll_once(): steps that evaluate and pass, and the crash.               *)

\* Fewer missed events are still no more than the crashes.
LEMMA MissedShrinks ==
  ASSUME StoreInv, TrackedInv, NEW s \in Sessions, s \in {session, sidecar.session}, NEW T, T \subseteq Missed(s)
  PROVE  /\ IsFiniteSet(T) /\ Cardinality(T) \in Nat /\ Cardinality(T) <= crashes
         /\ IsFiniteSet(Missed(s))
<1>1. IsFiniteSet(Missed(s))
  <2>1. Missed(s) \subseteq Stored
    BY DEF Missed
  <2> QED
    BY <2>1, StoredFinite, FS_Subset
<1>2. IsFiniteSet(T) /\ Cardinality(T) <= Cardinality(Missed(s))
  BY <1>1, FS_Subset
<1>3. Cardinality(T) \in Nat /\ Cardinality(Missed(s)) \in Nat
  BY <1>1, <1>2, FS_CardinalityType
<1>4. Cardinality(Missed(s)) <= crashes /\ crashes \in Nat
  BY DEF StoreInv, TypesInv, TrackedInv, RulesInv
<1> QED
  BY <1>1, <1>2, <1>3, <1>4

\* The event that is evaluated, and what is left of the batch.
LEMMA EvaluateIs ==
  ASSUME StoreInv, Evaluate, NEW e, e = Event
  PROVE  /\ pc = "evaluate" /\ pc' = "next" /\ Running /\ Running'
         /\ evaluated' = evaluated \cup {e} /\ processed' = e.seq /\ batch' = batch \ {e}
         /\ UNCHANGED <<rows, lastSeq, findings, partitions, files, manifests, tx>>
         /\ UNCHANGED <<sidecar, inFlight, ring, session, cursor, crashes, torn, misread>>
         /\ e \in batch /\ e \in Stored /\ e \in EventsFiled /\ e \in Events
         /\ e.session = session /\ session \in Sessions /\ session # None
         /\ e.seq > Here /\ e.seq \in Nat /\ e.seq >= 1 /\ Here \in Nat
         /\ \A x \in batch' : x \in batch /\ x # e /\ e.seq < x.seq
<1>1. /\ pc = "evaluate" /\ pc' = "next" /\ Running /\ Running'
      /\ evaluated' = evaluated \cup {e} /\ processed' = e.seq /\ batch' = batch \ {e}
      /\ UNCHANGED <<rows, lastSeq, findings, partitions, files, manifests, tx>>
      /\ UNCHANGED <<sidecar, inFlight, ring>>
      /\ UNCHANGED <<session, cursor, crashes, torn, misread>>
  BY DEF Evaluate, storeVars, sidecarVars, budget, Running
<1>2. batch # {}
  BY <1>1 DEF StoreInv, PollInv
<1>3. e \in batch /\ e \in Events /\ e.session = session /\ session \in Sessions /\ e.seq > Here
  BY <1>2, EventIs
<1>4. /\ e \in Stored /\ e \in EventsFiled /\ e.seq \in Nat /\ e.seq >= 1 /\ Here \in Nat /\ session # None
  BY <1>1, <1>3, StoreFacts, IngestionAssumption DEF StoreInv, AppendInv
<1>5. \A x \in batch : x.session = session /\ e.seq <= x.seq /\ x.seq \in Nat /\ x \in Known
  BY StoreFacts DEF StoreInv, PollInv, Known
<1>6. \A x \in batch : x # e => x.seq # e.seq
  BY <1>3, <1>5 DEF StoreInv, NumbersInv
<1> QED
  BY <1>1, <1>3, <1>4, <1>5, <1>6

LEMMA EvaluateStore ==
  ASSUME StoreInv, Evaluate
  PROVE  StoreInv'
<1> PICK e : e = Event
  OBVIOUS
<1>1. /\ pc = "evaluate" /\ pc' = "next" /\ Running /\ Running'
      /\ processed' = e.seq /\ batch' = batch \ {e}
      /\ UNCHANGED <<rows, lastSeq, findings, partitions, files, manifests, tx>>
      /\ UNCHANGED <<sidecar, inFlight, ring, session, cursor, crashes, torn, misread>>
  BY EvaluateIs
<1>2. /\ session # None /\ e.seq \in Nat /\ \A x \in batch' : x \in batch /\ e.seq < x.seq
  BY EvaluateIs
<1>3. /\ Stored' = Stored /\ EventsFiled' = EventsFiled /\ Known' \subseteq Known
      /\ \A p : Chain(p)' = Chain(p) /\ Fresh(p)' = Fresh(p)
  BY <1>1, StoreSame DEF RingSet, Known, Fresh
<1>4. TypesInv'
  BY <1>1, <1>2, <1>3 DEF StoreInv, TypesInv, Places
<1>5. NumbersInv'
  BY <1>1, <1>3, NumbersStay DEF StoreInv
<1>6. PollInv'
  <2>1. \A x \in batch' : x.session = session' /\ x.seq > processed'
    BY <1>1, <1>2, StoreFacts DEF StoreInv, PollInv
  <2>2. session <= sidecar.session /\ \A x \in EventsFiled : x.session <= session
    BY <1>2 DEF StoreInv, PollInv
  <2> QED
    BY <1>1, <1>2, <1>3, <2>1, <2>2 DEF PollInv, Dirty, Writing
<1>7. AppendInv'
  BY <1>1, <1>3 DEF StoreInv, AppendInv, Writing
<1>8. CleanInv'
  BY <1>1, <1>3 DEF StoreInv, CleanInv, Dirty, Writing
<1> QED
  BY <1>1, <1>4, <1>5, <1>6, <1>7, <1>8, RowsStay, LastStays, MisreadStays DEF StoreInv

LEMMA EvaluateInv ==
  ASSUME StoreInv, TrackedInv, Evaluate
  PROVE  TrackedInv'
<1> PICK e : e = Event
  OBVIOUS
<1>1. /\ pc = "evaluate" /\ pc' = "next" /\ Running /\ Running'
      /\ evaluated' = evaluated \cup {e} /\ processed' = e.seq /\ batch' = batch \ {e}
      /\ UNCHANGED <<rows, lastSeq, findings, partitions, files, manifests, tx>>
      /\ UNCHANGED <<sidecar, inFlight, ring, session, cursor, crashes, torn>>
  BY EvaluateIs
<1>2. /\ e \in batch /\ e \in Stored /\ e \in EventsFiled /\ e \in Events
      /\ e.session = session /\ session \in Sessions /\ session # None
      /\ e.seq > Here /\ e.seq \in Nat /\ e.seq >= 1 /\ Here \in Nat
  BY EvaluateIs
<1>3. /\ Stored' = Stored /\ EventsFiled' = EventsFiled /\ RingSet' = RingSet /\ Here' = e.seq
      /\ \A p : Chain(p)' = Chain(p) /\ Fresh(p)' = Fresh(p)
      /\ \A x : Overtaken(x)' = Overtaken(x)
  BY <1>1, StoreSame DEF RingSet, Here, Fresh, Overtaken
<1>4. /\ \A s : s # session => Mark(s)' = Mark(s)
      /\ Mark(session) = Here /\ \A s : s = session => Mark(s)' = e.seq
      /\ Level' = IF session = sidecar.session THEN e.seq ELSE Level
      /\ Level \in Nat /\ Level' \in Nat /\ Level <= Level'
  <2>1. Level \in Nat /\ (session = sidecar.session => Level = Here)
    BY StoreFacts DEF Level
  <2> QED
    BY <1>1, <1>2, <1>3, <2>1 DEF Mark, Level
<1>5. \A x \in batch' : x \in batch /\ x # e /\ e.seq < x.seq /\ x \notin EventsFiled
  <2>1. \A x \in batch : x # e => x \notin EventsFiled
    BY DEF TrackedInv, BegunInv
  <2> QED
    BY <2>1, EvaluateIs
<1>6. e.seq <= lastSeq[session] /\ lastSeq[session] \in Nat
  BY <1>2, StoreFacts DEF StoreInv, LastInv
<1>7. PassedInv'
  <2>1. cursor <= Here /\ cursor \in Nat
    BY <1>2 DEF StoreInv, TypesInv, TrackedInv, PassedInv
  <2>2. cursor <= e.seq /\ lastSeq[session] # 0
    BY <1>2, <1>6, <2>1
  <2> QED
    BY <1>1, <1>2, <1>3, <1>6, <2>2 DEF PassedInv
<1>8. BegunInv'
  <2>1. \A x \in batch' : \A f \in files : f.event # x
    BY <1>5 DEF EventsFiled
  <2> QED
    BY <1>1, <1>3, <1>5, <2>1 DEF BegunInv
<1>9. RingInv'
  <2>1. e \in RingSet => Level' = e.seq
    BY <1>2, <1>4 DEF StoreInv, NumbersInv
  <2>2. ASSUME NEW j \in DOMAIN ring, ring[j] \in EventsFiled, ring[j].seq > Level' PROVE FALSE
    <3>1. ring[j] \in RingSet /\ ring[j].seq \in Nat
      <4>1. ring[j] \in RingSet
        BY DEF RingSet
      <4> QED
        BY <4>1, StoreFacts
    <3>2. ring[j].seq > Level
      BY <1>4, <2>2, <3>1
    <3>3. ring[j] = e
      BY <1>1, <2>2, <3>1, <3>2, AheadIsEvent
    <3> QED
      BY <1>2, <2>1, <2>2, <3>1, <3>3
  <2>3. ASSUME NEW j \in DOMAIN ring, NEW i \in 1..(j - 1)
        PROVE  /\ ring[j] \in Stored' \cup batch' => ring[i].seq < ring[j].seq
               /\ ring[j] \in batch' => ring[i].seq <= Level' \/ ring[i] \in batch'
    <3>1. /\ ring[j] \in Stored \cup batch => ring[i].seq < ring[j].seq
          /\ ring[j] \in batch => ring[i].seq <= Level \/ ring[i] \in batch
      BY DEF TrackedInv, RingInv
    <3>2. ring[i] \in RingSet /\ ring[i].seq \in Nat
      <4>1. i \in DOMAIN ring
        BY StoreFacts
      <4>2. ring[i] \in RingSet
        BY <4>1 DEF RingSet
      <4> QED
        BY <4>2, StoreFacts
    <3>3. ring[i] \in batch => ring[i] \in batch' \/ ring[i].seq <= Level'
      BY <1>1, <1>2, <2>1, <3>2
    <3>4. ring[i].seq <= Level => ring[i].seq <= Level'
      BY <1>4, <3>2
    <3> QED
      BY <1>3, <1>5, <3>1, <3>3, <3>4
  <2> QED
    BY <1>1, <1>3, <2>2, <2>3 DEF RingInv
<1>10. EvictedInv'
  BY <1>1, <1>3, EvictedStays DEF TrackedInv
<1>11. RulesInv'
  <2>1. ASSUME NEW x \in Stored, x \notin evaluated, ~Overtaken(x), x.session = session, x.seq > Here
        PROVE  x = e
    BY <1>1, <2>1 DEF TrackedInv, RulesInv, Pending
  <2>2. ASSUME NEW x \in Stored', Pending(x)' PROVE FALSE
    <3>1. x \in Stored /\ x \notin evaluated /\ x # e /\ ~Overtaken(x) /\ x.session = session /\ x.seq > e.seq
      BY <1>1, <1>3, <2>2 DEF Pending
    <3>2. x.seq > Here
      BY <1>2, <3>1, StoreFacts
    <3> QED
      BY <2>1, <3>1, <3>2
  <2>3. ASSUME NEW s \in Sessions, s \in {session, sidecar.session} PROVE Cardinality(Missed(s)') <= crashes
    <3>1. ASSUME NEW x \in Missed(s)' PROVE x \in Missed(s)
      <4>1. x \in Stored /\ x \notin evaluated /\ x # e /\ ~Overtaken(x) /\ x.session = s /\ x.seq <= Mark(s)'
        BY <1>1, <1>3, <3>1 DEF Missed
      <4>2. CASE s # session
        BY <1>4, <4>1, <4>2 DEF Missed
      <4>3. CASE s = session
        <5>1. x.seq \in Nat /\ ~(x.seq > Here)
          BY <2>1, <4>1, <4>3, StoreFacts
        <5> QED
          BY <1>2, <1>4, <4>1, <4>3, <5>1 DEF Missed
      <4> QED
        BY <4>2, <4>3
    <3> PICK T : T = Missed(s)'
      OBVIOUS
    <3> QED
      BY <2>3, <3>1, MissedShrinks
  <2> QED
    BY <1>1, <2>2, <2>3 DEF RulesInv
<1>12. ManifestsInv'
  <2>1. \A x \in batch' : x \notin Stored
    BY <1>5, StoreFacts
  <2>2. \A x \in RingSet \cap Stored : x.seq > Level' => x.seq > Level
    BY <1>4, StoreFacts
  <2> QED
    BY <1>1, <1>3, <2>1, <2>2 DEF TrackedInv, ManifestsInv
<1> QED
  BY <1>7, <1>8, <1>9, <1>10, <1>11, <1>12 DEF TrackedInv

LEMMA FinishStore ==
  ASSUME StoreInv, Finish
  PROVE  StoreInv'
<1>1. /\ pc \in {"finish", "next"} /\ pc' = "idle" /\ Running /\ ~Running'
      /\ cursor' = processed /\ batch' = {} /\ processed' = 0
      /\ UNCHANGED <<rows, lastSeq, findings, partitions, files, manifests, tx>>
      /\ UNCHANGED <<sidecar, inFlight, ring, session, crashes, torn, misread>>
  BY DEF Finish, Passed, storeVars, sidecarVars, budget, Running
<1>2. session # None
  BY <1>1 DEF StoreInv, PollInv
<1>3. /\ Stored' = Stored /\ EventsFiled' = EventsFiled /\ Known' \subseteq Known
      /\ \A p : Chain(p)' = Chain(p) /\ Fresh(p)' = Fresh(p)
  BY <1>1, StoreSame DEF RingSet, Known, Fresh
<1>4. TypesInv'
  BY <1>1, <1>3 DEF StoreInv, TypesInv, Places
<1>5. NumbersInv'
  BY <1>1, <1>3, NumbersStay DEF StoreInv
<1>6. PollInv'
  BY <1>1, <1>2, <1>3 DEF StoreInv, PollInv, Dirty, Writing
<1>7. AppendInv'
  BY <1>1, <1>3 DEF StoreInv, AppendInv, Writing
<1>8. CleanInv'
  BY <1>1, <1>3 DEF StoreInv, CleanInv, Dirty, Writing
<1> QED
  BY <1>1, <1>4, <1>5, <1>6, <1>7, <1>8, RowsStay, LastStays, MisreadStays DEF StoreInv

LEMMA FinishInv ==
  ASSUME StoreInv, TrackedInv, Finish
  PROVE  TrackedInv'
<1>1. /\ pc' = "idle" /\ Running /\ ~Running'
      /\ cursor' = processed /\ batch' = {}
      /\ UNCHANGED <<rows, lastSeq, findings, partitions, files, manifests, tx>>
      /\ UNCHANGED <<sidecar, inFlight, ring, session, evaluated, crashes>>
  BY DEF Finish, Passed, storeVars, sidecarVars, budget, Running
<1>2. /\ Stored' = Stored /\ EventsFiled' = EventsFiled /\ RingSet' = RingSet /\ Here' = Here
      /\ \A p : Fresh(p)' = Fresh(p)
      /\ \A x : Overtaken(x)' = Overtaken(x) /\ NewRow(x)' = NewRow(x)
      /\ \A s : Mark(s)' = Mark(s)
      /\ Level' = Level /\ ~Polled'
  BY <1>1, StoreSame DEF RingSet, Here, Fresh, Overtaken, Mark, Level, Polled
<1>3. PassedInv'
  <2>1. Here \in Nat /\ Here' = cursor'
    BY <1>1, StoreFacts DEF Here
  <2> QED
    BY <1>1, <1>2, <2>1 DEF TrackedInv, PassedInv
<1>4. BegunInv'
  BY <1>1 DEF BegunInv
<1>5. RingInv'
  <2>1. \A j : Leads(j) => Leads(j)'
    BY <1>1, <1>2 DEF Leads
  <2> QED
    BY <1>1, <1>2, <2>1 DEF TrackedInv, RingInv
<1>6. EvictedInv'
  BY <1>1, <1>2, EvictedStays DEF TrackedInv
<1>7. RulesInv'
  <2>1. \A x : Pending(x)' = Pending(x)
    BY <1>1, <1>2 DEF Pending
  <2>2. \A s : Missed(s)' = Missed(s)
    BY <1>1, <1>2 DEF Missed
  <2> QED
    BY <1>1, <1>2, <2>1, <2>2 DEF TrackedInv, RulesInv
<1>8. ManifestsInv'
  BY <1>1, <1>2 DEF TrackedInv, ManifestsInv
<1> QED
  BY <1>3, <1>4, <1>5, <1>6, <1>7, <1>8 DEF TrackedInv

LEMMA CrashStore ==
  ASSUME StoreInv, Crash
  PROVE  StoreInv'
<1>1. /\ pc' = "idle" /\ ~Running' /\ session' = None /\ cursor' = 0 /\ batch' = {} /\ processed' = 0
      /\ crashes' = crashes + 1 /\ torn' = torn + 1
      /\ UNCHANGED <<rows, lastSeq, findings, partitions, files, manifests>>
      /\ UNCHANGED <<sidecar, inFlight, ring, misread>>
  BY DEF Crash, sidecarVars, Running
<1>2. crashes \in Nat /\ torn \in Nat
  BY DEF StoreInv, TypesInv
<1>3. /\ Stored' = Stored /\ EventsFiled' = EventsFiled /\ Known' \subseteq Known
      /\ \A p : Chain(p)' = Chain(p)
  BY <1>1, StoreSame DEF RingSet, Known
<1>4. TypesInv'
  BY <1>1, <1>2, <1>3, SMTT(60) DEF StoreInv, TypesInv, Places
<1>5. NumbersInv'
  BY <1>1, <1>3, NumbersStay DEF StoreInv
<1>6. PollInv'
  BY <1>1 DEF PollInv, Dirty, Writing
<1>7. AppendInv'
  BY <1>1, <1>3 DEF StoreInv, AppendInv, Writing
<1>8. CleanInv'
  BY <1>1, <1>2 DEF CleanInv
<1> QED
  BY <1>1, <1>4, <1>5, <1>6, <1>7, <1>8, RowsStay, LastStays, MisreadStays DEF StoreInv

LEMMA CrashInv ==
  ASSUME StoreInv, TrackedInv, Crash
  PROVE  TrackedInv'
<1>1. /\ pc' = "idle" /\ ~Running' /\ session' = None /\ cursor' = 0 /\ batch' = {}
      /\ crashes' = crashes + 1
      /\ UNCHANGED <<rows, lastSeq, findings, partitions, files, manifests>>
      /\ UNCHANGED <<sidecar, inFlight, ring, evaluated>>
  BY DEF Crash, sidecarVars, Running
<1> PICK c : c = sidecar.session
  OBVIOUS
<1>2. /\ c \in Sessions /\ \A s \in Sessions : s # None
      /\ crashes \in Nat
  BY StoreFacts, IngestionAssumption DEF StoreInv, TypesInv
<1>3. /\ Stored' = Stored /\ EventsFiled' = EventsFiled /\ RingSet' = RingSet
      /\ \A p : Fresh(p)' = Fresh(p)
      /\ \A x : Overtaken(x)' = Overtaken(x) /\ NewRow(x)' = NewRow(x)
      /\ \A s \in Sessions : Mark(s)' = lastSeq[s]
      /\ Level' = lastSeq[c] /\ ~Polled'
  BY <1>1, <1>2, StoreSame DEF RingSet, Fresh, Overtaken, Mark, Level, Polled
<1>4. Level \in Nat /\ Level' \in Nat /\ Level <= Level'
  BY <1>2, <1>3, StoreFacts, Facts
<1>5. PassedInv' /\ BegunInv'
  BY <1>1 DEF PassedInv, BegunInv
<1>6. RingInv'
  <2>1. \A j \in DOMAIN ring : ring[j].seq \in Nat
    <3>1. \A j \in DOMAIN ring : ring[j] \in RingSet
      BY DEF RingSet
    <3> QED
      BY <3>1, StoreFacts
  <2>2. ASSUME NEW j \in DOMAIN ring, ring[j] \in EventsFiled, ring[j].seq > Level' PROVE Leads(j)'
    <3>1. Leads(j)
      BY <1>4, <2>1, <2>2 DEF TrackedInv, RingInv
    <3>2. \A i \in 1..(j - 1) : i \in DOMAIN ring
      BY StoreFacts
    <3>3. \A i \in 1..(j - 1) : ring[i].seq <= Level'
      BY <1>4, <2>1, <3>1, <3>2 DEF Leads
    <3> QED
      BY <1>1, <1>3, <3>1, <3>3 DEF Leads
  <2> QED
    BY <1>1, <1>3, <2>2 DEF TrackedInv, RingInv
<1>7. EvictedInv'
  BY <1>1, <1>3, EvictedStays DEF TrackedInv
<1>8. RulesInv'
  <2>1. \A x \in Stored' : ~Pending(x)'
    BY <1>1, <1>2, <1>3, StoreFacts DEF Pending
  <2>2. Cardinality(Missed(c)') <= crashes + 1
    <3> PICK T : T = Missed(c)'
      OBVIOUS
    <3>1. T = {x \in Stored \ evaluated : x.session = c /\ x.seq <= lastSeq[c] /\ ~Overtaken(x)}
      BY <1>1, <1>2, <1>3 DEF Missed
    <3>2. \A x \in T : x \in Missed(c) \/ Pending(x)
      <4>1. \A x \in T : x.seq \in Nat
        BY <3>1, StoreFacts
      <4>2. session = c => Mark(c) = Here /\ Here \in Nat
        BY StoreFacts DEF Mark
      <4>3. session # c => Mark(c) = lastSeq[c]
        BY DEF Mark
      <4> QED
        BY <3>1, <4>1, <4>2, <4>3 DEF Missed, Pending
    <3>3. CASE \A x \in T : x \in Missed(c)
      <4>1. Cardinality(T) \in Nat /\ Cardinality(T) <= crashes
        BY <1>2, <3>3, MissedShrinks
      <4> QED
        BY <1>2, <4>1
    <3>4. CASE \E x \in T : x \notin Missed(c)
      <4>1. PICK x \in T : x \notin Missed(c) /\ Pending(x)
        BY <3>2, <3>4
      <4>2. ASSUME NEW y \in T \ {x} PROVE y \in Missed(c)
        <5>1. Pending(y) => y = x
          BY <3>1, <4>1 DEF TrackedInv, RulesInv
        <5> QED
          BY <3>2, <4>2, <5>1
      <4>3. /\ IsFiniteSet(T \ {x}) /\ Cardinality(T \ {x}) \in Nat /\ Cardinality(T \ {x}) <= crashes
        BY <1>2, <4>2, MissedShrinks
      <4>4. Cardinality((T \ {x}) \cup {x}) = Cardinality(T \ {x}) + 1
        BY <4>3, FS_AddElement
      <4>5. (T \ {x}) \cup {x} = T
        BY <4>1
      <4>6. Cardinality(T) = Cardinality(T \ {x}) + 1
        BY <4>4, <4>5
      <4>7. Cardinality(T) <= crashes + 1
        BY <1>2, <4>3, <4>6
      <4> QED
        BY <4>7
    <3> QED
      BY <3>3, <3>4
  <2> QED
    BY <1>1, <1>2, <2>1, <2>2 DEF RulesInv
<1>9. ManifestsInv'
  <2>1. \A x \in RingSet \cap Stored : x.seq > Level' => x.seq > Level
    BY <1>4, StoreFacts
  <2> QED
    BY <1>1, <1>3, <2>1 DEF TrackedInv, ManifestsInv
<1> QED
  BY <1>5, <1>6, <1>7, <1>8, <1>9 DEF TrackedInv

-----------------------------------------------------------------------------
(* poll_once(): the snapshot and the response.                             *)

\* Nothing of the session that runs was ever filed, and none of it is passed.
LEMMA Afresh ==
  ASSUME StoreInv, StoreInv', batch' = {}, ~Running',
         session' = None \/ (session' = sidecar'.session /\ cursor' = 0),
         \A e \in EventsFiled' : e.session # sidecar'.session
  PROVE  TrackedInv'
<1> PICK c : c = sidecar'.session
  OBVIOUS
<1>1. /\ c \in Sessions /\ c # None
  <2>1. sidecar' \in [session : Sessions, seq : 0..MaxSeq]
    BY DEF StoreInv, TypesInv
  <2> QED
    BY <2>1, IngestionAssumption
<1>2. /\ Stored' \subseteq EventsFiled' /\ Stored' \subseteq Events
      /\ \A x \in Stored' : x.session # c /\ x.session # None
  <2>1. Stored' \subseteq EventsFiled' /\ Stored' \subseteq Events
    BY DEF StoreInv, RowsInv, Stored, EventsFiled, TypesInv, Known
  <2> QED
    BY <2>1, StoreFacts, IngestionAssumption
<1>3. lastSeq'[c] = 0 /\ (session' # None => Here' = 0) /\ Level' = 0 /\ ~Polled'
  <2>1. lastSeq'[c] = 0
    BY <1>1, <1>2 DEF StoreInv, LastInv
  <2> QED
    BY <1>1, <2>1 DEF Here, Level, Polled
<1>4. \A x \in RingSet' : x \notin EventsFiled' /\ x \notin Stored'
  BY <1>2 DEF StoreInv, NumbersInv
<1>5. PassedInv' /\ BegunInv'
  BY <1>3 DEF PassedInv, BegunInv
<1>6. RingInv' /\ EvictedInv'
  <2>1. \A j \in DOMAIN ring' : ring'[j] \in RingSet'
    BY DEF RingSet
  <2> QED
    BY <1>2, <1>4, <2>1 DEF RingInv, EvictedInv
<1>7. RulesInv'
  <2>1. \A x \in Stored' : ~Pending(x)'
    BY <1>2 DEF Pending
  <2>2. Missed(c)' = {}
    BY <1>2 DEF Missed
  <2>3. Cardinality(Missed(c)') <= crashes'
    <3>1. Cardinality({}) = 0
      BY FS_EmptySet
    <3>2. crashes' \in Nat
      BY DEF StoreInv, TypesInv
    <3> QED
      BY <2>2, <3>1, <3>2
  <2>4. \A s \in Sessions : s \in {session', c} => s = c
    BY IngestionAssumption
  <2> QED
    BY <2>1, <2>3, <2>4 DEF RulesInv
<1>8. ManifestsInv'
  BY <1>4 DEF ManifestsInv
<1> QED
  BY <1>5, <1>6, <1>7, <1>8 DEF TrackedInv

LEMMA TakeOverStore ==
  ASSUME StoreInv, pc = "idle", pc' \in {"idle", "fetch"}, session' = sidecar.session, cursor' \in Nat,
         UNCHANGED <<rows, lastSeq, findings, partitions, files, manifests, tx>>, UNCHANGED <<sidecar, inFlight, ring>>,
         UNCHANGED <<batch, processed, crashes, torn>>,
         misread \subseteq misread', misread' \subseteq misread \cup {sidecar.session}
  PROVE  StoreInv'
<1> PICK c : c = sidecar.session
  OBVIOUS
<1>1. c \in Sessions /\ c \in Nat /\ c # None /\ batch = {} /\ ~Running'
  BY StoreFacts, IngestionAssumption DEF StoreInv, PollInv, Running
<1>2. /\ Stored' = Stored /\ EventsFiled' = EventsFiled /\ Known' = Known
      /\ \A p : Chain(p)' = Chain(p) /\ Fresh(p)' = Fresh(p)
  BY StoreSame DEF RingSet, Known, Fresh
<1>3. TypesInv'
  BY <1>1, <1>2 DEF StoreInv, TypesInv, Places
<1>4. NumbersInv'
  BY <1>2, NumbersStay DEF StoreInv
<1>5. RowsInv' /\ LastInv'
  BY RowsStay, LastStays DEF StoreInv
<1>6. PollInv'
  <2>1. \A x \in EventsFiled : x.session <= c
    BY DEF StoreInv, NumbersInv, Known
  <2> QED
    BY <1>1, <1>2, <2>1 DEF PollInv, Dirty, Writing
<1>7. AppendInv'
  BY <1>1, <1>2 DEF StoreInv, AppendInv, Writing
<1>8. CleanInv'
  BY <1>1, <1>2 DEF StoreInv, CleanInv, Dirty, Writing
<1>9. MisreadInv'
  BY <1>1 DEF StoreInv, MisreadInv
<1> QED
  BY <1>3, <1>4, <1>5, <1>6, <1>7, <1>8, <1>9 DEF StoreInv

LEMMA TakeOverInv ==
  ASSUME StoreInv, TrackedInv, pc = "idle", ~Running', session' = sidecar.session,
         cursor' = IF session = sidecar.session THEN cursor ELSE lastSeq[sidecar.session],
         UNCHANGED <<rows, lastSeq, findings, partitions, files, manifests>>, UNCHANGED <<sidecar, inFlight, ring>>,
         UNCHANGED <<batch, evaluated, crashes>>
  PROVE  TrackedInv'
<1> PICK c : c = sidecar.session
  OBVIOUS
<1>1. session' = c /\ cursor' = (IF session = c THEN cursor ELSE lastSeq[c]) /\ ~Running
  BY DEF Running
<1>2. /\ c \in Sessions /\ c \in Nat /\ c # None /\ batch = {}
      /\ Level \in Nat /\ Level <= lastSeq[c] /\ lastSeq[c] \in Nat
  BY <1>1, StoreFacts, Facts, IngestionAssumption DEF StoreInv, PollInv
<1>3. /\ Stored' = Stored /\ EventsFiled' = EventsFiled /\ RingSet' = RingSet
      /\ \A p : Fresh(p)' = Fresh(p)
      /\ \A x : Overtaken(x)' = Overtaken(x)
      /\ cursor' = Level /\ Here' = Level /\ Level' = Level /\ ~Polled'
  BY <1>1, StoreSame DEF RingSet, Fresh, Overtaken, Here, Level, Polled
<1>4. Mark(c)' = Level /\ Mark(c) = Level
  BY <1>1, <1>3 DEF Mark, Level
<1>5. PassedInv' /\ BegunInv'
  BY <1>1, <1>2, <1>3 DEF PassedInv, BegunInv
<1>6. RingInv' /\ EvictedInv'
  BY <1>3, RingStays, EvictedStays DEF TrackedInv
<1>7. RulesInv'
  <2>1. ASSUME NEW x \in Stored, Pending(x)' PROVE Pending(x)
    <3>1. x \notin evaluated /\ ~Overtaken(x) /\ x.session = c /\ x.seq > Level /\ x.seq \in Nat
      BY <1>1, <1>3, <2>1, StoreFacts DEF Pending
    <3>2. x.seq <= lastSeq[c]
      BY <1>2, <3>1 DEF StoreInv, LastInv
    <3>3. session = c
      BY <1>2, <3>1, <3>2 DEF Level
    <3>4. Level = Here
      BY <3>3 DEF Level
    <3> QED
      BY <3>1, <3>3, <3>4 DEF Pending
  <2>2. Missed(c)' = Missed(c)
    BY <1>3, <1>4 DEF Missed
  <2>3. Cardinality(Missed(c)') <= crashes
    BY <1>2, <2>2 DEF TrackedInv, RulesInv
  <2> QED
    BY <1>1, <1>3, <2>1, <2>3 DEF TrackedInv, RulesInv
<1>8. ManifestsInv'
  BY <1>2, <1>3 DEF TrackedInv, ManifestsInv
<1> QED
  BY <1>5, <1>6, <1>7, <1>8 DEF TrackedInv

\* The session that runs is polled in the place of one that may have been misread.
LEMMA TakeOver ==
  ASSUME StoreInv, Aware => TrackedInv, sidecar.session \notin misread,
         pc = "idle", pc' \in {"idle", "fetch"}, session' = sidecar.session,
         cursor' = IF session = sidecar.session THEN cursor ELSE lastSeq[sidecar.session],
         UNCHANGED <<rows, lastSeq, findings, partitions, files, manifests, tx>>, UNCHANGED <<sidecar, inFlight, ring>>,
         UNCHANGED <<batch, processed, evaluated, crashes, torn, misread>>
  PROVE  TrackedInv'
<1>1. CASE Aware
  <2>1. ~Running'
    BY DEF Running
  <2> QED
    BY <1>1, <2>1, TakeOverInv
<1>2. CASE ~Aware
  <2> PICK c : c = sidecar.session
    OBVIOUS
  <2>1. session \in misread /\ session # c /\ session # None /\ session < c /\ c \in Sessions
    <3>1. session \in misread /\ session # c
      BY <1>2 DEF Aware
    <3>2. session \in Nat /\ session # None /\ c \in Nat /\ c \in Sessions
      BY <3>1, StoreFacts, IngestionAssumption DEF StoreInv, MisreadInv
    <3>3. session <= c
      BY <3>2 DEF StoreInv, PollInv
    <3> QED
      BY <3>1, <3>2, <3>3
  <2>2. \A e \in EventsFiled : e.session # c
    BY <2>1, StoreFacts DEF StoreInv, PollInv
  <2>3. lastSeq[c] = 0
    BY <2>1, <2>2, StoreFacts DEF StoreInv, LastInv
  <2>4. cursor' = 0
    BY <2>1, <2>3
  <2>5. StoreInv'
    BY <2>4, TakeOverStore
  <2>6. EventsFiled' = EventsFiled /\ batch' = {} /\ ~Running'
    BY DEF StoreInv, PollInv, EventsFiled, Running
  <2> QED
    BY <2>2, <2>4, <2>5, <2>6, Afresh
<1> QED
  BY <1>1, <1>2

LEMMA SnapshotStore ==
  ASSUME StoreInv, Snapshot \/ SnapshotBreaks
  PROVE  StoreInv'
<1>1. /\ pc = "idle" /\ pc' \in {"idle", "fetch"} /\ session' = sidecar.session
      /\ UNCHANGED <<rows, lastSeq, findings, partitions, files, manifests, tx>>
      /\ UNCHANGED <<sidecar, inFlight, ring>> /\ UNCHANGED <<batch, processed, crashes, torn>>
      /\ misread \subseteq misread' /\ misread' \subseteq misread \cup {sidecar.session}
  BY DEF Snapshot, SnapshotBreaks, storeVars, sidecarVars, budget
<1>2. cursor' \in Nat
  <2>1. cursor \in Nat /\ lastSeq[sidecar.session] \in Nat
    BY StoreFacts DEF StoreInv, TypesInv
  <2> QED
    BY <2>1 DEF Snapshot, SnapshotBreaks, LastCursor
<1> QED
  BY <1>1, <1>2, TakeOverStore

LEMMA SnapshotInv ==
  ASSUME StoreInv, Aware => TrackedInv, Snapshot \/ SnapshotBreaks, Aware'
  PROVE  TrackedInv'
<1>1. /\ pc = "idle" /\ pc' \in {"idle", "fetch"} /\ session' = sidecar.session
      /\ UNCHANGED <<rows, lastSeq, findings, partitions, files, manifests, tx>>
      /\ UNCHANGED <<sidecar, inFlight, ring>>
      /\ UNCHANGED <<batch, processed, evaluated, crashes, torn>>
  BY DEF Snapshot, SnapshotBreaks, storeVars, sidecarVars, budget
<1>2. /\ sidecar.session \notin misread /\ misread' = misread
      /\ cursor' = IF session = sidecar.session THEN cursor ELSE lastSeq[sidecar.session]
  <2>1. CASE Snapshot
    BY <1>1, <2>1 DEF Snapshot, LastCursor, budget, Aware
  <2>2. CASE SnapshotBreaks
    <3>1. sidecar.session \notin misread'
      BY <1>1 DEF Aware
    <3> QED
      BY <2>2, <3>1 DEF SnapshotBreaks, LastCursor
  <2> QED
    BY <2>1, <2>2
<1> QED
  BY <1>1, <1>2, TakeOver

\* A response is the beginning of what is newer.
LEMMA SentIs ==
  ASSUME StoreInv, NEW after
  PROVE  /\ Sent(after) \subseteq Newer(after) /\ Newer(after) \subseteq DOMAIN ring
         /\ \A i \in Newer(after) : (\A j \in Newer(after) : ~(j < i)) => i \in Sent(after)
         /\ \A i \in Sent(after), j \in Newer(after) : j < i => j \in Sent(after)
<1> DEFINE before(i) == {j \in Newer(after) : j < i}
<1>1. Sent(after) = {i \in Newer(after) : Cardinality(before(i)) < Limit} /\ Newer(after) \subseteq DOMAIN ring
  BY DEF Sent, Newer
<1>2. Limit \in Nat /\ Limit > 0
  BY IngestionAssumption
<1>3. \A i \in DOMAIN ring : i \in Nat
  BY StoreFacts
<1>4. ASSUME NEW i \in Newer(after), \A j \in Newer(after) : ~(j < i) PROVE i \in Sent(after)
  <2>1. before(i) = {}
    BY <1>4
  <2>2. Cardinality({}) = 0
    BY FS_EmptySet
  <2> QED
    BY <1>1, <1>2, <2>1, <2>2
<1>5. ASSUME NEW i \in Sent(after), NEW j \in Newer(after), j < i PROVE j \in Sent(after)
  <2>1. i \in Nat /\ j \in Nat /\ Cardinality(before(i)) < Limit
    BY <1>1, <1>3
  <2>2. IsFiniteSet(before(i))
    <3>1. IsFiniteSet(1..Len(ring))
      BY StoreFacts, FS_Interval
    <3>2. before(i) \subseteq 1..Len(ring)
      BY <1>1, StoreFacts
    <3> QED
      BY <3>1, <3>2, FS_Subset
  <2>3. \A k \in Newer(after) : k \in Nat
    BY <1>1, <1>3
  <2>4. before(j) \subseteq before(i)
    <3>1. ASSUME NEW k \in Newer(after), k < j PROVE k < i
      BY <1>5, <2>1, <2>3, <3>1
    <3> QED
      BY <3>1
  <2> HIDE DEF before
  <2>5. IsFiniteSet(before(j)) /\ Cardinality(before(j)) <= Cardinality(before(i))
    BY <2>2, <2>4, FS_Subset
  <2>6. Cardinality(before(j)) \in Nat /\ Cardinality(before(i)) \in Nat
    BY <2>2, <2>5, FS_CardinalityType
  <2>7. Cardinality(before(j)) < Limit
    BY <1>2, <2>1, <2>5, <2>6
  <2> QED
    BY <1>1, <2>7
<1> QED
  BY <1>1, <1>4, <1>5

LEMMA FetchStore ==
  ASSUME StoreInv, Fetch
  PROVE  StoreInv'
<1>1. /\ pc = "fetch" /\ ~Running
      /\ UNCHANGED <<rows, lastSeq, findings, partitions, files, manifests, tx>>
      /\ UNCHANGED <<sidecar, inFlight, ring>>
      /\ UNCHANGED <<session, cursor, crashes, torn, misread>>
  BY DEF Fetch, storeVars, sidecarVars, budget, Running
<1>2. batch = {} /\ session # None
  BY <1>1 DEF StoreInv, PollInv
<1>3. /\ Stored' = Stored /\ EventsFiled' = EventsFiled /\ RingSet' = RingSet
      /\ \A p : Chain(p)' = Chain(p) /\ Fresh(p)' = Fresh(p)
  BY <1>1, StoreSame DEF RingSet, Fresh
<1>4. /\ pc' \in {"idle", "next"} /\ (Running' <=> pc' = "next") /\ processed' \in Nat
      /\ ~Running' => batch' = {}
      /\ batch' \subseteq RingSet /\ \A x \in batch' : x.session = session /\ x.seq > processed'
  <2>1. CASE Refused
    BY <1>2, <2>1 DEF Fetch, Running, StoreInv, TypesInv
  <2>2. CASE ~Refused
    <3> PICK k : k = cursor
      OBVIOUS
    <3>1. /\ pc' = "next" /\ batch' = Selected(k) /\ processed' = k
          /\ session = sidecar.session /\ k \in Nat
      BY <2>2 DEF Fetch, Refused, StoreInv, TypesInv
    <3>2. \A i \in Sent(k) : ring[i] \in RingSet /\ ring[i].seq > k
      BY DEF Sent, Newer, RingSet
    <3>3. \A x \in RingSet : x.session = sidecar.session
      BY DEF StoreInv, NumbersInv
    <3>4. \A x \in batch' : x \in RingSet /\ x.seq > k
      BY <3>1, <3>2 DEF Selected
    <3> QED
      BY <3>1, <3>3, <3>4 DEF Running
  <2> QED
    BY <2>1, <2>2
<1>5. TypesInv'
  <2>1. Known' \subseteq Known
    BY <1>1, <1>3, <1>4 DEF Known
  <2> QED
    BY <1>1, <1>4, <2>1 DEF StoreInv, TypesInv, Places
<1>6. NumbersInv'
  BY <1>1, <1>3, <1>4, NumbersStay DEF StoreInv
<1>7. PollInv'
  BY <1>1, <1>2, <1>3, <1>4 DEF StoreInv, PollInv, Dirty, Writing
<1>8. AppendInv'
  BY <1>1, <1>3, <1>4 DEF StoreInv, AppendInv, Writing
<1>9. CleanInv'
  BY <1>1, <1>3, <1>4 DEF StoreInv, CleanInv, Dirty, Writing
<1> QED
  BY <1>1, <1>5, <1>6, <1>7, <1>8, <1>9, RowsStay, LastStays, MisreadStays DEF StoreInv

LEMMA FetchInv ==
  ASSUME StoreInv, TrackedInv, Fetch
  PROVE  TrackedInv'
<1> PICK c, k : c = sidecar.session /\ k = cursor
  OBVIOUS
<1>1. /\ pc = "fetch" /\ ~Running
      /\ UNCHANGED <<rows, lastSeq, findings, partitions, files, manifests, tx>>
      /\ UNCHANGED <<sidecar, inFlight, ring>>
      /\ UNCHANGED <<session, cursor, evaluated, crashes>>
  BY DEF Fetch, storeVars, sidecarVars, budget, Running
<1>2. batch = {} /\ Here = k /\ k \in Nat /\ session # None
  BY <1>1 DEF StoreInv, PollInv, TypesInv, Here
<1>3. /\ Stored' = Stored /\ EventsFiled' = EventsFiled /\ RingSet' = RingSet
      /\ \A p : Chain(p)' = Chain(p) /\ Fresh(p)' = Fresh(p)
      /\ \A x : Overtaken(x)' = Overtaken(x) /\ NewRow(x)' = NewRow(x)
  BY <1>1, StoreSame DEF RingSet, Fresh, Overtaken
<1>4. CASE Refused
  <2>1. pc' = "idle" /\ ~Running' /\ batch' = batch /\ processed' = processed
    BY <1>4 DEF Fetch, Running
  <2>2. Here' = Here /\ Level' = Level /\ ~Polled' /\ Known' = Known /\ \A s : Mark(s)' = Mark(s)
    BY <1>1, <1>3, <2>1 DEF Here, Level, Polled, Known, Mark
  <2>3. PassedInv' /\ BegunInv' /\ ManifestsInv'
    BY <1>1, <1>2, <1>3, <2>1, <2>2 DEF TrackedInv, PassedInv, BegunInv, ManifestsInv
  <2>4. RingInv' /\ EvictedInv' /\ RulesInv'
    BY <1>1, <1>3, <2>1, <2>2, RingStays, EvictedStays, RulesStay DEF TrackedInv
  <2> QED
    BY <2>3, <2>4 DEF TrackedInv
<1>5. CASE ~Refused
  <2>1. /\ pc' = "next" /\ Running' /\ batch' = Selected(k) /\ processed' = k
        /\ session = c /\ ~CursorLost(k) /\ Ordered(k)
    BY <1>5 DEF Fetch, Refused, Running
  <2>2. /\ c \in Sessions /\ c \in Nat
        /\ Here' = k /\ Level = k /\ Level' = k /\ Polled' /\ \A s : Mark(s)' = Mark(s)
    BY <1>1, <1>2, <2>1, StoreFacts DEF Here, Level, Polled, Mark
  <2>3. /\ \A i \in DOMAIN ring : ring[i] \in RingSet
        /\ \A x \in RingSet : x \in Events /\ x.seq \in Nat /\ x.seq >= 1 /\ x.session = c /\ x \in Known
        /\ DOMAIN ring = 1..Len(ring) /\ Len(ring) \in Nat
    <3>1. RingSet \subseteq Events /\ DOMAIN ring = 1..Len(ring) /\ Len(ring) \in Nat
      BY StoreFacts
    <3>2. \A x \in RingSet : x \in Events /\ x.seq \in Nat /\ x.seq >= 1
      BY <3>1, StoreFacts
    <3> QED
      BY <3>1, <3>2 DEF RingSet, StoreInv, NumbersInv, Known
  <2>4. /\ \A i \in Sent(k) : i \in DOMAIN ring /\ ring[i].seq > k /\ ring[i] \in batch'
        /\ \A i \in DOMAIN ring : ring[i].seq > k /\ (\A j \in 1..(i - 1) : ring[j].seq <= k) => i \in Sent(k)
        /\ \A i \in Sent(k), j \in DOMAIN ring : j < i /\ ring[j].seq > k => j \in Sent(k)
        /\ \A x \in batch' : \E i \in Sent(k) : x = ring[i]
    <3>1. \A i : i \in Newer(k) <=> i \in DOMAIN ring /\ ring[i].seq > k
      BY DEF Newer
    <3>2. /\ Sent(k) \subseteq Newer(k)
          /\ \A i \in Newer(k) : (\A j \in Newer(k) : ~(j < i)) => i \in Sent(k)
          /\ \A i \in Sent(k), j \in Newer(k) : j < i => j \in Sent(k)
      BY SentIs
    <3>3. ASSUME NEW i \in DOMAIN ring, ring[i].seq > k, \A j \in 1..(i - 1) : ring[j].seq <= k PROVE i \in Sent(k)
      <4>1. ASSUME NEW j \in Newer(k), j < i PROVE FALSE
        <5>1. j \in 1..(i - 1) /\ ring[j].seq > k /\ ring[j].seq \in Nat
          BY <2>3, <3>1, <4>1
        <5> QED
          BY <1>2, <3>3, <5>1
      <4> QED
        BY <3>1, <3>2, <3>3, <4>1
    <3> QED
      BY <2>1, <3>1, <3>2, <3>3 DEF Selected
  <2>5. /\ \A x \in batch' : x \in RingSet /\ x.session = session /\ x.seq > k
        /\ batch' \in SUBSET Events
    BY <2>1, <2>3, <2>4
  <2>6. batch' # {} => Event' \in batch' /\ \A x \in batch' : Event'.seq <= x.seq
    <3> PICK B, e : B = batch' /\ e = Event'
      OBVIOUS
    <3>1. e = CHOOSE x \in B : \A f \in B : x.seq <= f.seq
      BY DEF Event
    <3>2. B # {} => e \in B /\ \A x \in B : e.seq <= x.seq
      BY <2>5, <3>1, LeastEvent
    <3> QED
      BY <3>2
  <2>7. ASSUME NEW j \in DOMAIN ring, ring[j].seq > k, \A i \in 1..(j - 1) : ring[i].seq <= k
        PROVE  ring[j] \in batch' /\ ring[j] = Event'
    <3>1. j \in Sent(k) /\ ring[j] \in batch'
      BY <2>4, <2>7
    <3>2. PICK i \in Sent(k) : Event' = ring[i] /\ i \in DOMAIN ring /\ ring[i].seq > k
      BY <2>4, <2>6, <3>1
    <3>3. ring[i].seq <= ring[j].seq /\ ring[i].seq \in Nat /\ ring[j].seq \in Nat
      BY <2>3, <2>6, <3>1, <3>2
    <3>4. ~(j < i)
      <4>1. j < i => ring[j].seq < ring[i].seq
        BY <2>1, <3>1, <3>2 DEF Ordered
      <4> QED
        BY <3>3, <4>1
    <3>5. ~(i < j)
      <4>1. i < j => i \in 1..(j - 1)
        BY <2>3, <3>2
      <4> QED
        BY <1>2, <2>7, <3>2, <3>3, <4>1
    <3>6. i = j
      BY <2>3, <3>2, <3>4, <3>5
    <3> QED
      BY <3>1, <3>2, <3>6
  <2>8. ASSUME NEW j \in DOMAIN ring, ring[j] \in EventsFiled, ring[j].seq > k
        PROVE  Leads(j) /\ ring[j] \in batch' /\ ring[j] = Event'
    <3>1. Leads(j)
      BY <2>2, <2>8 DEF TrackedInv, RingInv
    <3>2. \A i \in 1..(j - 1) : ring[i].seq <= k
      BY <2>2, <3>1 DEF Leads
    <3> QED
      BY <2>7, <2>8, <3>1, <3>2
  <2>9. ASSUME NEW x \in batch', x = Event', lastSeq[session] = 0 PROVE x.seq = 1
    <3>1. k = 0
      BY <1>2, <2>9 DEF TrackedInv, PassedInv
    <3>2. ring # <<>> /\ 1 \in DOMAIN ring
      <4>1. PICK i \in DOMAIN ring : x = ring[i]
        BY <2>5, <2>9 DEF RingSet
      <4> QED
        BY <2>3, <4>1
    <3>3. ~(0 + 1 < ring[1].seq)
      BY <2>1, <3>1, <3>2 DEF CursorLost
    <3>4. ring[1].seq = 1
      BY <2>3, <3>2, <3>3
    <3>5. ring[1] = Event'
      BY <2>7, <3>1, <3>2, <3>4
    <3> QED
      BY <2>9, <3>4, <3>5
  <2>10. PassedInv'
    <3>1. cursor <= k /\ k <= lastSeq[session]
      BY <1>2 DEF TrackedInv, PassedInv
    <3> QED
      BY <1>1, <1>2, <2>2, <2>9, <3>1 DEF PassedInv
  <2>11. BegunInv'
    <3>1. ASSUME NEW x \in batch', x \in EventsFiled
          PROVE  x = Event' /\ (x \notin Stored => \A f \in files : f.event = x => f = NewRow(x))
      <4>1. PICK j \in DOMAIN ring : x = ring[j]
        BY <2>5, <3>1 DEF RingSet
      <4>2. Leads(j) /\ ring[j] = Event'
        BY <2>5, <2>8, <3>1, <4>1
      <4> QED
        BY <4>1, <4>2 DEF Leads
    <3>2. ASSUME NEW x \in batch', x \notin Stored, NEW f \in files, f.event = x PROVE f = NewRow(x)
      <4>1. x \in EventsFiled
        BY <3>2 DEF EventsFiled
      <4> QED
        BY <3>1, <3>2, <4>1
    <3> QED
      BY <1>1, <1>3, <3>1, <3>2 DEF BegunInv
  <2>12. RingInv'
    <3>1. ASSUME NEW j \in DOMAIN ring, ring[j] \in EventsFiled, ring[j].seq > k PROVE Leads(j)'
      BY <1>1, <1>3, <2>2, <2>8, <3>1 DEF Leads
    <3>2. ASSUME NEW j \in DOMAIN ring, NEW i \in 1..(j - 1)
          PROVE  /\ ring[j] \in Stored \cup batch' => ring[i].seq < ring[j].seq
                 /\ ring[j] \in batch' => ring[i].seq <= k \/ ring[i] \in batch'
      <4>1. i \in DOMAIN ring /\ i < j /\ ring[i].seq \in Nat /\ ring[j].seq \in Nat
        <5>1. i \in DOMAIN ring /\ i < j
          BY <2>3
        <5> QED
          BY <2>3, <5>1
      <4>2. ring[j] \in Stored => ring[i].seq < ring[j].seq
        BY DEF TrackedInv, RingInv
      <4>3. ASSUME ring[j] \in batch' PROVE ring[i].seq < ring[j].seq /\ (ring[i].seq <= k \/ ring[i] \in batch')
        <5>1. j \in Sent(k) /\ ring[j].seq > k
          <6>1. PICK m \in Sent(k) : ring[j] = ring[m]
            BY <2>4, <4>3
          <6>2. j = m
            BY <2>4, <6>1 DEF StoreInv, NumbersInv
          <6> QED
            BY <2>4, <6>1, <6>2
        <5>2. CASE ring[i].seq <= k
          BY <1>2, <4>1, <5>1, <5>2
        <5>3. CASE ring[i].seq > k
          <6>1. i \in Sent(k)
            BY <2>4, <4>1, <5>1, <5>3
          <6> QED
            BY <2>1, <2>4, <4>1, <5>1, <6>1 DEF Ordered
        <5> QED
          BY <1>2, <4>1, <5>2, <5>3
      <4> QED
        BY <4>2, <4>3
    <3> QED
      BY <1>1, <1>3, <2>2, <3>1, <3>2 DEF RingInv
  <2>13. EvictedInv'
    <3>1. \A x \in batch' : x \in RingSet
      BY <2>5
    <3> QED
      BY <1>1, <1>3, <3>1 DEF TrackedInv, EvictedInv
  <2>14. RulesInv'
    <3>1. \A x : Pending(x)' = Pending(x)
      BY <1>1, <1>2, <1>3, <2>2 DEF Pending
    <3>2. \A s : Missed(s)' = Missed(s)
      BY <1>1, <1>3, <2>2 DEF Missed
    <3>3. ASSUME NEW x \in Stored, Pending(x) PROVE x \in batch' /\ x = Event'
      <4>1. /\ x.session = c /\ x.seq > k /\ ~Overtaken(x) /\ x.seq \in Nat /\ x \in EventsFiled
        BY <1>2, <2>1, <3>3, StoreFacts DEF Pending
      <4>2. x \in RingSet
        <5> SUFFICES ASSUME x \notin RingSet PROVE FALSE
          OBVIOUS
        <5>1. ring # <<>> /\ \A h \in RingSet : h.seq > x.seq
          BY <4>1 DEF TrackedInv, EvictedInv
        <5>2. 1 \in DOMAIN ring /\ ring[1] \in RingSet /\ Head(ring) = ring[1]
          <6>1. ring \in Seq(Events)
            BY DEF StoreInv, TypesInv
          <6>2. Len(ring) # 0 /\ Head(ring) = ring[1]
            BY <5>1, <6>1
          <6>3. 1 \in DOMAIN ring
            BY <2>3, <6>2
          <6> QED
            BY <2>3, <6>2, <6>3
        <5>3. ring[1].seq > x.seq /\ ring[1].seq \in Nat
          BY <2>3, <5>1, <5>2
        <5>4. k + 1 < ring[1].seq
          BY <1>2, <4>1, <5>3
        <5> QED
          BY <2>1, <5>1, <5>2, <5>4 DEF CursorLost
      <4>3. PICK j \in DOMAIN ring : x = ring[j]
        BY <4>2 DEF RingSet
      <4> QED
        BY <2>8, <4>1, <4>3
    <3> QED
      BY <1>1, <1>3, <3>1, <3>2, <3>3 DEF TrackedInv, RulesInv
  <2>15. ManifestsInv'
    <3>1. ASSUME NEW x \in batch', x \in Stored PROVE Fresh(Partition(x))
      BY <2>2, <2>5, <3>1 DEF TrackedInv, ManifestsInv
    <3>2. \A x : Fresh(Partition(x)) => Fresh(Partition(x))'
      BY <1>3 DEF Partition
    <3> QED
      BY <1>1, <1>3, <2>1, <2>2, <3>1, <3>2 DEF TrackedInv, ManifestsInv
  <2> QED
    BY <2>10, <2>11, <2>12, <2>13, <2>14, <2>15 DEF TrackedInv
<1> QED
  BY <1>4, <1>5

-----------------------------------------------------------------------------
(* The theorems.                                                           *)

LEMMA InitInv ==
  ASSUME Init
  PROVE  StoreInv /\ TrackedInv
<1>1. /\ rows = <<>> /\ findings = {} /\ tx = None /\ lastSeq = [s \in Sessions |-> 0]
      /\ partitions = [p \in Symbols |-> NoRows] /\ files = {} /\ manifests = [p \in Symbols |-> NoRows]
      /\ sidecar = [session |-> 1, seq |-> 0] /\ inFlight = {} /\ ring = <<>>
      /\ pc = "idle" /\ session = None /\ cursor = 0 /\ batch = {} /\ processed = 0
      /\ evaluated = {} /\ crashes = 0 /\ torn = 0 /\ misread = {}
  BY DEF Init, StoreInit
<1>2. /\ DOMAIN rows = {} /\ DOMAIN ring = {} /\ Len(ring) = 0
      /\ Stored = {} /\ EventsFiled = {} /\ RingSet = {} /\ Known = {}
      /\ ~Running /\ 1 \in Sessions /\ MaxSeq \in Nat /\ RingSize \in Nat
  BY <1>1, IngestionAssumption DEF Stored, EventsFiled, RingSet, Known, Running, Sessions
<1>3. TypesInv
  <2>1. rows \in Seq({rows[i] : i \in DOMAIN rows})
    BY <1>1
  <2> QED
    BY <1>1, <1>2, <2>1 DEF TypesInv, Places
<1>4. NumbersInv
  BY <1>1, <1>2 DEF NumbersInv
<1>5. RowsInv /\ LastInv
  BY <1>1, <1>2 DEF RowsInv, LastInv
<1>6. PollInv /\ MisreadInv
  BY <1>1, <1>2 DEF PollInv, MisreadInv, Dirty, Writing
<1>7. PassedInv /\ BegunInv /\ RingInv /\ EvictedInv
  BY <1>1, <1>2 DEF PassedInv, BegunInv, RingInv, EvictedInv
<1>8. RulesInv
  <2>1. \A s : Missed(s) = {}
    BY <1>2 DEF Missed
  <2>2. Cardinality({}) = 0
    BY FS_EmptySet
  <2>3. ASSUME NEW s PROVE Cardinality(Missed(s)) <= crashes
    <3>1. Cardinality(Missed(s)) = 0
      BY <2>1, <2>2
    <3> QED
      BY <1>1, <3>1
  <2> QED
    BY <1>2, <2>3 DEF RulesInv
<1>9. \A p : Chain(p) = NoRows
  <2>1. \A p : Chain(p) = [i \in {} |-> rows[i]]
    BY <1>2 DEF Chain, PartitionRows
  <2>2. NoRows = [i \in {} |-> rows[i]]
    BY <1>1, <1>2 DEF NoRows, PartitionRows
  <2> QED
    BY <2>1, <2>2
<1>10. AppendInv /\ ManifestsInv
  BY <1>1, <1>2, <1>9 DEF AppendInv, ManifestsInv, Fresh, Writing
<1>11. CleanInv
  BY <1>1, <1>2, <1>9 DEF CleanInv, Fresh, Writing
<1> QED
  BY <1>3, <1>4, <1>5, <1>6, <1>7, <1>8, <1>10, <1>11 DEF StoreInv, TrackedInv

LEMMA StutterStore ==
  ASSUME StoreInv, UNCHANGED vars
  PROVE  StoreInv'
<1>1. /\ UNCHANGED <<rows, lastSeq, findings, partitions, files, manifests, tx>>
      /\ UNCHANGED <<sidecar, inFlight, ring, pc, memory>>
      /\ UNCHANGED <<session, cursor, batch, processed, crashes, torn, misread>>
  BY DEF vars, storeVars, sidecarVars, memory, budget
<1>2. Stored' = Stored /\ EventsFiled' = EventsFiled /\ Known' = Known
  BY <1>1, StoreSame DEF RingSet, Known
<1>3. TypesInv'
  BY <1>1, <1>2 DEF StoreInv, TypesInv
<1>4. NumbersInv' /\ RowsInv' /\ LastInv'
  BY <1>1, <1>2, NumbersStay, RowsStay, LastStays DEF StoreInv
<1>5. PollInv' /\ AppendInv' /\ CleanInv' /\ MisreadInv'
  BY <1>1, PollStays, AppendStays, CleanStays, MisreadStays DEF StoreInv, PollInv
<1> QED
  BY <1>3, <1>4, <1>5 DEF StoreInv

LEMMA StutterInv ==
  ASSUME TrackedInv, UNCHANGED vars
  PROVE  TrackedInv'
<1>1. /\ UNCHANGED <<rows, lastSeq, findings, partitions, files, manifests, tx>>
      /\ UNCHANGED <<sidecar, inFlight, ring, pc, memory, evaluated>>
      /\ UNCHANGED <<session, cursor, batch, processed, crashes>>
  BY DEF vars, storeVars, sidecarVars, memory, budget
<1>2. /\ Stored' = Stored /\ RingSet' = RingSet
      /\ Running' = Running /\ Here' = Here /\ Level' = Level /\ Polled' = Polled
  BY <1>1, StoreSame DEF RingSet, Running, Here, Level, Polled
<1> QED
  BY <1>1, <1>2, PassedStays, BegunStays, RingStays, EvictedStays, RulesStay, ManifestsStay DEF TrackedInv

\* A session that is polled and was not misread is the only one that matters.
LEMMA PolledIsAware ==
  ASSUME StoreInv, session # None, session \notin misread
  PROVE  Aware
  BY DEF StoreInv, MisreadInv, Aware

LEMMA NextStore ==
  ASSUME IngestionInv, [Next]_vars
  PROVE  StoreInv'
<1>0. StoreInv
  BY DEF IngestionInv
<1>1. CASE \E symbol \in Symbols : NextCallback(symbol)
  BY <1>0, <1>1, NextCallbackStore
<1>2. CASE \E e \in inFlight : RingAppend(e)
  BY <1>0, <1>2, RingAppendStore
<1>3. CASE SidecarRestarts
  BY <1>0, <1>3, SidecarRestartsStore
<1>4. CASE Snapshot \/ SnapshotBreaks
  BY <1>0, <1>4, SnapshotStore
<1>5. CASE Fetch
  BY <1>0, <1>5, FetchStore
<1>6. CASE AppendOpens
  <2>1. CASE pc' = "manifest"
    BY <1>0, <1>6, <2>1, OpenStore
  <2>2. CASE pc' # "manifest"
    BY <1>0, <1>6, <2>2, AppendFindsStore
  <2> QED
    BY <2>1, <2>2
<1>7. CASE AppendManifest
  BY <1>0, <1>7, AppendManifestStore
<1>8. CASE AppendCommits
  <2>1. session # None
    BY <1>0, <1>8 DEF AppendCommits, StoreInv, PollInv
  <2>2. session \notin misread => PassedInv
    BY <1>0, <2>1, PolledIsAware DEF IngestionInv, TrackedInv
  <2> QED
    BY <1>0, <1>8, <2>2, CommitStore
<1>9. CASE AppendBreaks
  BY <1>0, <1>9, AppendBreaksStore
<1>10. CASE Undo
  BY <1>0, <1>10, UndoStore
<1>11. CASE Rebuild
  BY <1>0, <1>11, RebuildStore
<1>12. CASE RebuildBreaks
  BY <1>0, <1>12, RebuildBreaksStore
<1>13. CASE Evaluate
  BY <1>0, <1>13, EvaluateStore
<1>14. CASE EvaluateBreaks
  BY <1>0, <1>14, EvaluateBreaksStore
<1>15. CASE Finish
  BY <1>0, <1>15, FinishStore
<1>16. CASE Crash
  BY <1>0, <1>16, CrashStore
<1>17. CASE UNCHANGED vars
  BY <1>0, <1>17, StutterStore
<1> QED
  BY <1>1, <1>2, <1>3, <1>4, <1>5, <1>6, <1>7, <1>8, <1>9, <1>10, <1>11, <1>12, <1>13, <1>14,
     <1>15, <1>16, <1>17 DEF Next, Poll

LEMMA NextTracked ==
  ASSUME StoreInv, TrackedInv, Aware, StoreInv', Aware', [Next]_vars
  PROVE  TrackedInv'
<1>1. CASE \E symbol \in Symbols : NextCallback(symbol)
  BY <1>1, NextCallbackInv
<1>2. CASE \E e \in inFlight : RingAppend(e)
  BY <1>2, RingAppendInv
<1>3. CASE SidecarRestarts
  BY <1>3, SidecarRestartsInv
<1>4. CASE Snapshot \/ SnapshotBreaks
  BY <1>4, SnapshotInv
<1>5. CASE Fetch
  BY <1>5, FetchInv
<1>6. CASE AppendOpens
  <2>1. CASE pc' = "manifest"
    BY <1>6, <2>1, OpenInv
  <2>2. CASE pc' # "manifest"
    BY <1>6, <2>2, AppendFindsInv
  <2> QED
    BY <2>1, <2>2
<1>7. CASE AppendManifest
  BY <1>7, AppendManifestInv
<1>8. CASE AppendCommits
  BY <1>8, CommitInv
<1>9. CASE AppendBreaks
  BY <1>9, AppendBreaksInv
<1>10. CASE Undo
  BY <1>10, UndoInv
<1>11. CASE Rebuild
  BY <1>11, RebuildInv
<1>12. CASE RebuildBreaks
  BY <1>12, RebuildBreaksInv
<1>13. CASE Evaluate
  BY <1>13, EvaluateInv
<1>14. CASE EvaluateBreaks
  BY <1>14, EvaluateBreaksInv
<1>15. CASE Finish
  BY <1>15, FinishInv
<1>16. CASE Crash
  BY <1>16, CrashInv
<1>17. CASE UNCHANGED vars
  BY <1>17, StutterInv
<1> QED
  BY <1>1, <1>2, <1>3, <1>4, <1>5, <1>6, <1>7, <1>8, <1>9, <1>10, <1>11, <1>12, <1>13, <1>14,
     <1>15, <1>16, <1>17 DEF Next, Poll

\* Only a session that is new gets rid of one that was misread.
LEMMA NextAfresh ==
  ASSUME StoreInv, ~Aware, StoreInv', Aware', [Next]_vars
  PROVE  TrackedInv'
<1>1. CASE Snapshot \/ SnapshotBreaks
  BY <1>1, SnapshotInv
<1>2. CASE SidecarRestarts
  <2>1. session' = session /\ misread' = misread /\ files' = files
        /\ batch' = batch /\ pc' = pc
    BY <1>2 DEF SidecarRestarts, storeVars, memory, budget
  <2>2. session \notin misread /\ sidecar.session \in misread
    BY <2>1 DEF Aware
  <2>3. session = None
    BY <2>2 DEF StoreInv, MisreadInv
  <2>4. batch' = {} /\ ~Running'
    BY <2>1, <2>3 DEF StoreInv, PollInv, Running
  <2>5. \A e \in EventsFiled' : e.session # sidecar'.session
    BY <1>2, SidecarRestartsStore DEF Known
  <2> QED
    BY <2>1, <2>3, <2>4, <2>5, Afresh
<1>3. CASE Crash
  <2> PICK c : c = sidecar.session
    OBVIOUS
  <2>1. /\ sidecar' = sidecar /\ misread' = misread /\ files' = files
        /\ session' = None /\ batch' = {} /\ ~Running'
    BY <1>3 DEF Crash, sidecarVars, Running
  <2>2. session \in misread /\ session # c
    BY <2>1 DEF Aware
  <2>3. session \in Nat /\ session # None /\ c \in Nat
    BY <2>2, StoreFacts, IngestionAssumption DEF StoreInv, MisreadInv
  <2>4. session < c
    BY <2>2, <2>3 DEF StoreInv, PollInv
  <2>5. \A e \in EventsFiled : e.session <= session /\ e.session \in Nat
    BY <2>3, StoreFacts DEF StoreInv, PollInv
  <2>6. \A e \in EventsFiled' : e.session # sidecar'.session
    BY <2>1, <2>3, <2>4, <2>5 DEF EventsFiled
  <2> QED
    BY <2>1, <2>6, Afresh
<1>4. CASE ~(Snapshot \/ SnapshotBreaks) /\ ~SidecarRestarts /\ ~Crash
  <2>1. session' = session /\ sidecar'.session = sidecar.session /\ misread' = misread
    <3>1. CASE \E symbol \in Symbols : NextCallback(symbol)
      BY <3>1 DEF NextCallback, memory, budget
    <3>2. CASE \E e \in inFlight : RingAppend(e)
      BY <3>2 DEF RingAppend, memory, budget
    <3>3. CASE Poll
      BY <1>4, <3>3 DEF Poll, Fetch, AppendOpens, AppendManifest, AppendCommits, AppendBreaks, Undo,
         Rebuild, RebuildBreaks, Evaluate, EvaluateBreaks, Finish, sidecarVars, memory, budget
    <3>4. CASE UNCHANGED vars
      BY <3>4 DEF vars, sidecarVars, memory, budget
    <3> QED
      BY <1>4, <3>1, <3>2, <3>3, <3>4 DEF Next
  <2> QED
    BY <2>1 DEF Aware
<1> QED
  BY <1>1, <1>2, <1>3, <1>4

LEMMA NextInv ==
  ASSUME IngestionInv, [Next]_vars
  PROVE  IngestionInv'
<1>1. StoreInv /\ StoreInv'
  BY NextStore DEF IngestionInv
<1>2. ASSUME Aware' PROVE TrackedInv'
  <2>1. CASE Aware
    BY <1>1, <1>2, <2>1, NextTracked DEF IngestionInv
  <2>2. CASE ~Aware
    BY <1>1, <1>2, <2>2, NextAfresh
  <2> QED
    BY <2>1, <2>2
<1> QED
  BY <1>1, <1>2 DEF IngestionInv

(* Whatever the callbacks, the faults and the crashes, what the ring, the  *)
(* store and poll_once() keep fits together: the invariant the theorems    *)
(* below rest on.                                                          *)
THEOREM IngestionInvariant == Spec => []IngestionInv
<1>1. Init => IngestionInv
  BY InitInv DEF IngestionInv
<1>2. IngestionInv /\ [Next]_vars => IngestionInv'
  BY NextInv
<1> QED
  BY <1>1, <1>2, PTL DEF Spec

LEMMA RowsAreIntact ==
  ASSUME StoreInv
  PROVE  RowsIntact
<1> SUFFICES ASSUME NEW p \in Symbols, NEW i \in DOMAIN Chain(p)
             PROVE  /\ Filed(Chain(p)[i].event) = {Chain(p)[i]}
                    /\ Chain(p)[i].prev = HashBefore(Chain(p), i)
  BY DEF RowsIntact, ChainIntact, Chain
<1>1. i \in DOMAIN rows /\ Partition(rows[i].event) = p /\ Chain(p)[i] = rows[i]
  BY DEF Chain, PartitionRows
<1>2. rows[i] \in files /\ rows[i].prev = HashBefore(Chain(p), i)
  BY <1>1 DEF StoreInv, RowsInv
<1>3. Filed(rows[i].event) = {rows[i]}
  BY <1>2 DEF Filed, StoreInv, RowsInv
<1> QED
  BY <1>1, <1>2, <1>3

(* append() and its handler, crashes included: every committed row keeps   *)
(* its event file, and the hash chain of every partition is unbroken.      *)
THEOREM RowsIntactHolds == Spec => []RowsIntact
<1>1. IngestionInv => RowsIntact
  BY RowsAreIntact DEF IngestionInv
<1> QED
  BY <1>1, IngestionInvariant, PTL

LEMMA FailuresDoHeal ==
  ASSUME IngestionInv
  PROVE  FailuresHeal
<1>0. StoreInv
  BY DEF IngestionInv
<1>1. \A p \in Symbols : ChainIntact(p)
  BY <1>0, RowsAreIntact DEF RowsIntact
<1>2. \A p \in Symbols : Fresh(p) => Verifies(p) /\ manifests[p] = CommittedManifest(p)
  BY <1>0, <1>1 DEF Verifies, ManifestIntact, Fresh, Chain, CommittedManifest, StoreInv, AppendInv
<1>3. LeavesNoTrace
  <2> SUFFICES ASSUME torn = 0, pc \notin Dirty
               PROVE  (\A p \in Symbols : Fresh(p)) /\ \A f \in files : f.event \in Stored
    BY <1>2 DEF LeavesNoTrace, Dirty, Writing
  <2> QED
    BY <1>0 DEF StoreInv, CleanInv, Dirty
<1>4. ASSUME session \notin misread, batch # {} PROVE Event \in batch /\ Partition(Event) \in Symbols /\ TrackedInv
  <2>1. Event \in batch /\ Partition(Event) \in Symbols /\ Running
    BY <1>0, <1>4, EventIs
  <2>2. session # None
    BY <1>0, <2>1 DEF StoreInv, PollInv, Running
  <2> QED
    BY <1>0, <1>4, <2>1, <2>2, PolledIsAware DEF IngestionInv
<1>5. ASSUME session \notin misread, pc = "evaluate" PROVE Verifies(Partition(Event))
  <2>1. batch # {}
    BY <1>0, <1>5 DEF StoreInv, PollInv
  <2>2. Event \in batch /\ Partition(Event) \in Symbols /\ TrackedInv
    BY <1>4, <1>5, <2>1
  <2>3. Event \in Stored
    BY <1>0, <1>5, <2>2 DEF StoreInv, AppendInv
  <2>4. Fresh(Partition(Event))
    BY <2>2, <2>3 DEF TrackedInv, ManifestsInv
  <2> QED
    BY <1>2, <2>2, <2>4
<1>6. ASSUME session \notin misread, batch # {} PROVE IsDuplicate(Event) \/ ~Collides(Event)
  <2>1. Event \in batch /\ TrackedInv
    BY <1>4, <1>6
  <2>2. Event \notin Stored => \A f \in Filed(Event) : f = NewRow(Event)
    BY <2>1 DEF Filed, TrackedInv, BegunInv
  <2> QED
    BY <2>2 DEF IsDuplicate, Collides
<1> QED
  BY <1>3, <1>5, <1>6 DEF FailuresHeal

(* An append() that failed and recovered leaves no trace, and what a crash *)
(* leaves behind is adopted or heals, whatever the order of the faults.    *)
THEOREM FailuresHealHolds == Spec => []FailuresHeal
<1>1. IngestionInv => FailuresHeal
  BY FailuresDoHeal
<1> QED
  BY <1>1, IngestionInvariant, PTL

LEMMA NothingIsUnseen ==
  ASSUME IngestionInv
  PROVE  NothingPassesUnseen
<1>0. StoreInv
  BY DEF IngestionInv
<1>1. \A s \in Sessions \ misread : \A n \in 1..lastSeq[s] : Accounted(s, n)
  BY <1>0 DEF StoreInv, LastInv
<1>2. ASSUME session \notin misread \cup {None}
      PROVE  /\ cursor <= lastSeq[session]
             /\ Cardinality({e \in Stored : /\ e.session = session /\ e.seq <= cursor
                                            /\ e \notin evaluated /\ ~Overtaken(e)}) <= crashes
  <2>1. session # None /\ TrackedInv
    BY <1>0, <1>2, PolledIsAware DEF IngestionInv
  <2>2. /\ session \in Sessions /\ cursor \in Nat /\ Here \in Nat /\ lastSeq[session] \in Nat
        /\ cursor <= Here /\ Here <= lastSeq[session] /\ Mark(session) = Here
    <3>1. session \in Sessions /\ Here \in Nat /\ \A s \in Sessions : lastSeq[s] \in Nat
      BY <1>0, <2>1, StoreFacts
    <3> QED
      BY <1>0, <2>1, <3>1 DEF TrackedInv, PassedInv, StoreInv, TypesInv, Mark
  <2> PICK T : T = {e \in Stored : /\ e.session = session /\ e.seq <= cursor
                                   /\ e \notin evaluated /\ ~Overtaken(e)}
    OBVIOUS
  <2>3. \A e \in T : e.seq \in Nat
    BY <1>0, StoreFacts
  <2>4. \A e \in T : e \in Missed(session)
    BY <2>2, <2>3 DEF Missed
  <2>5. Cardinality(T) <= crashes
    BY <1>0, <2>1, <2>2, <2>4, MissedShrinks
  <2>6. cursor <= lastSeq[session]
    BY <2>2
  <2> QED
    BY <2>5, <2>6
<1> QED
  BY <1>1, <1>2 DEF NothingPassesUnseen, Accounted

(* Evictions from the ring, late callbacks, failed polls and restarts: no  *)
(* callback is passed without being stored or in a recorded gap, and no    *)
(* more stored events than crashes are passed without their evaluation.    *)
THEOREM NothingPassesUnseenHolds == Spec => []NothingPassesUnseen
<1>1. IngestionInv => NothingPassesUnseen
  BY NothingIsUnseen
<1> QED
  BY <1>1, IngestionInvariant, PTL

-----------------------------------------------------------------------------
(* TransportCoverage.                                                      *)

\* What became of a trade, which the collector cannot see: the epoch that heard it and the number
\* its callback was given, or 0.
Fates == [epoch : Nat, seq : Nat]
Numbered(fate, i) == fate[i].seq > 0

FeedTypes ==
  /\ instant \in Nat /\ heard \in Nat /\ lost \in Seq(Nat) /\ (up => Current > 0)
  /\ trades \in Seq(Nat) /\ \A i \in DOMAIN trades : trades[i] <= instant
  /\ heard <= Len(trades)
  /\ queue \in Seq([at : Nat, epoch : Nat, seq : Nat])
  /\ records \in Seq([at : Nat, epoch : Nat, seq : Nat, known : Nat])
  /\ \A r \in transport : r.epoch \in 1 .. Current /\ r.at \in 0 .. instant /\ r.high \in Nat

\* In a scope no number is given twice, and none is above the last that was given.
HeardInv(fate) ==
  /\ \A i \in DOMAIN trades : fate[i].seq <= Len(trades)
  /\ \A i \in DOMAIN trades : Numbered(fate, i) =>
       /\ fate[i].epoch \in 1 .. Current
       /\ scope = "SESSION" \/ fate[i].epoch = Current => fate[i].seq <= heard
  /\ \A i, j \in DOMAIN trades :
       i # j /\ Numbered(fate, i) /\ fate[i].seq = fate[j].seq =>
         scope # "SESSION" /\ fate[i].epoch # fate[j].epoch

\* Whoever is subscribed hears every trade; a heartbeat is the word of one who was subscribed until
\* then, and a watermark counts what was heard before it.
SubscribedInv(fate) ==
  Subscribed => \A r \in transport, i \in DOMAIN trades :
    r.epoch = Current /\ r.kind = "SUBSCRIPTION_ACKNOWLEDGED" /\ r.at <= trades[i] =>
      Numbered(fate, i) /\ fate[i].epoch = Current
HeartbeatsInv(fate) ==
  \A r, h \in transport, i \in DOMAIN trades :
    /\ r.kind = "SUBSCRIPTION_ACKNOWLEDGED" /\ h.kind = "HEARTBEAT" /\ h.epoch = r.epoch
    /\ r.at <= trades[i] /\ trades[i] < h.at
    => Numbered(fate, i) /\ fate[i].epoch = r.epoch
WatermarksInv(fate) ==
  \A w \in transport, i \in DOMAIN trades :
    /\ w.kind = "CALLBACK_WATERMARK" /\ trades[i] < w.at
    /\ Numbered(fate, i) /\ fate[i].epoch = w.epoch
    => fate[i].seq <= w.high
LoggedInv(fate) == SubscribedInv(fate) /\ HeartbeatsInv(fate) /\ WatermarksInv(fate)

\* A callback is of a trade, in the queue or stored, and there once.
CallbackOf(c, fate, i) ==
  c.seq > 0 /\ fate[i].seq = c.seq /\ fate[i].epoch = c.epoch /\ trades[i] = c.at
Same(c, d) == c.seq = d.seq /\ c.epoch = d.epoch
CallbacksInv(fate) ==
  /\ \A k \in DOMAIN queue : \E i \in DOMAIN trades : CallbackOf(queue[k], fate, i)
  /\ \A k \in DOMAIN records : \E i \in DOMAIN trades : CallbackOf(records[k], fate, i)
  /\ \A k, l \in DOMAIN queue : Same(queue[k], queue[l]) => k = l
  /\ \A k, l \in DOMAIN records : Same(records[k], records[l]) => k = l
  /\ \A k \in DOMAIN queue, l \in DOMAIN records : ~Same(queue[k], records[l])

Explains(fate) ==
  /\ fate \in Seq(Fates) /\ Len(fate) = Len(trades)
  /\ HeardInv(fate) /\ LoggedInv(fate) /\ CallbacksInv(fate)
FeedInv == FeedTypes /\ \E fate \in Seq(Fates) : Explains(fate)

LEMMA FeedTypesInit == FeedInit => FeedInv
<1> SUFFICES ASSUME FeedInit PROVE FeedInv
  OBVIOUS
<1>1. FeedTypes
  BY DEF FeedInit, FeedTypes
<1>2. <<>> \in Seq(Fates) /\ Len(<<>>) = Len(trades) /\ DOMAIN trades = {} /\ DOMAIN queue = {} /\ DOMAIN records = {}
  BY EmptySeq DEF FeedInit
<1>3. LoggedInv(<<>>)
  BY <1>2 DEF LoggedInv, SubscribedInv, HeartbeatsInv, WatermarksInv
<1>4. HeardInv(<<>>) /\ CallbacksInv(<<>>)
  BY <1>2 DEF HeardInv, CallbacksInv
<1> QED
  BY <1>1, <1>2, <1>3, <1>4 DEF FeedInv, Explains

\* A row that is logged says what the log may say.
LEMMA LogKeeps ==
  ASSUME FeedTypes, NEW fate, LoggedInv(fate), HeardInv(fate), NEW new,
         transport' = transport \cup {new}, trades' = trades, lost' = lost, scope' = scope, heard' = heard,
         up' => up,
         new.epoch = Current, new.at = instant,
         new.kind = "SUBSCRIPTION_ACKNOWLEDGED" => up /\ ~Acknowledged(Current) /\ instant \notin ToSet(trades),
         new.kind = "HEARTBEAT" => Subscribed,
         new.kind = "CALLBACK_WATERMARK" => new.high = heard
  PROVE LoggedInv(fate)'
<1>1. /\ instant \in Nat /\ Current' = Current
      /\ \A i \in DOMAIN trades : trades[i] \in Nat /\ trades[i] <= instant
      /\ \A r \in transport : r.at \in Nat /\ r.at <= instant
  <2>1. instant \in Nat /\ Current' = Current
    BY DEF FeedTypes, Current
  <2>2. \A i \in DOMAIN trades : trades[i] \in Nat /\ trades[i] <= instant
    BY LenProperties DEF FeedTypes
  <2>3. \A r \in transport : r.at \in Nat /\ r.at <= instant
    BY <2>1 DEF FeedTypes
  <2> QED
    BY <2>1, <2>2, <2>3
<1>2. Subscribed' => Subscribed \/ (new.kind = "SUBSCRIPTION_ACKNOWLEDGED" /\ ~Acknowledged(Current))
  BY <1>1 DEF Subscribed, Acknowledged, Stamps, Rows
<1>3. ASSUME ~Acknowledged(Current), NEW r \in transport, r.epoch = Current
      PROVE r.kind # "SUBSCRIPTION_ACKNOWLEDGED"
  BY <1>3 DEF Acknowledged, Stamps, Rows
<1>4. ASSUME new.kind = "SUBSCRIPTION_ACKNOWLEDGED", NEW i \in DOMAIN trades PROVE ~(new.at <= trades[i])
  BY <1>1, <1>4 DEF ToSet
<1>5. SubscribedInv(fate)'
  <2> SUFFICES ASSUME Subscribed', NEW r \in transport', NEW i \in DOMAIN trades,
                      r.epoch = Current, r.kind = "SUBSCRIPTION_ACKNOWLEDGED", r.at <= trades[i]
               PROVE Numbered(fate, i) /\ fate[i].epoch = Current
    BY <1>1 DEF SubscribedInv, Numbered
  <2>1. r \in transport
    BY <1>4
  <2>2. Subscribed
    BY <1>2, <1>3, <2>1
  <2> QED
    BY <2>1, <2>2 DEF LoggedInv, SubscribedInv
<1>6. HeartbeatsInv(fate)'
  <2> SUFFICES ASSUME NEW r \in transport', NEW h \in transport', NEW i \in DOMAIN trades,
                      r.kind = "SUBSCRIPTION_ACKNOWLEDGED", h.kind = "HEARTBEAT", h.epoch = r.epoch,
                      r.at <= trades[i], trades[i] < h.at
               PROVE Numbered(fate, i) /\ fate[i].epoch = r.epoch
    BY DEF HeartbeatsInv, Numbered
  <2>1. r \in transport
    BY <1>4
  <2>2. CASE h \in transport
    BY <2>1, <2>2 DEF LoggedInv, HeartbeatsInv
  <2>3. CASE h = new
    BY <2>1, <2>3 DEF LoggedInv, SubscribedInv
  <2> QED
    BY <2>2, <2>3
<1>7. WatermarksInv(fate)'
  <2> SUFFICES ASSUME NEW w \in transport', NEW i \in DOMAIN trades,
                      w.kind = "CALLBACK_WATERMARK", trades[i] < w.at, Numbered(fate, i), fate[i].epoch = w.epoch
               PROVE fate[i].seq <= w.high
    BY DEF WatermarksInv, Numbered
  <2>1. CASE w \in transport
    BY <2>1 DEF LoggedInv, WatermarksInv
  <2>2. CASE w = new
    BY <2>2 DEF HeardInv
  <2> QED
    BY <2>1, <2>2
<1> QED
  BY <1>5, <1>6, <1>7 DEF LoggedInv

\* Callbacks are of the trades that were made.
LEMMA CallbacksStay ==
  ASSUME NEW fate, CallbacksInv(fate), UNCHANGED <<trades, queue, records>>
  PROVE CallbacksInv(fate)'
BY DEF CallbacksInv, CallbackOf, Same

LEMMA HeardStays ==
  ASSUME NEW fate, HeardInv(fate), UNCHANGED <<trades, scope, heard, lost>>
  PROVE HeardInv(fate)'
BY DEF HeardInv, Numbered, Current

\* Each row is dated now, and of the connection there is.
LEMMA RowIs ==
  ASSUME FeedTypes, NEW e, NEW kind
  PROVE /\ Row(e, kind).epoch = e /\ Row(e, kind).kind = kind /\ Row(e, kind).at = instant /\ Row(e, kind).high \in Nat
        /\ kind \in Watermarks => Row(e, kind).high = heard
BY DEF Row, FeedTypes

\* The steps that log a row and nothing else.
LEMMA LoggingInv ==
  ASSUME FeedInv, Acknowledge \/ Heartbeat \/ Watermark \/ Notice \/ Close
  PROVE FeedInv'
<1>1. PICK fate \in Seq(Fates) : Explains(fate)
  BY DEF FeedInv
<1>2. FeedTypes /\ Current \in Nat
  BY LenProperties DEF FeedInv, FeedTypes, Current
<1>3. PICK kind \in {"SUBSCRIPTION_ACKNOWLEDGED", "HEARTBEAT", "CALLBACK_WATERMARK", "DISCONNECTED", "SESSION_CLOSED"} :
        /\ transport' = transport \cup {Row(Current, kind)}
        /\ UNCHANGED <<instant, trades, scope, heard, lost, queue, records>> /\ (up' => up)
        /\ kind = "SUBSCRIPTION_ACKNOWLEDGED" => up /\ ~Acknowledged(Current) /\ instant \notin ToSet(trades)
        /\ kind = "HEARTBEAT" => Subscribed
        /\ Current > 0
  <2>1. Subscribed => up
    BY DEF Subscribed
  <2>2. up => Current > 0
    BY <1>2 DEF FeedTypes
  <2> HIDE DEF Subscribed
  <2> QED
    BY <2>1, <2>2 DEF Acknowledge, Heartbeat, Watermark, Notice, Close, Stamp, Log
<1> DEFINE new == Row(Current, kind)
<1>4. /\ new.epoch = Current /\ new.kind = kind /\ new.at = instant /\ new.high \in Nat
      /\ kind = "CALLBACK_WATERMARK" => new.high = heard
  BY <1>2, RowIs DEF Watermarks
<1> HIDE DEF new
<1>5. transport' = transport \cup {new}
  BY <1>3 DEF new
<1>6. FeedTypes'
  BY <1>2, <1>3, <1>4, <1>5, SMTT(60) DEF FeedTypes, Current
<1>7. LoggedInv(fate)'
  BY <1>1, <1>2, <1>3, <1>4, <1>5, LogKeeps DEF Explains
<1>8. HeardInv(fate)' /\ CallbacksInv(fate)'
  BY <1>1, <1>3, HeardStays, CallbacksStay DEF Explains
<1> QED
  BY <1>1, <1>3, <1>6, <1>7, <1>8 DEF FeedInv, Explains

\* A new connection has logged nothing but that it is there.
LEMMA ConnectInv ==
  ASSUME FeedInv, Connect
  PROVE FeedInv'
<1>1. PICK fate \in Seq(Fates) : Explains(fate)
  BY DEF FeedInv
<1>2. FeedTypes /\ Current \in Nat
  BY LenProperties DEF FeedInv, FeedTypes, Current
<1> DEFINE new == Row(Current + 1, "CONNECTED")
<1>3. /\ up' = TRUE /\ lost' = Append(lost, 0) /\ transport' = transport \cup {new}
      /\ heard' = (IF scope = "SESSION" THEN heard ELSE 0)
      /\ UNCHANGED <<instant, trades, scope, queue, records>>
  BY DEF Connect
<1>4. new.epoch = Current + 1 /\ new.kind = "CONNECTED" /\ new.at = instant /\ new.high \in Nat
  BY <1>2, RowIs
<1>5. lost' \in Seq(Nat) /\ Current' = Current + 1
  BY <1>2, <1>3, AppendProperties DEF FeedTypes, Current
<1> HIDE DEF new
<1>6. FeedTypes'
  BY <1>2, <1>3, <1>4, <1>5, SMTT(60) DEF FeedTypes
<1>7. ~Subscribed'
  <2>1. \A r \in transport' : r.epoch = Current' => r.kind = "CONNECTED"
    BY <1>2, <1>3, <1>4, <1>5 DEF FeedTypes
  <2> QED
    BY <2>1 DEF Subscribed, Acknowledged, Stamps, Rows
<1>8. LoggedInv(fate)'
  <2>1. SubscribedInv(fate)'
    BY <1>7 DEF SubscribedInv
  <2>2. HeartbeatsInv(fate)' /\ WatermarksInv(fate)'
    BY <1>1, <1>3, <1>4, SMTT(60) DEF Explains, LoggedInv, HeartbeatsInv, WatermarksInv, Numbered
  <2> QED
    BY <2>1, <2>2 DEF LoggedInv
<1>9. HeardInv(fate)'
  <2>1. HeardInv(fate) /\ DOMAIN trades' = DOMAIN trades
    BY <1>1, <1>3 DEF Explains
  <2> QED
    BY <1>2, <1>3, <1>5, <2>1 DEF HeardInv, Numbered
<1>10. CallbacksInv(fate)'
  BY <1>1, <1>3, CallbacksStay DEF Explains
<1> QED
  BY <1>1, <1>3, <1>6, <1>8, <1>9, <1>10 DEF FeedInv, Explains

\* Time that passes, and a connection that is lost.
LEMMA PassInv ==
  ASSUME FeedInv, Pass \/ Drop
  PROVE FeedInv'
<1>1. PICK fate \in Seq(Fates) : Explains(fate)
  BY DEF FeedInv
<1>2. FeedTypes
  BY DEF FeedInv
<1>3. /\ UNCHANGED <<trades, scope, heard, lost, queue, records, transport>> /\ (up' => up)
      /\ instant' \in Nat /\ instant' >= instant
  BY <1>2 DEF Pass, Drop, FeedTypes
<1>4. FeedTypes'
  <2>1. Current' = Current \/ Current' = 0
    BY <1>3 DEF Current
  <2>2. (up' => Current' > 0) /\ \A r \in transport' : r.epoch \in 1 .. Current'
    BY <1>2, <1>3 DEF FeedTypes, Current
  <2>3. \A i \in DOMAIN trades' : trades'[i] <= instant'
    BY <1>2, <1>3 DEF FeedTypes
  <2>4. \A r \in transport' : r.at \in 0 .. instant' /\ r.high \in Nat
    BY <1>2, <1>3 DEF FeedTypes
  <2> QED
    BY <1>2, <1>3, <2>2, <2>3, <2>4 DEF FeedTypes
<1>5. Subscribed' => Subscribed
  BY <1>3 DEF Subscribed, Acknowledged, Stamps, Rows, Current
<1>6. LoggedInv(fate)'
  BY <1>1, <1>3, <1>5 DEF Explains, LoggedInv, SubscribedInv, HeartbeatsInv, WatermarksInv, Numbered, Current
<1>7. HeardInv(fate)' /\ CallbacksInv(fate)'
  BY <1>1, <1>3, HeardStays, CallbacksStay, Zenon DEF Explains
<1> QED
  BY <1>1, <1>3, <1>4, <1>6, <1>7 DEF FeedInv, Explains

\* What the rest of a queue is made of.
LEMMA RestOf ==
  ASSUME NEW S, NEW q \in Seq(S), NEW i \in DOMAIN q
  PROVE /\ RemoveAt(q, i) \in Seq(S)
        /\ \A k \in DOMAIN RemoveAt(q, i) : LET old == IF k < i THEN k ELSE k + 1
                                            IN old \in DOMAIN q /\ old # i /\ RemoveAt(q, i)[k] = q[old]
<1>1. Len(q) \in Nat /\ DOMAIN q = 1 .. Len(q) /\ i \in 1 .. Len(q)
  BY LenProperties
<1> DEFINE left == SubSeq(q, 1, i - 1)
           right == SubSeq(q, i + 1, Len(q))
<1>2. left \in Seq(S) /\ Len(left) = i - 1 /\ \A k \in 1 .. i - 1 : left[k] = q[k]
  BY <1>1, SubSeqProperties
<1>3. right \in Seq(S) /\ Len(right) = Len(q) - i /\ \A k \in 1 .. Len(q) - i : right[k] = q[i + k]
  BY <1>1, SubSeqProperties, SMTT(60)
<1>4. RemoveAt(q, i) = left \o right
  BY DEF RemoveAt
<1> HIDE DEF left, right
<1>5. /\ left \o right \in Seq(S) /\ Len(left \o right) = Len(q) - 1
      /\ \A k \in 1 .. Len(q) - 1 : (left \o right)[k] = IF k <= i - 1 THEN left[k] ELSE right[k - (i - 1)]
  <2>1. /\ left \o right \in Seq(S) /\ Len(left \o right) = Len(left) + Len(right)
        /\ \A k \in 1 .. Len(left) + Len(right) :
             (left \o right)[k] = IF k <= Len(left) THEN left[k] ELSE right[k - Len(left)]
    BY ONLY <1>2, <1>3, ConcatProperties
  <2>2. Len(left) = i - 1 /\ Len(left) + Len(right) = Len(q) - 1
    BY <1>1, <1>2, <1>3
  <2> QED
    BY <2>1, <2>2
<1>6. DOMAIN (left \o right) = 1 .. Len(q) - 1
  BY <1>5, LenProperties
<1>7. ASSUME NEW k \in 1 .. Len(q) - 1
      PROVE LET old == IF k < i THEN k ELSE k + 1
            IN old \in 1 .. Len(q) /\ old # i /\ (left \o right)[k] = q[old]
  <2>1. CASE k < i
    BY <1>1, <1>2, <1>5, <2>1
  <2>2. CASE ~(k < i)
    <3>1. k - (i - 1) \in 1 .. Len(q) - i /\ i + (k - (i - 1)) = k + 1 /\ ~(k <= i - 1)
      BY <1>1, <2>2
    <3>2. right[k - (i - 1)] = q[k + 1]
      BY <1>3, <3>1
    <3> QED
      BY <1>1, <1>5, <2>2, <3>1, <3>2, SMTT(60)
  <2> QED
    BY <2>1, <2>2
<1> QED
  BY <1>1, <1>4, <1>5, <1>6, <1>7

\* A callback that leaves the queue is stored, or lost.
LEMMA LeaveInv ==
  ASSUME FeedInv, Store \/ Spill
  PROVE FeedInv'
<1>1. PICK fate \in Seq(Fates) : Explains(fate)
  BY DEF FeedInv
<1>2. FeedTypes
  BY DEF FeedInv
<1>3. PICK i \in DOMAIN queue :
        /\ queue' = RemoveAt(queue, i)
        /\ \/ records' = records
           \/ records' = Append(records, [at |-> queue[i].at, epoch |-> queue[i].epoch,
                                          seq |-> queue[i].seq, known |-> instant])
        /\ UNCHANGED <<instant, trades, scope, up, heard, lost, transport>>
  BY DEF Store, Spill
<1> DEFINE S == [at : Nat, epoch : Nat, seq : Nat]
           R == [at : Nat, epoch : Nat, seq : Nat, known : Nat]
           Old(k) == IF k < i THEN k ELSE k + 1
           new == [at |-> queue[i].at, epoch |-> queue[i].epoch, seq |-> queue[i].seq, known |-> instant]
<1>4. /\ queue' \in Seq(S)
      /\ \A k \in DOMAIN queue' : Old(k) \in DOMAIN queue /\ Old(k) # i /\ queue'[k] = queue[Old(k)]
  <2>1. queue \in Seq(S)
    BY <1>2 DEF FeedTypes
  <2> HIDE DEF S
  <2> QED
    BY <1>3, <2>1, RestOf
<1>5. \A k, l \in DOMAIN queue' : Old(k) = Old(l) => k = l
  <2>1. \A k \in DOMAIN queue' : k \in Nat
    BY <1>4, LenProperties
  <2>2. i \in Nat
    BY <1>2, LenProperties, SMTT(60) DEF FeedTypes
  <2> QED
    BY <2>1, <2>2
<1>6. new \in R /\ new.seq = queue[i].seq /\ new.epoch = queue[i].epoch /\ new.at = queue[i].at
  <2>1. queue[i] \in S
    BY <1>2, LenProperties, ZenonT(60) DEF FeedTypes
  <2> QED
    BY <1>2, <2>1 DEF FeedTypes
<1>7. /\ records' \in Seq(R)
      /\ \A k \in DOMAIN records' :
           \/ k \in DOMAIN records /\ records'[k] = records[k]
           \/ k = Len(records) + 1 /\ records'[k] = new
  <2>1. records \in Seq(R) /\ DOMAIN records = 1 .. Len(records) /\ Len(records) \in Nat
    BY <1>2, LenProperties DEF FeedTypes
  <2>2. CASE records' = records
    BY <2>1, <2>2
  <2>3. CASE records' = Append(records, new)
    <3> HIDE DEF new
    <3>1. /\ Append(records, new) \in Seq(R) /\ Len(Append(records, new)) = Len(records) + 1
          /\ \A k \in 1 .. Len(records) : Append(records, new)[k] = records[k]
          /\ Append(records, new)[Len(records) + 1] = new
      BY <1>6, <2>1, AppendProperties
    <3>2. DOMAIN records' = 1 .. Len(records) + 1
      BY <2>3, <3>1, LenProperties
    <3> QED
      BY <2>1, <2>3, <3>1, <3>2, SMTT(60)
  <2> QED
    BY <1>3, <2>2, <2>3
<1>8. FeedTypes'
  BY <1>2, <1>3, <1>4, <1>7 DEF FeedTypes, Current
<1>9. LoggedInv(fate)' /\ HeardInv(fate)'
  <2>1. Subscribed' = Subscribed
    BY <1>3 DEF Subscribed, Acknowledged, Stamps, Rows, Current
  <2> QED
    BY <1>1, <1>3, <2>1, HeardStays DEF Explains, LoggedInv, SubscribedInv, HeartbeatsInv, WatermarksInv, Numbered, Current
<1> HIDE DEF Old, new
<1>10. CallbacksInv(fate)'
  <2>1. CallbacksInv(fate) /\ DOMAIN trades' = DOMAIN trades /\ trades' = trades
    BY <1>1, <1>3 DEF Explains
  <2>2. \A k \in DOMAIN queue' : \E t \in DOMAIN trades : CallbackOf(queue'[k], fate, t)
    BY <1>4, <2>1 DEF CallbacksInv
  <2>3. \A k \in DOMAIN records' : \E t \in DOMAIN trades : CallbackOf(records'[k], fate, t)
    <3>1. \E t \in DOMAIN trades : CallbackOf(new, fate, t)
      BY <1>3, <1>6, <2>1 DEF CallbacksInv, CallbackOf
    <3> QED
      BY <1>7, <2>1, <3>1 DEF CallbacksInv
  <2>4. \A k, l \in DOMAIN queue' : Same(queue'[k], queue'[l]) => k = l
    BY <1>4, <1>5, <2>1 DEF CallbacksInv
  <2>5. \A l \in DOMAIN records : ~Same(new, records[l]) /\ ~Same(records[l], new)
    BY <1>3, <1>6, <2>1 DEF CallbacksInv, Same
  <2>6. \A k, l \in DOMAIN records' : Same(records'[k], records'[l]) => k = l
    BY <1>7, <2>1, <2>5 DEF CallbacksInv
  <2>7. \A k \in DOMAIN queue', l \in DOMAIN records' : ~Same(queue'[k], records'[l])
    <3>1. \A k \in DOMAIN queue' : ~Same(queue'[k], new)
      BY <1>3, <1>4, <1>6, <2>1 DEF CallbacksInv, Same
    <3> QED
      BY <1>4, <1>7, <2>1, <3>1, ZenonT(60) DEF CallbacksInv
  <2>8. \A c, t : CallbackOf(c, fate, t)' = CallbackOf(c, fate, t)
    BY <2>1 DEF CallbackOf
  <2> QED
    BY <2>1, <2>2, <2>3, <2>4, <2>6, <2>7 DEF CallbacksInv, CallbackOf, Same
<1> QED
  BY <1>1, <1>3, <1>8, <1>9, <1>10 DEF FeedInv, Explains

\* A trade is heard by whoever is subscribed, under the next number.
LEMMA TradeInv ==
  ASSUME FeedInv, Trade
  PROVE FeedInv'
<1>1. PICK fate \in Seq(Fates) : Explains(fate)
  BY DEF FeedInv
<1> DEFINE n == Len(trades)
<1>2. FeedTypes /\ Current \in Nat /\ n \in Nat /\ DOMAIN trades = 1 .. n
  BY LenProperties DEF FeedInv, FeedTypes, Current
<1>3. Subscribed => Current > 0
  BY <1>2 DEF Subscribed, FeedTypes
<1> DEFINE S == [at : Nat, epoch : Nat, seq : Nat]
           own == [epoch |-> Current, seq |-> IF Subscribed THEN heard + 1 ELSE 0]
           new == [at |-> instant, epoch |-> Current, seq |-> heard + 1]
<1>4. /\ trades' = Append(trades, instant)
      /\ heard' = (IF Subscribed THEN heard + 1 ELSE heard)
      /\ queue' = queue \/ (Subscribed /\ queue' = Append(queue, new))
      /\ lost' = lost \/ (Current > 0 /\ lost' = [lost EXCEPT ![Current] = @ + 1])
      /\ UNCHANGED <<instant, scope, up, records, transport>>
  BY <1>3 DEF Trade, Callback
<1>5. own \in Fates /\ own.epoch = Current /\ own.seq = (IF Subscribed THEN heard + 1 ELSE 0)
  BY <1>2 DEF Fates, FeedTypes
<1> HIDE DEF own
<1> PICK later : later = Append(fate, own)
  OBVIOUS
<1>6. /\ later \in Seq(Fates) /\ Len(later) = n + 1 /\ later[n + 1] = own
      /\ \A i \in 1 .. n : later[i] = fate[i]
  BY <1>1, <1>5, AppendProperties DEF Explains
<1>7. /\ trades' \in Seq(Nat) /\ DOMAIN trades' = 1 .. n + 1 /\ Len(trades') = n + 1
      /\ trades'[n + 1] = instant /\ \A i \in 1 .. n : trades'[i] = trades[i]
  <2>1. instant \in Nat /\ trades \in Seq(Nat)
    BY <1>2 DEF FeedTypes
  <2>2. /\ trades' \in Seq(Nat) /\ Len(trades') = n + 1 /\ trades'[n + 1] = instant
        /\ \A i \in 1 .. n : trades'[i] = trades[i]
    BY <1>4, <2>1, AppendProperties
  <2> QED
    BY <2>2, LenProperties
<1>8. lost' \in Seq(Nat) /\ Current' = Current
  <2>1. CASE lost' = lost
    BY <1>2, <2>1 DEF FeedTypes, Current
  <2>2. CASE Current > 0 /\ lost' = [lost EXCEPT ![Current] = @ + 1]
    <3>1. lost \in Seq(Nat) /\ Current \in 1 .. Len(lost)
      BY <1>2, <2>2 DEF FeedTypes, Current
    <3>2. lost[Current] + 1 \in Nat
      BY <3>1, ElementOfSeq
    <3> QED
      BY <2>2, <3>1, <3>2, ExceptSeq DEF Current
  <2> QED
    BY <1>4, <2>1, <2>2
<1>9. Subscribed' = Subscribed
  BY <1>4, <1>8 DEF Subscribed, Acknowledged, Stamps, Rows
<1>10. /\ queue' \in Seq(S)
       /\ \A k \in DOMAIN queue' :
            \/ k \in DOMAIN queue /\ queue'[k] = queue[k]
            \/ k = Len(queue) + 1 /\ queue'[k] = new /\ Subscribed
       /\ \A k \in DOMAIN queue : k # Len(queue) + 1
  <2>1. queue \in Seq(S) /\ DOMAIN queue = 1 .. Len(queue) /\ Len(queue) \in Nat
    BY <1>2, LenProperties DEF FeedTypes
  <2>2. CASE queue' = queue
    BY <2>1, <2>2
  <2>3. CASE Subscribed /\ queue' = Append(queue, new)
    <3>1. new \in S
      BY <1>2 DEF FeedTypes
    <3> HIDE DEF new, S
    <3>2. /\ Append(queue, new) \in Seq(S) /\ Len(Append(queue, new)) = Len(queue) + 1
          /\ \A k \in 1 .. Len(queue) : Append(queue, new)[k] = queue[k]
          /\ Append(queue, new)[Len(queue) + 1] = new
      BY <2>1, <3>1, AppendProperties
    <3>3. DOMAIN queue' = 1 .. Len(queue) + 1
      BY <2>3, <3>2, LenProperties
    <3> QED
      BY <2>1, <2>3, <3>2, <3>3
  <2> QED
    BY <1>4, <2>2, <2>3
<1>11. FeedTypes'
  <2>1. heard' \in Nat /\ instant' = instant /\ transport' = transport /\ (up' => up)
    BY <1>2, <1>4 DEF FeedTypes
  <2>2. \A i \in DOMAIN trades' : trades'[i] <= instant
    <3>1. instant \in Nat /\ \A i \in 1 .. n : trades[i] <= instant
      BY <1>2 DEF FeedTypes
    <3> HIDE DEF n
    <3> QED
      BY <1>2, <1>7, <3>1
  <2>3. heard' <= Len(trades')
    <3>1. heard \in Nat /\ heard <= n
      BY <1>2 DEF FeedTypes
    <3> QED
      BY <1>2, <1>4, <1>7, <3>1
  <2> QED
    BY <1>2, <1>4, <1>7, <1>8, <1>10, <2>1, <2>2, <2>3 DEF FeedTypes
<1> HIDE DEF new, S
<1> HIDE DEF n
<1>12. \A i \in DOMAIN trades' :
          \/ i \in DOMAIN trades /\ later[i] = fate[i] /\ trades'[i] = trades[i]
          \/ i = n + 1 /\ later[i] = own /\ trades'[i] = instant
  BY <1>2, <1>6, <1>7
<1>13. \A i \in DOMAIN trades : i \in DOMAIN trades' /\ later[i] = fate[i] /\ trades'[i] = trades[i] /\ i # n + 1
  BY <1>2, <1>6, <1>7
<1>14. HeardInv(later)'
  <2>1. HeardInv(fate) /\ scope' = scope /\ heard \in Nat
    BY <1>1, <1>2, <1>4 DEF Explains, FeedTypes
  <2>2. \A i \in DOMAIN trades' : later[i].seq > 0 =>
          /\ later[i].epoch \in 1 .. Current
          /\ scope = "SESSION" \/ later[i].epoch = Current => later[i].seq <= heard'
    <3> SUFFICES ASSUME NEW i \in DOMAIN trades', later[i].seq > 0
                 PROVE /\ later[i].epoch \in 1 .. Current
                       /\ scope = "SESSION" \/ later[i].epoch = Current => later[i].seq <= heard'
      OBVIOUS
    <3>1. CASE i \in DOMAIN trades /\ later[i] = fate[i]
      <4>1. fate \in Seq(Fates) /\ i \in 1 .. Len(fate)
        BY <1>1, <1>2, <3>1 DEF Explains, n
      <4>2. fate[i].seq \in Nat
        <5>1. fate[i] \in Fates
          BY ONLY <4>1, ElementOfSeq
        <5> QED
          BY ONLY <5>1 DEF Fates
      <4> QED
        BY <1>4, <2>1, <3>1, <4>2 DEF HeardInv, Numbered
    <3>2. CASE later[i] = own
      BY <1>2, <1>3, <1>4, <1>5, <2>1, <3>2
    <3> QED
      BY <1>12, <3>1, <3>2
  <2>3. \A i \in DOMAIN trades : own.seq > 0 /\ own.seq = fate[i].seq => scope # "SESSION" /\ own.epoch # fate[i].epoch
    <3> SUFFICES ASSUME NEW i \in DOMAIN trades, own.seq > 0, own.seq = fate[i].seq
                 PROVE scope # "SESSION" /\ own.epoch # fate[i].epoch
      OBVIOUS
    <3>1. fate[i].seq = heard + 1 /\ own.epoch = Current
      BY <1>5
    <3> QED
      BY <2>1, <3>1 DEF HeardInv, Numbered
  <2>4. \A i, j \in DOMAIN trades' : i # j /\ later[i].seq > 0 /\ later[i].seq = later[j].seq =>
          scope # "SESSION" /\ later[i].epoch # later[j].epoch
    <3> SUFFICES ASSUME NEW i \in DOMAIN trades', NEW j \in DOMAIN trades', i # j, later[i].seq > 0, later[i].seq = later[j].seq
                 PROVE scope # "SESSION" /\ later[i].epoch # later[j].epoch
      OBVIOUS
    <3>1. CASE i \in DOMAIN trades /\ later[i] = fate[i] /\ j \in DOMAIN trades /\ later[j] = fate[j]
      BY <2>1, <3>1 DEF HeardInv, Numbered
    <3>2. CASE i \in DOMAIN trades /\ later[i] = fate[i] /\ later[j] = own
      BY <2>3, <3>2
    <3>3. CASE j \in DOMAIN trades /\ later[j] = fate[j] /\ later[i] = own
      BY <2>3, <3>3
    <3>4. ~(i = n + 1 /\ j = n + 1)
      OBVIOUS
    <3> QED
      BY <1>12, <3>1, <3>2, <3>3, <3>4, Zenon
  <2> QED
    <3>1. \A i \in DOMAIN trades' : later[i].seq <= n + 1
      <4>1. heard <= n /\ \A i \in DOMAIN trades : fate[i].seq <= n
        BY <1>2, <2>1 DEF HeardInv, FeedTypes, n
      <4>2. \A i \in DOMAIN trades : fate[i].seq \in Nat
        <5>1. fate \in Seq(Fates) /\ \A i \in DOMAIN trades : i \in 1 .. Len(fate)
          BY <1>1, <1>2 DEF Explains, n
        <5>2. \A i \in DOMAIN trades : fate[i] \in Fates
          BY <5>1, ElementOfSeq
        <5> QED
          BY <5>2 DEF Fates
      <4>3. own.seq <= n + 1
        BY <1>2, <1>5, <2>1, <4>1
      <4>4. \A i \in DOMAIN trades' : later[i] = own \/ \E j \in DOMAIN trades : later[i] = fate[j]
        BY <1>12
      <4>5. \A i \in DOMAIN trades : fate[i].seq <= n + 1
        BY <1>2, <4>1, <4>2
      <4> QED
        BY <4>3, <4>4, <4>5
    <3>2. Len(trades') = n + 1
      BY <1>7
    <3> QED
      BY <1>8, <2>1, <2>2, <2>4, <3>1, <3>2 DEF HeardInv, Numbered
<1>15. LoggedInv(later)'
  <2>1. LoggedInv(fate) /\ transport' = transport /\ \A r \in transport : r.at \in Nat /\ r.at <= instant
    BY <1>1, <1>2, <1>4 DEF Explains, FeedTypes
  <2>2. instant \in Nat
    BY <1>2 DEF FeedTypes
  <2>3. SubscribedInv(later)'
    <3> SUFFICES ASSUME Subscribed, NEW r \in transport, NEW i \in DOMAIN trades', r.epoch = Current,
                        r.kind = "SUBSCRIPTION_ACKNOWLEDGED", r.at <= trades'[i]
                 PROVE later[i].seq > 0 /\ later[i].epoch = Current
      BY <1>8, <1>9, <2>1 DEF SubscribedInv, Numbered
    <3>1. CASE i \in DOMAIN trades /\ later[i] = fate[i] /\ trades'[i] = trades[i]
      BY <2>1, <3>1 DEF LoggedInv, SubscribedInv, Numbered
    <3>2. CASE later[i] = own
      BY <1>2, <1>5, <3>2 DEF FeedTypes
    <3> QED
      BY <1>12, <3>1, <3>2
  <2>4. HeartbeatsInv(later)'
    <3> SUFFICES ASSUME NEW r \in transport, NEW h \in transport, NEW i \in DOMAIN trades',
                        r.kind = "SUBSCRIPTION_ACKNOWLEDGED", h.kind = "HEARTBEAT", h.epoch = r.epoch,
                        r.at <= trades'[i], trades'[i] < h.at
                 PROVE later[i].seq > 0 /\ later[i].epoch = r.epoch
      <4>1. HeartbeatsInv(later)' <=>
              \A r, h \in transport, i \in DOMAIN trades' :
                /\ r.kind = "SUBSCRIPTION_ACKNOWLEDGED" /\ h.kind = "HEARTBEAT" /\ h.epoch = r.epoch
                /\ r.at <= trades'[i] /\ trades'[i] < h.at
                => later[i].seq > 0 /\ later[i].epoch = r.epoch
        BY <2>1 DEF HeartbeatsInv, Numbered
      <4> QED
        BY <4>1
    <3>0. trades'[i] # instant
      BY <2>1, <2>2
    <3>1. i \in DOMAIN trades /\ later[i] = fate[i] /\ trades'[i] = trades[i]
      BY <1>12, <3>0, Zenon
    <3> QED
      BY <2>1, <3>1 DEF LoggedInv, HeartbeatsInv, Numbered
  <2>5. WatermarksInv(later)'
    <3> SUFFICES ASSUME NEW w \in transport, NEW i \in DOMAIN trades', w.kind = "CALLBACK_WATERMARK", trades'[i] < w.at,
                        later[i].seq > 0, later[i].epoch = w.epoch
                 PROVE later[i].seq <= w.high
      BY <2>1 DEF WatermarksInv, Numbered
    <3>0. trades'[i] # instant
      BY <2>1, <2>2
    <3>1. i \in DOMAIN trades /\ later[i] = fate[i] /\ trades'[i] = trades[i]
      BY <1>12, <3>0, Zenon
    <3> QED
      BY <2>1, <3>1 DEF LoggedInv, WatermarksInv, Numbered
  <2> QED
    BY <2>3, <2>4, <2>5 DEF LoggedInv
<1>16. CallbacksInv(later)'
  <2>1. CallbacksInv(fate) /\ records' = records
    BY <1>1, <1>4 DEF Explains
  <2> DEFINE Then(c, i) == c.seq > 0 /\ later[i].seq = c.seq /\ later[i].epoch = c.epoch /\ trades'[i] = c.at
  <2>2. \A c : (\E i \in DOMAIN trades : CallbackOf(c, fate, i)) => \E i \in DOMAIN trades' : Then(c, i)
    BY <1>13 DEF CallbackOf
  <2>3. \A k \in DOMAIN queue' : \E i \in DOMAIN trades' : Then(queue'[k], i)
    <3> SUFFICES ASSUME NEW k \in DOMAIN queue' PROVE \E i \in DOMAIN trades' : Then(queue'[k], i)
      OBVIOUS
    <3>1. CASE k \in DOMAIN queue /\ queue'[k] = queue[k]
      BY <2>1, <2>2, <3>1 DEF CallbacksInv
    <3>2. CASE queue'[k] = new /\ Subscribed
      <4>1. new.seq = own.seq /\ new.seq > 0 /\ new.epoch = own.epoch /\ new.at = instant
        BY <1>2, <1>5, <3>2 DEF new, FeedTypes
      <4> QED
        BY <1>6, <1>7, <3>2, <4>1, <1>2
    <3> QED
      BY <1>10, <3>1, <3>2
  <2>4. \A k \in DOMAIN records : \E i \in DOMAIN trades' : Then(records[k], i)
    BY <2>1, <2>2 DEF CallbacksInv
  <2>5. ASSUME Subscribed, NEW c, NEW i \in DOMAIN trades, CallbackOf(c, fate, i)
        PROVE ~Same(c, new) /\ ~Same(new, c)
    <3>1. HeardInv(fate) /\ heard \in Nat
      BY <1>1, <1>2 DEF Explains, FeedTypes
    <3>2. new.seq = heard + 1 /\ new.epoch = Current
      BY DEF new
    <3>3. ~(c.seq = heard + 1 /\ c.epoch = Current)
      BY <2>5, <3>1 DEF HeardInv, CallbackOf, Numbered
    <3> QED
      BY <3>2, <3>3 DEF Same
  <2>6. \A k, l \in DOMAIN queue' : Same(queue'[k], queue'[l]) => k = l
    <3>1. \A k \in DOMAIN queue : Subscribed => ~Same(queue[k], new) /\ ~Same(new, queue[k])
      BY <2>1, <2>5 DEF CallbacksInv
    <3> QED
      BY <1>10, <2>1, <3>1 DEF CallbacksInv
  <2>7. \A k \in DOMAIN queue', l \in DOMAIN records : ~Same(queue'[k], records[l])
    <3>1. \A l \in DOMAIN records : Subscribed => ~Same(records[l], new) /\ ~Same(new, records[l])
      BY <2>1, <2>5 DEF CallbacksInv
    <3> QED
      BY <1>10, <2>1, <3>1 DEF CallbacksInv
  <2> QED
    BY <2>1, <2>3, <2>4, <2>6, <2>7, ZenonT(60) DEF CallbacksInv, CallbackOf, Same
<1> QED
  BY <1>6, <1>7, <1>11, <1>14, <1>15, <1>16 DEF FeedInv, Explains

\* The invariant of the collector and the market, whatever the constants.
THEOREM FeedInvariant == FeedSpec => []FeedInv
<1>1. FeedInv /\ [FeedNext]_feedVars => FeedInv'
  <2> SUFFICES ASSUME FeedInv, [FeedNext]_feedVars PROVE FeedInv'
    OBVIOUS
  <2>1. CASE UNCHANGED feedVars
    <3>1. PICK fate \in Seq(Fates) : Explains(fate)
      BY DEF FeedInv
    <3>2. /\ UNCHANGED <<instant, trades, scope, up, heard, lost, queue, records, transport>>
      BY <2>1 DEF feedVars
    <3>3. FeedTypes' /\ Subscribed' = Subscribed
      BY <3>2 DEF FeedInv, FeedTypes, Subscribed, Acknowledged, Stamps, Rows, Current
    <3>4. LoggedInv(fate)'
      BY <3>1, <3>2, <3>3 DEF Explains, LoggedInv, SubscribedInv, HeartbeatsInv, WatermarksInv, Numbered, Current
    <3> QED
      BY <3>1, <3>2, <3>3, <3>4, HeardStays, CallbacksStay DEF FeedInv, Explains
  <2> QED
    BY <2>1, LoggingInv, ConnectInv, PassInv, LeaveInv, TradeInv DEF FeedNext
<1> QED
  BY <1>1, FeedTypesInit, PTL DEF FeedSpec


\* The greatest of 0 and some numbers up to n is one of them, unless there are none.
LEMMA Greatest ==
  ASSUME NEW n \in Nat, NEW S \in SUBSET (1 .. n), NEW q \in Nat \ {0}, Max({0} \cup S) >= q
  PROVE \E x \in S : x >= q
<1>1. CASE S = {}
  <2>1. Max({0}) = 0
    BY DEF Max
  <2> QED
    BY <1>1, <2>1
<1>2. CASE S # {}
  <2>1. Max(S) \in S /\ \A k \in S : k <= Max(S)
    BY <1>2, MaxOf
  <2>2. \E x \in {0} \cup S : \A y \in {0} \cup S : x >= y
    <3>1. PICK m \in S : \A k \in S : k <= m
      BY <2>1
    <3>2. m \in Nat /\ \A k \in S : k \in Nat
      OBVIOUS
    <3> QED
      BY <3>1, <3>2
  <2>3. Max({0} \cup S) \in {0} \cup S
    BY <2>2 DEF Max
  <2>4. Max({0} \cup S) # 0
    OBVIOUS
  <2>5. Max({0} \cup S) \in S
    BY <2>3, <2>4
  <2> QED
    BY <2>5
<1> QED
  BY <1>1, <1>2

\* Where no finding says otherwise, the numbers stored in a scope begin with 1 and leave none out.
LEMMA NoneLeftOut ==
  ASSUME FeedTypes, NEW fate, CallbacksInv(fate), NEW declared, NEW from, NEW to, ~Found(declared, from, to),
         NEW m \in declared, m.start < to, from < m.through,
         NEW k \in DOMAIN records, InScope(records[k], m), NEW q \in Nat \ {0}, records[k].seq >= q
  PROVE \E l \in DOMAIN records : InScope(records[l], m) /\ records[l].seq = q
<1> DEFINE n == Len(records)
           within == {l \in DOMAIN records : InScope(records[l], m)}
<1>1. n \in Nat /\ DOMAIN records = 1 .. n /\ \A l \in DOMAIN records : records[l].seq \in Nat \ {0}
  <2>1. records \in Seq([at : Nat, epoch : Nat, seq : Nat, known : Nat])
    BY DEF FeedTypes
  <2>2. \A l \in DOMAIN records : records[l] \in [at : Nat, epoch : Nat, seq : Nat, known : Nat]
    BY <2>1, LenProperties, ZenonT(60)
  <2>3. n \in Nat /\ DOMAIN records = 1 .. n
    BY <2>1, LenProperties
  <2> QED
    BY <2>2, <2>3 DEF CallbacksInv, CallbackOf
<1>2. \A l, j \in within : InScope(records[l], records[j]) /\ InScope(m, records[l])
  BY DEF InScope
<1>3. \A l \in within : records[l].seq = Expected(l)
  BY <1>2 DEF Found
<1>4. \A j \in DOMAIN records, l \in within : InScope(records[j], records[l]) => j \in within
  BY DEF InScope
<1> SUFFICES ASSUME \A l \in within : records[l].seq # q PROVE FALSE
  OBVIOUS
<1> DEFINE above == {l \in within : records[l].seq >= q}
<1>5. PICK l \in above : \A j \in above : l <= j
  <2>1. above \in SUBSET Nat /\ k \in above
    BY <1>1
  <2> QED
    BY <2>1, LeastOf
<1> DEFINE before == {records[j].seq : j \in {i \in 1 .. (l - 1) : InScope(records[i], records[l])}}
<1>6. \A i \in 1 .. (l - 1) : InScope(records[i], records[l]) => records[i].seq \in 1 .. (q - 1)
  <2> SUFFICES ASSUME NEW i \in 1 .. (l - 1), InScope(records[i], records[l]) PROVE records[i].seq \in 1 .. (q - 1)
    OBVIOUS
  <2>1. i \in DOMAIN records /\ i < l /\ l \in Nat /\ i \in Nat
    BY <1>1, <1>5
  <2>2. i \in within
    BY <1>4, <1>5, <2>1
  <2>3. i \notin above
    BY <1>5, <2>1
  <2>4. ~(records[i].seq >= q) /\ records[i].seq \in Nat \ {0}
    BY <1>1, <2>1, <2>2, <2>3
  <2> QED
    BY <2>4
<1>7. before \in SUBSET (1 .. (q - 1)) /\ q - 1 \in Nat
  BY <1>6
<1>8. records[l].seq = (IF before = {} THEN 1 ELSE Max(before) + 1)
  BY <1>3, <1>5 DEF Expected
<1>9. records[l].seq \in Nat /\ records[l].seq > q
  BY <1>1, <1>5
<1> HIDE DEF before
<1>10. CASE before = {}
  BY <1>8, <1>9, <1>10
<1>11. CASE before # {}
  <2>1. Max(before) \in 1 .. (q - 1)
    BY <1>7, <1>11, MaxOf
  <2> QED
    BY <1>8, <1>9, <1>11, <2>1
<1> QED
  BY <1>10, <1>11

\* What a manifest of an epoch says.
LEMMA ManifestIs ==
  ASSUME FeedTypes, NEW declared \in ManifestSets, NEW m \in declared
  PROVE m.start \in Nat /\ m.through \in Int
<1> DEFINE since(e) == Min(Stamps(e, "SUBSCRIPTION_ACKNOWLEDGED"))
<1>1. PICK t \in [Epochs -> 0 .. instant] : declared = {Manifest(e, t[e]) : e \in Epochs}
  BY DEF ManifestSets
<1>2. PICK e \in Epochs : m = Manifest(e, t[e])
  BY <1>1
<1>3. t[e] \in 0 .. instant
  BY <1>1
<1>4. Min(Stamps(e, "SUBSCRIPTION_ACKNOWLEDGED")) \in Nat
  <2> DEFINE stamps == Stamps(e, "SUBSCRIPTION_ACKNOWLEDGED")
  <2>1. stamps # {}
    BY <1>2 DEF Epochs, Acknowledged
  <2>2. stamps \in SUBSET Nat
    BY DEF Stamps, Rows, FeedTypes
  <2> HIDE DEF stamps
  <2>3. \E x \in stamps : \A y \in stamps : x =< y
    BY <2>1, <2>2, LeastOf
  <2>4. Min(stamps) \in stamps
    BY <2>3 DEF Min
  <2> QED
    BY <2>2, <2>4 DEF stamps
<1> QED
  BY <1>2, <1>3, <1>4 DEF Manifest, FeedTypes

LEMMA BothBounds ==
  ASSUME NEW a \in Int, NEW b \in Int, NEW c \in Int, NEW d \in Int, NEW t \in Int,
         a <= t, b <= t, t < c, t < d
  PROVE Max({a, b}) <= t /\ t < Min({c, d})
<1>1. \E x \in {a, b} : \A y \in {a, b} : x >= y
  OBVIOUS
<1>2. \E x \in {c, d} : \A y \in {c, d} : x =< y
  OBVIOUS
<1>3. Max({a, b}) \in {a, b}
  BY <1>1 DEF Max
<1>4. Min({c, d}) \in {c, d}
  BY <1>2 DEF Min
<1> QED
  BY <1>3, <1>4

\* A trade in a proven interval was heard by the epoch that covers it, and its callback is stored.
LEMMA TradeIsStored ==
  ASSUME FeedTypes, NEW fate \in Seq(Fates), Explains(fate), NEW declared \in ManifestSets,
         NEW from \in Nat, NEW to \in Nat, ProvesInterval(declared, from, to),
         NEW i \in DOMAIN trades, from <= trades[i], trades[i] < to
  PROVE \E l \in DOMAIN records : \A j \in DOMAIN trades : CallbackOf(records[l], fate, j) => j = i
<1> DEFINE t == trades[i]
<1>1. t \in Nat /\ HeardInv(fate) /\ LoggedInv(fate) /\ CallbacksInv(fate)
  BY LenProperties DEF FeedTypes, Explains
<1>2. PICK m \in declared : t \in m.start .. (m.through - 1)
  <2>1. t \in from .. (to - 1)
    BY <1>1
  <2> QED
    BY <2>1 DEF ProvesInterval, Joined
<1>3. m.start \in Nat /\ m.through \in Int
  BY ManifestIs
<1>4. m.start <= t /\ t < m.through /\ m.start < to /\ from < m.through
  BY <1>1, <1>2, <1>3
<1> DEFINE lo == Max({from, m.start})
           hi == Min({to, m.through})
<1>5. lo <= t /\ t < hi /\ Proven(m, lo, hi) /\ ~Found(declared, from, to)
  <2>1. lo <= t /\ t < hi
    <3>1. t \in Int /\ from \in Int /\ to \in Int /\ m.start \in Int /\ m.through \in Int
          /\ from <= t /\ m.start <= t /\ t < to /\ t < m.through
      BY <1>1, <1>3, <1>4
    <3> HIDE DEF t
    <3> QED
      BY <3>1, BothBounds
  <2> QED
    BY <1>4, <2>1 DEF ProvesInterval
<1> HIDE DEF t, lo, hi
<1> DEFINE e == m.epoch
<1>6. lo \in Nat /\ hi \in Int
  <2>1. \E x \in {from, m.start} : \A y \in {from, m.start} : x >= y
    BY <1>3
  <2>2. \E x \in {to, m.through} : \A y \in {to, m.through} : x =< y
    BY <1>3
  <2>3. lo \in {from, m.start}
    BY <2>1 DEF Max, lo
  <2>4. hi \in {to, m.through}
    BY <2>2 DEF Min, hi
  <2> QED
    BY <1>3, <2>3, <2>4
<1>7. PICK ack \in transport : ack.epoch = e /\ ack.kind = "SUBSCRIPTION_ACKNOWLEDGED" /\ ack.at <= lo
  BY <1>5 DEF Proven, Stamps, Rows
<1>8. PICK beat \in transport : beat.epoch = e /\ beat.kind = "HEARTBEAT" /\ beat.at >= hi
  BY <1>5 DEF Proven, Periodic, Stamps, Rows
<1>9. PICK mark \in transport : mark.epoch = e /\ mark.kind = "CALLBACK_WATERMARK" /\ mark.at >= hi
  BY <1>5 DEF Proven, Periodic, Stamps, Rows
<1>10. ack.at \in Nat /\ beat.at \in Nat /\ mark.at \in Nat /\ mark.high \in Nat
  <2>1. \A r \in transport : r.at \in 0 .. instant /\ r.high \in Nat
    BY DEF FeedTypes
  <2>2. instant \in Nat
    BY DEF FeedTypes
  <2> QED
    BY <2>1, <2>2
<1>11. ack.at <= trades[i] /\ trades[i] < beat.at /\ trades[i] < mark.at
  BY <1>1, <1>5, <1>6, <1>7, <1>8, <1>9, <1>10 DEF t
<1>12. Numbered(fate, i) /\ fate[i].epoch = e
  BY <1>1, <1>7, <1>8, <1>11 DEF LoggedInv, HeartbeatsInv
<1>13. fate[i].seq <= mark.high
  BY <1>1, <1>9, <1>11, <1>12 DEF LoggedInv, WatermarksInv
<1>14. mark.high = StoredHigh(e, mark.at)
  <2>1. Bound(e)
    BY <1>5 DEF Proven
  <2> QED
    BY <1>9, <2>1 DEF Bound, Rows, Watermarks
<1>15. fate[i].seq \in Nat \ {0}
  <2>1. i \in 1 .. Len(fate)
    <3>1. DOMAIN trades = 1 .. Len(trades)
      BY LenProperties DEF FeedTypes
    <3> QED
      BY <3>1 DEF Explains
  <2>2. fate[i] \in Fates
    BY <2>1, ElementOfSeq
  <2> QED
    BY <1>12, <2>2 DEF Fates, Numbered
<1> DEFINE stored == {r \in ToSet(records) : r.known <= mark.at /\ InScope(r, [epoch |-> e])}
           numbers == {r.seq : r \in stored}
<1>16. PICK k \in DOMAIN records : InScope(records[k], m) /\ records[k].seq >= fate[i].seq
  <2>1. numbers \in SUBSET (1 .. Len(trades)) /\ Len(trades) \in Nat
    <3>1. Len(trades) \in Nat
      BY LenProperties DEF FeedTypes
    <3>2. \A k \in DOMAIN records : records[k].seq \in 1 .. Len(trades)
      <4> SUFFICES ASSUME NEW k \in DOMAIN records PROVE records[k].seq \in 1 .. Len(trades)
        OBVIOUS
      <4>1. records[k].seq \in Nat
        <5>1. records \in Seq([at : Nat, epoch : Nat, seq : Nat, known : Nat])
          BY DEF FeedTypes
        <5>2. records[k] \in [at : Nat, epoch : Nat, seq : Nat, known : Nat]
          BY <5>1, LenProperties, ZenonT(60)
        <5> QED
          BY <5>2
      <4>2. PICK j \in DOMAIN trades : CallbackOf(records[k], fate, j)
        BY <1>1 DEF CallbacksInv
      <4>3. records[k].seq > 0 /\ records[k].seq <= Len(trades)
        BY <1>1, <4>2 DEF CallbackOf, HeardInv
      <4> QED
        BY <3>1, <4>1, <4>3
    <3> QED
      BY <3>1, <3>2 DEF ToSet
  <2>2. Max({0} \cup numbers) >= fate[i].seq
    <3>1. mark.high = Max({0} \cup numbers)
      BY <1>14 DEF StoredHigh
    <3> QED
      BY <1>10, <1>13, <1>15, <3>1
  <2> HIDE DEF numbers
  <2>3. PICK x \in numbers : x >= fate[i].seq
    BY <1>15, <2>1, <2>2, Greatest
  <2> QED
    BY <2>3 DEF numbers, ToSet, InScope
<1>17. PICK l \in DOMAIN records : InScope(records[l], m) /\ records[l].seq = fate[i].seq
  BY <1>1, <1>4, <1>5, <1>15, <1>16, NoneLeftOut
<1>18. ASSUME NEW j \in DOMAIN trades, CallbackOf(records[l], fate, j) PROVE j = i
  BY <1>1, <1>12, <1>17, <1>18 DEF HeardInv, CallbackOf, InScope
<1> QED
  BY <1>18

\* A claimed interval holds every trade of it, whatever the constants: each record is of a trade, no two of the
\* same, and every trade of the interval has one.
THEOREM CoverageIsTrueHolds == FeedSpec => []CoverageIsTrue
<1>1. FeedInv => CoverageIsTrue
  <2> SUFFICES ASSUME FeedInv, NEW declared \in ManifestSets, NEW from \in 0 .. instant, NEW to \in (from + 1) .. instant,
                      CoversInterval(declared, from, to), NEW t \in from .. (to - 1)
               PROVE Cardinality({i \in DOMAIN trades : trades[i] = t}) = Cardinality({i \in DOMAIN records : records[i].at = t})
    BY DEF CoverageIsTrue
  <2>1. FeedTypes /\ from \in Nat /\ to \in Nat /\ t \in Nat /\ from <= t /\ t < to
    BY DEF FeedInv, FeedTypes
  <2>2. PICK fate \in Seq(Fates) : Explains(fate)
    BY DEF FeedInv
  <2> DEFINE made == {i \in DOMAIN trades : trades[i] = t}
             kept == {k \in DOMAIN records : records[k].at = t}
             owner == [k \in kept |-> CHOOSE i \in DOMAIN trades : CallbackOf(records[k], fate, i)]
  <2>3. \A k \in kept : owner[k] \in made /\ CallbackOf(records[k], fate, owner[k])
    BY <2>2 DEF Explains, CallbacksInv, CallbackOf
  <2>4. owner \in [kept -> made]
    BY <2>3
  <2>5. \A k, l \in kept : owner[k] = owner[l] => k = l
    <3> SUFFICES ASSUME NEW k \in kept, NEW l \in kept, owner[k] = owner[l] PROVE k = l
      OBVIOUS
    <3>1. CallbackOf(records[k], fate, owner[k]) /\ CallbackOf(records[l], fate, owner[l]) /\ owner[k] = owner[l]
      BY <2>3
    <3> HIDE DEF owner
    <3>2. Same(records[k], records[l])
      BY ONLY <3>1 DEF CallbackOf, Same
    <3> QED
      BY <2>2, <3>2 DEF Explains, CallbacksInv
  <2>6. \A i \in made : \E k \in kept : owner[k] = i
    <3> SUFFICES ASSUME NEW i \in made PROVE \E k \in kept : owner[k] = i
      OBVIOUS
    <3>1. PICK l \in DOMAIN records : \A j \in DOMAIN trades : CallbackOf(records[l], fate, j) => j = i
      BY <2>1, <2>2, TradeIsStored DEF CoversInterval
    <3>2. CallbackOf(records[l], fate, i)
      BY <2>2, <3>1 DEF Explains, CallbacksInv
    <3>3. l \in kept
      BY <3>2 DEF CallbackOf
    <3> QED
      BY <2>3, <3>1, <3>3
  <2>7. IsFiniteSet(made)
    <3>1. Len(trades) \in Nat /\ DOMAIN trades = 1 .. Len(trades)
      BY <2>1, LenProperties DEF FeedTypes
    <3>2. IsFiniteSet(1 .. Len(trades))
      BY <3>1, FS_Interval
    <3> QED
      BY <3>1, <3>2, FS_Subset
  <2> HIDE DEF owner, made, kept
  <2>8. owner \in Injection(kept, made) /\ owner \in Surjection(kept, made)
    BY <2>4, <2>5, <2>6 DEF Injection, Surjection, IsInjective
  <2>9. Cardinality(kept) = Cardinality(made)
    BY <2>7, <2>8, FS_Injection
  <2> QED
    BY <2>9 DEF kept, made
<1> QED
  BY <1>1, FeedInvariant, PTL

-----------------------------------------------------------------------------
(* PathResolution.                                                         *)

\* Min of some numbers is the least of them.
LEMMA LeastIs ==
  ASSUME NEW S \in SUBSET Nat, S # {}
  PROVE  Min(S) \in S /\ \A k \in S : Min(S) <= k
BY LeastOf DEF Min

-----------------------------------------------------------------------------
(* The calendar.                                                           *)

\* The segments of an open day follow each other.
LEMMA DayIs ==
  ASSUME NEW d \in OpenDays
  PROVE  /\ d \in Nat \ {0} /\ Len(Calendar[d]) \in Nat \ {0}
         /\ DOMAIN Calendar[d] = 1..Len(Calendar[d])
         /\ \A i \in 1..Len(Calendar[d]) :
              /\ Calendar[d][i].from \in Nat /\ Calendar[d][i].to \in Nat
              /\ Calendar[d][i].from < Calendar[d][i].to
              /\ i > 1 => Calendar[d][i - 1].to = Calendar[d][i].from
<1>1. Calendar[d] \in Seq(Segments) /\ Calendar[d] # <<>> /\ d \in Nat \ {0}
  BY CalendarAssumption DEF OpenDays, Days
<1>2. Len(Calendar[d]) \in Nat \ {0} /\ DOMAIN Calendar[d] = 1..Len(Calendar[d])
  BY <1>1, EmptySeq
<1>3. \A i \in 1..Len(Calendar[d]) : Calendar[d][i] \in Segments
  BY <1>1, ElementOfSeq
<1>4. d \in Days
  BY DEF OpenDays
<1> QED
  BY <1>1, <1>2, <1>3, <1>4, CalendarAssumption DEF Segments

\* Of intervals that follow each other none begins before the first or ends after the last.
LEMMA Following ==
  ASSUME NEW n \in Nat \ {0}, NEW day,
         \A i \in 1..n : /\ day[i].from \in Nat /\ day[i].to \in Nat /\ day[i].from < day[i].to
                         /\ i > 1 => day[i - 1].to = day[i].from,
         NEW j \in 1..n
  PROVE  day[1].from <= day[j].from /\ day[j].to <= day[n].to
<1>1. day[1].from <= day[j].from
  <2> DEFINE early == {i \in 1..n : day[i].from < day[1].from}
  <2>1. SUFFICES ASSUME early # {} PROVE FALSE
    OBVIOUS
  <2>2. early \in SUBSET Nat
    OBVIOUS
  <2>3. PICK m \in early : \A k \in early : m <= k
    BY <2>1, <2>2, LeastOf
  <2>4. m \in 1..n /\ m # 1 /\ day[m].from < day[1].from
    BY <2>3
  <2>5. m - 1 \in 1..n /\ m - 1 \notin early
    BY <2>3, <2>4
  <2> QED
    BY <2>4, <2>5
<1>2. day[j].to <= day[n].to
  <2> DEFINE late == {k \in 0..(n - 1) : day[n - k].to > day[n].to}
  <2>1. SUFFICES ASSUME late # {} PROVE FALSE
    <3>1. n - j \in 0..(n - 1) /\ n - (n - j) = j /\ n \in 1..n
      OBVIOUS
    <3>2. n - j \notin late
      BY <2>1
    <3>3. ~(day[j].to > day[n].to)
      BY <3>1, <3>2
    <3> QED
      BY <3>1, <3>3
  <2>2. late \in SUBSET Nat
    OBVIOUS
  <2>3. PICK m \in late : \A k \in late : m <= k
    BY <2>1, <2>2, LeastOf
  <2>4. m \in 0..(n - 1) /\ m # 0 /\ day[n - m].to > day[n].to
    BY <2>3
  <2>5. m - 1 \in 0..(n - 1) /\ m - 1 \notin late
    BY <2>3, <2>4, SMTT(60)
  <2> DEFINE r == n - m
  <2>6. r \in 1..n /\ r + 1 \in 1..n /\ n - (m - 1) = r + 1 /\ (r + 1) - 1 = r /\ r + 1 > 1
    BY <2>4
  <2>7. day[r + 1].to <= day[n].to
    BY <2>5, <2>6
  <2>8. day[r].to > day[n].to
    BY <2>4
  <2>9. day[r].to = day[r + 1].from /\ day[r + 1].from < day[r + 1].to
    <3> HIDE DEF r
    <3>1. day[(r + 1) - 1].to = day[r + 1].from
      BY <2>6
    <3> QED
      BY <2>6, <3>1
  <2> HIDE DEF r
  <2> QED
    BY <2>6, <2>7, <2>8, <2>9
<1> QED
  BY <1>1, <1>2

\* A segment of a day lies between its open and its close.
LEMMA SegmentsWithin ==
  ASSUME NEW d \in OpenDays, NEW s \in ToSet(Calendar[d])
  PROVE  /\ s.from \in Nat /\ s.to \in Nat /\ s.from < s.to
         /\ Opens(d) <= s.from /\ s.to <= Closes(d)
<1>1. PICK j \in 1..Len(Calendar[d]) : s = Calendar[d][j]
  BY DayIs DEF ToSet
<1>2. Opens(d) = Calendar[d][1].from /\ Closes(d) = Calendar[d][Len(Calendar[d])].to
  BY DEF Opens, Closes, Last
<1>3. Calendar[d][1].from <= Calendar[d][j].from /\ Calendar[d][j].to <= Calendar[d][Len(Calendar[d])].to
  <2> DEFINE n == Len(Calendar[d])
             day == Calendar[d]
  <2>1. n \in Nat \ {0}
    BY DayIs
  <2>2. \A i \in 1..n : /\ day[i].from \in Nat /\ day[i].to \in Nat /\ day[i].from < day[i].to
                        /\ i > 1 => day[i - 1].to = day[i].from
    BY DayIs
  <2>3. j \in 1..n
    OBVIOUS
  <2> HIDE DEF n, day
  <2>4. day[1].from <= day[j].from /\ day[j].to <= day[n].to
    BY <2>1, <2>2, <2>3, Following
  <2> QED
    BY <2>4 DEF n, day
<1> QED
  BY <1>1, <1>2, <1>3, DayIs

\* An open day opens before it closes.
LEMMA DayBounds ==
  ASSUME NEW d \in OpenDays
  PROVE  d \in Nat \ {0} /\ Opens(d) \in Nat /\ Closes(d) \in Nat /\ Opens(d) < Closes(d)
<1>1. 1 \in 1..Len(Calendar[d]) /\ Len(Calendar[d]) \in 1..Len(Calendar[d]) /\ d \in Nat \ {0}
  BY DayIs
<1>2. Calendar[d][1] \in ToSet(Calendar[d])
  BY <1>1, DayIs DEF ToSet
<1>3. Closes(d) = Calendar[d][Len(Calendar[d])].to
  BY DEF Closes, Last
<1>4. Opens(d) \in Nat /\ Closes(d) \in Nat
  BY <1>1, <1>3, DayIs DEF Opens
<1>5. Calendar[d][1].to \in Nat /\ Opens(d) < Calendar[d][1].to /\ Calendar[d][1].to <= Closes(d)
  BY <1>1, <1>2, SegmentsWithin, DayIs DEF Opens
<1> QED
  BY <1>1, <1>4, <1>5

\* The horizon is the first open day after the entry's.
LEMMA HorizonIs ==
  /\ HorizonDay \in OpenDays /\ HorizonDay \in Nat /\ HorizonDay > 1
  /\ \A d \in OpenDays : d > 1 => HorizonDay <= d
<1> DEFINE later == {d \in OpenDays : d > EntryDay}
<1>1. later \in SUBSET Nat /\ later # {}
  BY CalendarAssumption, DayBounds
<1>2. Min(later) \in later /\ \A k \in later : Min(later) <= k
  BY <1>1, LeastIs
<1> QED
  BY <1>1, <1>2 DEF HorizonDay, EntryDay

\* Open days are disjoint, and in the order of their times.
LEMMA InOrder ==
  ASSUME NEW d \in OpenDays, NEW e \in OpenDays, d < e
  PROVE  Closes(d) <= Opens(e)
BY CalendarAssumption

\* An instant lies in one open day.
LEMMA OneDay ==
  ASSUME NEW d \in OpenDays, NEW e \in OpenDays, NEW t \in Nat,
         Opens(d) <= t, t < Closes(d), Opens(e) <= t, t < Closes(e)
  PROVE  d = e
<1>1. d \in Nat /\ e \in Nat /\ Opens(d) \in Nat /\ Closes(d) \in Nat /\ Opens(e) \in Nat /\ Closes(e) \in Nat
  BY DayBounds
<1>2. ~(d < e)
  BY <1>1, InOrder
<1>3. ~(e < d)
  BY <1>1, InOrder
<1> QED
  BY <1>1, <1>2, <1>3
-----------------------------------------------------------------------------
(* The market, and what is known of it.                                    *)

Deals == [at : Nat, price : AtStop..AtTarget, stored : BOOLEAN]
\* Trades are made in sessions, and in the order of their times.
MarketInv ==
  /\ time \in Nat /\ filledAt \in Nat /\ market \in Seq(Deals)
  /\ \A i \in DOMAIN market : market[i].at <= time /\ InSession(market[i].at)
  /\ \A i, j \in DOMAIN market : i <= j => market[i].at <= market[j].at

\* A price that is not inside is at a barrier.
LEMMA DealIs ==
  ASSUME MarketInv, NEW i \in DOMAIN market
  PROVE  /\ i \in Nat \ {0} /\ market[i].at \in Nat /\ market[i].price \in 1..3
         /\ market[i].price # Inside => market[i].price \in {1, 3}
<1>1. market[i] \in Deals /\ i \in Nat \ {0}
  BY ElementOfSeq DEF MarketInv
<1> QED
  BY <1>1 DEF Deals, AtStop, AtTarget, Inside

\* A prefix knows some days: the open ones by their evidence, the others as closed.
KnownDays(days, f) == {ClosedDay(d) : d \in days \ OpenDays} \cup {f[d] : d \in days \cap OpenDays}
Prefix(days, f) ==
  /\ days \subseteq 1..HorizonDay
  /\ \A d \in days \cap OpenDays : f[d].day = d /\ f[d] \in SessionEvidence(d)

\* A known day has one fact: its evidence, or that the market was closed.
LEMMA OfIs ==
  ASSUME NEW days, NEW f, Prefix(days, f)
  PROVE  /\ \A d : Knows(KnownDays(days, f), d) <=> d \in days
         /\ \A d \in days \cap OpenDays : Of(KnownDays(days, f), d) = f[d]
         /\ \A d \in days \ OpenDays : Of(KnownDays(days, f), d) = ClosedDay(d)
<1> DEFINE known == KnownDays(days, f)
<1>1. \A e \in known : \/ e.day \in days \ OpenDays /\ e = ClosedDay(e.day)
                       \/ e.day \in days \cap OpenDays /\ e = f[e.day]
  BY DEF KnownDays, Prefix, ClosedDay, Evidence
<1>2. \A d \in days \cap OpenDays : f[d] \in known /\ f[d].day = d
  BY DEF KnownDays, Prefix
<1>3. \A d \in days \ OpenDays : ClosedDay(d) \in known /\ ClosedDay(d).day = d
  BY DEF KnownDays, ClosedDay, Evidence
<1> HIDE DEF known
<1>4. \A d : Knows(known, d) <=> d \in days
  BY <1>1, <1>2, <1>3 DEF Knows
<1>5. \A d \in days \cap OpenDays : Of(known, d) = f[d]
  BY <1>1, <1>2 DEF Of
<1>6. \A d \in days \ OpenDays : Of(known, d) = ClosedDay(d)
  BY <1>1, <1>3 DEF Of
<1> QED
  BY <1>4, <1>5, <1>6 DEF known

\* What evidence of a session says of the market.
LEMMA EvidenceIs ==
  ASSUME MarketInv, NEW d \in OpenDays, NEW e \in SessionEvidence(d)
  PROVE  /\ e.through \in Nat /\ e.through <= Closes(d) /\ e.through <= time
         /\ Complete(e) => Covered(Opens(d), e.through)
         /\ e.coverage = "COMPLETE_SESSION" => e.through = Closes(d)
<1>1. PICK t \in Opens(d)..Min({Closes(d), time}) : \E s \in Statuses : \E c \in CoverageStates(d, t) :
        e = Evidence(d, s, t, c)
  BY DEF SessionEvidence
<1>2. PICK s \in Statuses, c \in CoverageStates(d, t) : e = Evidence(d, s, t, c)
  BY <1>1
<1>3. Closes(d) \in Nat /\ Opens(d) \in Nat /\ time \in Nat
  BY DayBounds DEF MarketInv
<1>4. Min({Closes(d), time}) <= Closes(d) /\ Min({Closes(d), time}) <= time /\ Min({Closes(d), time}) \in Nat
  BY <1>3, LeastIs
<1>5. t \in Nat /\ t <= Closes(d) /\ t <= time
  BY <1>3, <1>4
<1>6. e.through = t /\ e.coverage = c
  BY <1>2 DEF Evidence
<1>7. c \in {"COMPLETE_PREFIX", "COMPLETE_SESSION"} => Covered(Opens(d), t)
  BY DEF CoverageStates
<1>8. c = "COMPLETE_SESSION" => t = Closes(d)
  BY DEF CoverageStates
<1> QED
  BY <1>5, <1>6, <1>7, <1>8 DEF Complete

-----------------------------------------------------------------------------
(* Points.                                                                 *)

\* A point is a tick of one stored trade, or a bar of all the stored trades of its interval.
Tick(p) == p.to = p.from /\ \E i \in Kept : p.members = {i} /\ market[i].at = p.from
Bar(p) == p.from < p.to /\ p.members = {i \in Kept : Within(i, p.from, p.to)}
PointIs(p) ==
  /\ p.day \in OpenDays /\ p.from \in Nat /\ p.to \in Nat
  /\ Opens(p.day) <= p.from
  /\ p.members # {} /\ p.members \subseteq Kept
  /\ Tick(p) \/ Bar(p)
  /\ \A i \in p.members : market[i].at < Closes(p.day)
  /\ HitsTargetAt(p) <=> \E i \in p.members : market[i].price = AtTarget
  /\ HitsStopAt(p) <=> \E i \in p.members : market[i].price = AtStop

\* The greatest of some prices.
LEMMA MostIs ==
  ASSUME NEW S \in SUBSET (1..3), S # {}
  PROVE  Max(S) \in S /\ \A k \in S : k <= Max(S)
<1>1. \E m \in S : \A k \in S : m >= k
  <2>1. CASE 3 \in S
    BY <2>1
  <2>2. CASE 3 \notin S /\ 2 \in S
    BY <2>2
  <2>3. CASE 3 \notin S /\ 2 \notin S
    <3>1. \A k \in S : k = 1
      BY <2>3
    <3>2. 1 \in S
      BY <3>1
    <3> QED
      BY <3>1, <3>2
  <2> QED
    BY <2>1, <2>2, <2>3
<1>2. Max(S) \in S /\ \A k \in S : Max(S) >= k
  BY <1>1 DEF Max
<1> QED
  BY <1>2

\* A point is at a barrier if one of its trades is.
LEMMA ObservationHits ==
  ASSUME MarketInv, NEW members \in SUBSET Kept, members # {}, NEW d, NEW from, NEW to,
         NEW p, p = Observation(d, from, to, members)
  PROVE  /\ HitsTargetAt(p) <=> \E i \in members : market[i].price = AtTarget
         /\ HitsStopAt(p) <=> \E i \in members : market[i].price = AtStop
<1> DEFINE S == {market[i].price : i \in members}
<1>1. S \in SUBSET (1..3) /\ S # {}
  BY DealIs DEF Kept
<1>2. S \in SUBSET Nat
  BY <1>1
<1>3. p.high = Max(S) /\ p.low = Min(S)
  BY DEF Observation
<1>4. (3 \in S <=> \E i \in members : market[i].price = 3) /\ (1 \in S <=> \E i \in members : market[i].price = 1)
  OBVIOUS
<1> HIDE DEF S
<1>5. Max(S) \in S /\ \A k \in S : k <= Max(S)
  BY <1>1, MostIs
<1>6. Min(S) \in S /\ \A k \in S : Min(S) <= k
  BY <1>1, <1>2, LeastIs
<1>7. /\ Max(S) >= 3 => 3 \in S
      /\ 3 \in S => Max(S) >= 3
  <2>1. Max(S) \in 1..3
    BY <1>1, <1>5
  <2>2. Max(S) >= 3 => Max(S) = 3
    BY <2>1
  <2>3. 3 \in S => 3 <= Max(S)
    BY <1>5
  <2> QED
    BY <1>5, <2>1, <2>2, <2>3
<1>8. /\ Min(S) <= 1 => 1 \in S
      /\ 1 \in S => Min(S) <= 1
  <2>1. Min(S) \in 1..3
    BY <1>1, <1>6
  <2>2. Min(S) <= 1 => Min(S) = 1
    BY <2>1
  <2> QED
    BY <1>6, <2>1, <2>2
<1> QED
  BY <1>3, <1>4, <1>7, <1>8 DEF HitsTargetAt, HitsStopAt, AtTarget, AtStop

\* What can be projected from a prefix are ticks and bars of its days.
LEMMA ProjectedIsPoint ==
  ASSUME MarketInv, NEW days, NEW f, Prefix(days, f), NEW p \in Projectable(KnownDays(days, f))
  PROVE  PointIs(p)
<1>1. PICK e \in KnownDays(days, f) : e.day \in OpenDays /\ p \in Ticks(e) \cup Bars(e)
  BY DEF Projectable
<1>2. e.day \in days \cap OpenDays /\ e = f[e.day]
  BY <1>1 DEF KnownDays, Prefix, ClosedDay, Evidence
<1> DEFINE d == e.day
<1>3. d \in OpenDays /\ e \in SessionEvidence(d)
  BY <1>2 DEF Prefix
<1>4. Opens(d) \in Nat /\ Closes(d) \in Nat
  BY <1>3, DayBounds
<1>5. e.through \in Nat /\ e.through <= Closes(d)
  BY <1>3, EvidenceIs
<1> HIDE DEF d
<1>6. CASE p \in Ticks(e)
  <2>1. PICK i \in Kept : /\ PermitsPriceInterval(d, market[i].at, market[i].at)
                          /\ p = Observation(d, market[i].at, market[i].at, {i})
    BY <1>6 DEF Ticks, d
  <2>2. market[i].at \in Nat
    BY DealIs DEF Kept
  <2>3. PICK s \in ToSet(Calendar[d]) : s.from <= market[i].at /\ market[i].at < s.to
    BY <2>1 DEF PermitsPriceInterval
  <2>4. s.from \in Nat /\ s.to \in Nat /\ Opens(d) <= s.from /\ s.to <= Closes(d)
    BY <1>3, SegmentsWithin
  <2>5. Opens(d) <= market[i].at /\ market[i].at < Closes(d)
    BY <2>2, <2>3, <2>4, <1>4
  <2>6. p.day = d /\ p.from = market[i].at /\ p.to = market[i].at /\ p.members = {i}
    BY <2>1 DEF Observation
  <2>7. {i} \in SUBSET Kept /\ {i} # {}
    OBVIOUS
  <2>8. /\ HitsTargetAt(p) <=> \E k \in {i} : market[k].price = AtTarget
        /\ HitsStopAt(p) <=> \E k \in {i} : market[k].price = AtStop
    BY <2>1, <2>7, ObservationHits
  <2> QED
    BY <1>3, <2>2, <2>5, <2>6, <2>7, <2>8 DEF PointIs, Tick
<1>7. CASE p \in Bars(e)
  <2>1. PICK c \in (Opens(d)..e.through) \X (Opens(d)..e.through) :
          /\ c[1] < c[2] /\ {i \in Kept : Within(i, c[1], c[2])} # {}
          /\ p = Observation(d, c[1], c[2], {i \in Kept : Within(i, c[1], c[2])})
    BY <1>7 DEF Bars, d
  <2> DEFINE members == {i \in Kept : Within(i, c[1], c[2])}
  <2>2. /\ c[1] \in Nat /\ c[2] \in Nat /\ c[1] < c[2] /\ Opens(d) <= c[1] /\ c[2] <= Closes(d)
    BY <2>1, <1>4, <1>5
  <2>3. p.day = d /\ p.from = c[1] /\ p.to = c[2] /\ p.members = members
    BY <2>1 DEF Observation
  <2>4. members \in SUBSET Kept /\ members # {}
    BY <2>1
  <2>5. \A i \in members : market[i].at < Closes(d)
    <3> TAKE i \in members
    <3>1. market[i].at \in Nat
      BY DealIs DEF Kept
    <3> QED
      BY <3>1, <2>2, <1>4 DEF Within
  <2>6. /\ HitsTargetAt(p) <=> \E k \in members : market[k].price = AtTarget
        /\ HitsStopAt(p) <=> \E k \in members : market[k].price = AtStop
    BY <2>1, <2>4, ObservationHits
  <2>7. Bar(p)
    BY <2>2, <2>3 DEF Bar
  <2> HIDE DEF members
  <2> QED
    BY <1>3, <2>2, <2>3, <2>4, <2>5, <2>6, <2>7 DEF PointIs
<1> QED
  BY <1>1, <1>6, <1>7

-----------------------------------------------------------------------------
(* The order of the points.                                                *)

Apart(points) == \A p, q \in points : p # q => p.members \cap q.members = {}
Points(points) == Apart(points) /\ \A p \in points : PointIs(p)

\* The place of a point among the stored trades is that of its first.
LEMMA OrderIs ==
  ASSUME MarketInv, NEW p, PointIs(p)
  PROVE  /\ SourceOrder(p) \in p.members /\ SourceOrder(p) \in Nat
         /\ \A i \in p.members : SourceOrder(p) <= i
<1>1. p.members # {} /\ p.members \in SUBSET Nat
  BY DealIs DEF PointIs, Kept
<1> QED
  BY <1>1, LeastIs DEF SourceOrder

\* Of points that share no trade one comes first.
LEMMA FirstIs ==
  ASSUME MarketInv, NEW points, Points(points), points # {}
  PROVE  /\ FirstOf(points) \in points
         /\ \A q \in points \ {FirstOf(points)} : Earlier(FirstOf(points), q)
<1>1. \A p \in points : /\ p.from \in Nat /\ p.to \in Nat
                        /\ SourceOrder(p) \in Nat /\ SourceOrder(p) \in p.members
  BY OrderIs DEF Points, PointIs
<1>2. PICK m \in {p.from : p \in points} : \A k \in {p.from : p \in points} : m <= k
  BY <1>1, LeastOf
<1> DEFINE A == {p \in points : p.from = m}
<1>3. A # {}
  OBVIOUS
<1>4. PICK n \in {p.to : p \in A} : \A k \in {p.to : p \in A} : n <= k
  <2> DEFINE S == {p.to : p \in A}
  <2>1. S \in SUBSET Nat /\ S # {}
    BY <1>1, <1>3
  <2> HIDE DEF S
  <2>2. \E n \in S : \A k \in S : n <= k
    BY <2>1, LeastOf
  <2> QED
    BY <2>2 DEF S
<1> DEFINE B == {p \in A : p.to = n}
<1>5. B # {}
  OBVIOUS
<1>6. PICK o \in {SourceOrder(p) : p \in B} : \A k \in {SourceOrder(p) : p \in B} : o <= k
  <2> DEFINE S == {SourceOrder(p) : p \in B}
  <2>1. S \in SUBSET Nat /\ S # {}
    BY <1>1, <1>5
  <2> HIDE DEF S
  <2>2. \E o \in S : \A k \in S : o <= k
    BY <2>1, LeastOf
  <2> QED
    BY <2>2 DEF S
<1>7. PICK p \in B : SourceOrder(p) = o
  OBVIOUS
<1>8. p \in points /\ p.from = m /\ p.to = n
  OBVIOUS
<1>9. \A q \in points \ {p} : Earlier(p, q)
  <2> TAKE q \in points \ {p}
  <2>1. SourceOrder(p) # SourceOrder(q)
    BY <1>1, <1>8 DEF Points, Apart
  <2>2. m <= q.from
    BY <1>2
  <2>3. q.from = m => n <= q.to
    BY <1>4
  <2>4. q.from = m /\ q.to = n => o <= SourceOrder(q)
    BY <1>6
  <2>5. m \in Nat /\ n \in Nat /\ o \in Nat /\ q.from \in Nat /\ q.to \in Nat /\ SourceOrder(q) \in Nat
    BY <1>1, <1>7, <1>8
  <2>6. p.from = m /\ p.to = n /\ SourceOrder(p) = o
    BY <1>7, <1>8
  <2>7. CASE m < q.from
    BY <2>6, <2>7 DEF Earlier
  <2>8. CASE q.from = m /\ n < q.to
    BY <2>6, <2>8 DEF Earlier
  <2>9. CASE q.from = m /\ q.to = n
    <3>1. o < SourceOrder(q)
      BY <2>1, <2>4, <2>5, <2>6, <2>9
    <3> QED
      BY <2>6, <2>9, <3>1 DEF Earlier
  <2> QED
    BY <2>2, <2>3, <2>5, <2>7, <2>8, <2>9
<1> QED
  BY <1>8, <1>9 DEF FirstOf

\* A session without a decision has no touched point; a decision is its first touched one's.
LEMMA FirstTouchIs ==
  ASSUME MarketInv, NEW points, Points(points), NEW d, NEW v, v = FirstTouch(points, d)
  PROVE  /\ v.state \in {"UNDECIDED", "BLOCKED", "TARGET", "STOP"}
         /\ v.state = "UNDECIDED" => \A p \in points : p.day = d => ~Touched(p)
         /\ v.state \in {"TARGET", "STOP"} =>
              \E p \in points :
                 /\ p.day = d /\ Touched(p) /\ ~Ambiguous(p)
                 /\ v.state = (IF HitsTargetAt(p) THEN "TARGET" ELSE "STOP")
                 /\ v.day = d /\ v.touch = p.members
                 /\ \A q \in points : q.day = d /\ Touched(q) /\ q # p => Earlier(p, q)
<1> DEFINE D == Deciding(points, d)
           first == FirstOf(D)
<1>1. CASE D = {}
  <2>1. v = Undecided
    BY <1>1 DEF FirstTouch
  <2>2. \A p \in points : p.day = d => ~Touched(p)
    BY <1>1 DEF Deciding
  <2> QED
    BY <2>1, <2>2 DEF Undecided, Only, Resolution
<1>2. CASE D # {}
  <2>1. D \subseteq points /\ Points(D)
    BY DEF Deciding, Points, Apart
  <2>2. first \in D /\ \A q \in D \ {first} : Earlier(first, q)
    <3> HIDE DEF D
    <3> QED
      BY <1>2, <2>1, FirstIs
  <2>3. CASE Overlaps(points, first) \/ Ambiguous(first)
    <3>1. v = Blocked
      BY <1>2, <2>3 DEF FirstTouch
    <3> QED
      BY <3>1 DEF Blocked, Only, Resolution
  <2>4. CASE ~(Overlaps(points, first) \/ Ambiguous(first))
    <3>1. v = Resolution(IF HitsTargetAt(first) THEN "TARGET" ELSE "STOP", d, first.members)
      BY <1>2, <2>4 DEF FirstTouch
    <3>2. first \in points /\ first.day = d /\ Touched(first)
      BY <2>2, <2>4 DEF Deciding
    <3>3. \A q \in points : q.day = d /\ Touched(q) /\ q # first => Earlier(first, q)
      BY <2>2 DEF Deciding
    <3> HIDE DEF first
    <3>4. /\ v.state = (IF HitsTargetAt(first) THEN "TARGET" ELSE "STOP")
          /\ v.day = d /\ v.touch = first.members
      BY <3>1 DEF Resolution
    <3>5. v.state \in {"TARGET", "STOP"}
      BY <3>4
    <3> QED
      BY <2>4, <3>2, <3>3, <3>4, <3>5
  <2> QED
    BY <2>3, <2>4
<1> QED
  BY <1>1, <1>2

\* A session that decides, or is passed, is complete, and closed if another is known after it.
LEMMA SessionIs ==
  ASSUME NEW known, NEW points, NEW d, NEW v, v = SessionResolution(known, points, d),
         FirstTouch(points, d).state \in {"UNDECIDED", "BLOCKED", "TARGET", "STOP"}
  PROVE  /\ v.state \in {"OPEN", "UNDECIDED", "BLOCKED", "TARGET", "STOP"}
         /\ v.state \in {"UNDECIDED", "TARGET", "STOP"} =>
              /\ Complete(Of(known, d)) /\ ClosedBeforeNext(known, Of(known, d))
              /\ v = FirstTouch(points, d)
<1> DEFINE e == Of(known, d)
<1>1. v \in {Blocked, Only("OPEN"), FirstTouch(points, d)}
  BY DEF SessionResolution
<1>2. Blocked.state = "BLOCKED" /\ Only("OPEN").state = "OPEN"
  BY DEF Blocked, Only, Resolution
<1>3. CASE CoverageBlocks(e) \/ ~ClosedBeforeNext(known, e)
  <2>1. v = Blocked
    BY <1>3 DEF SessionResolution
  <2> QED
    BY <1>2, <2>1
<1>4. CASE ~(CoverageBlocks(e) \/ ~ClosedBeforeNext(known, e))
  BY <1>1, <1>2, <1>4 DEF CoverageBlocks
<1> QED
  BY <1>3, <1>4

-----------------------------------------------------------------------------
(* A prefix that is admissible.                                            *)

\* A prefix that is not blocked as a whole.
Frozen(days, f, points) ==
  /\ Prefix(days, f) /\ points \in Projections(KnownDays(days, f))
  /\ Admissible(KnownDays(days, f), points)

\* A verdict of the horizon, and one of a session, after what the sessions before have been found to be.
TimedOut(days, f, points, v) ==
  /\ v.state = "TIMEOUT" /\ v.touch = {} /\ HorizonDay \in days
  /\ f[HorizonDay].coverage # "COMPLETE_PREFIX"
  /\ \A d \in days \cap OpenDays : SessionResolution(KnownDays(days, f), points, d) = Undecided
DecidedOn(days, f, points, v, d) ==
  /\ v = SessionResolution(KnownDays(days, f), points, d)
  /\ \A c \in days \cap OpenDays :
       c < d => SessionResolution(KnownDays(days, f), points, c) = Undecided

\* The points of a prefix are points, and share no trade.
LEMMA FrozenPoints ==
  ASSUME MarketInv, NEW days, NEW f, NEW points, Frozen(days, f, points)
  PROVE  Points(points)
<1>1. points \subseteq Projectable(KnownDays(days, f)) /\ Apart(points)
  BY DEF Frozen, Projections, Apart
<1> QED
  BY <1>1, ProjectedIsPoint DEF Frozen, Points

\* No day before a known one is unknown.
LEMMA NoneSkipped ==
  ASSUME NEW days, NEW f, Prefix(days, f), ConsecutiveDays(KnownDays(days, f)), NEW d \in days, NEW c \in 1..d
  PROVE  c \in days
<1>1. d \in Nat /\ HorizonDay \in Nat /\ \A e \in days : e \in Nat
  BY HorizonIs DEF Prefix
<1>2. \A e \in days : e > 1 => e - 1 \in days
  <2> TAKE e \in days
  <2> HAVE e > 1
  <2>1. PICK k \in KnownDays(days, f) : k.day = e
    BY OfIs DEF Knows
  <2>2. Knows(KnownDays(days, f), e - 1)
    BY <2>1 DEF ConsecutiveDays, EntryDay
  <2> QED
    BY <2>2, OfIs
<1> DEFINE missing == {k \in 0..(d - 1) : d - k \notin days}
<1>3. missing = {}
  <2> SUFFICES ASSUME missing # {} PROVE FALSE
    OBVIOUS
  <2>1. missing \in SUBSET Nat
    OBVIOUS
  <2>2. PICK m \in missing : \A k \in missing : m <= k
    BY <2>1, LeastOf
  <2>3. m \in 0..(d - 1) /\ d - m \notin days /\ m # 0
    BY <1>1, <2>2
  <2>4. m - 1 \in 0..(d - 1) /\ m - 1 \notin missing
    BY <1>1, <2>2, <2>3
  <2>5. d - (m - 1) \in days /\ d - (m - 1) > 1 /\ (d - (m - 1)) - 1 = d - m
    BY <1>1, <2>3, <2>4
  <2> QED
    BY <1>2, <2>3, <2>5
<1>4. d - c \in 0..(d - 1) /\ d - (d - c) = c
  BY <1>1
<1> QED
  BY <1>3, <1>4

\* The trades of a point lie in its interval and in its day.
LEMMA PointTimes ==
  ASSUME MarketInv, NEW p, PointIs(p), NEW i \in p.members
  PROVE  /\ i \in DOMAIN market /\ market[i].at \in Nat
         /\ p.from <= market[i].at /\ market[i].at <= p.to
         /\ Opens(p.day) <= market[i].at /\ market[i].at < Closes(p.day)
<1>1. i \in DOMAIN market /\ market[i].at \in Nat
  BY DealIs DEF PointIs, Kept
<1>2. p.from \in Nat /\ p.to \in Nat /\ Opens(p.day) \in Nat /\ Opens(p.day) <= p.from
  BY DayBounds DEF PointIs
<1>3. p.from <= market[i].at /\ market[i].at <= p.to
  <2>1. CASE Tick(p)
    BY <1>1, <1>2, <2>1 DEF Tick
  <2>2. CASE Bar(p)
    BY <1>1, <1>2, <2>2 DEF Bar, Within
  <2> QED
    BY <2>1, <2>2 DEF PointIs
<1> QED
  BY <1>1, <1>2, <1>3 DEF PointIs

\* No day up to the horizon closes after it.
LEMMA ClosesByHorizon ==
  ASSUME NEW d \in OpenDays, d <= HorizonDay
  PROVE  Closes(d) <= Closes(HorizonDay)
<1>1. d \in Nat /\ HorizonDay \in OpenDays /\ HorizonDay \in Nat /\ Closes(d) \in Nat
      /\ Opens(HorizonDay) \in Nat /\ Closes(HorizonDay) \in Nat /\ Opens(HorizonDay) < Closes(HorizonDay)
  BY HorizonIs, DayBounds
<1>2. d < HorizonDay => Closes(d) <= Opens(HorizonDay)
  BY <1>1, InOrder
<1> QED
  BY <1>1, <1>2

\* A trade that the coverage of its session covers, after the entry, is in a point.
LEMMA CoveredIsConsumed ==
  ASSUME MarketInv, NEW days, NEW f, NEW points, Frozen(days, f, points),
         NEW d \in days \cap OpenDays, Complete(f[d]), NEW i \in DOMAIN market,
         filledAt < market[i].at, Opens(d) <= market[i].at, market[i].at < f[d].through
  PROVE  \E p \in points : p.day = d /\ i \in p.members
<1>1. /\ f[d].through \in Nat /\ f[d].through <= Closes(d) /\ f[d].through <= time
      /\ Covered(Opens(d), f[d].through)
  BY EvidenceIs DEF Frozen, Prefix
<1>2. market[i].at \in Nat /\ filledAt \in Nat /\ time \in Nat /\ Closes(d) \in Nat /\ Closes(HorizonDay) \in Nat
      /\ d \in Nat /\ HorizonDay \in Nat
  BY DealIs, DayBounds, HorizonIs DEF MarketInv
<1>3. i \in Kept
  BY <1>1 DEF Covered, Within
<1>4. d <= HorizonDay
  BY HorizonIs DEF Frozen, Prefix
<1>5. market[i].at < Closes(HorizonDay) /\ market[i].at < time /\ market[i].at < Closes(d)
  BY <1>1, <1>2, <1>4, ClosesByHorizon
<1>6. Within(i, filledAt, SourceCutoff(KnownDays(days, f)))
  BY <1>2, <1>5 DEF Within, SourceCutoff
<1>7. PICK p \in points : i \in p.members
  BY <1>3, <1>6 DEF Frozen, Admissible, AllProjected, Consumed
<1>8. PointIs(p)
  BY FrozenPoints DEF Points
<1>9. Opens(p.day) <= market[i].at /\ market[i].at < Closes(p.day) /\ p.day \in OpenDays
  BY <1>7, <1>8, PointTimes DEF PointIs
<1>10. p.day = d
  BY <1>2, <1>5, <1>9, OneDay
<1> QED
  BY <1>7, <1>10

\* A price that is not inside touches the point that has it.
LEMMA TouchesPoint ==
  ASSUME MarketInv, NEW p, PointIs(p), NEW i \in p.members, market[i].price # Inside
  PROVE  Touched(p)
<1>1. market[i].price \in {AtTarget, AtStop}
  BY DealIs DEF PointIs, Kept, AtTarget, AtStop
<1> QED
  BY <1>1 DEF PointIs, Touched

\* A session without a decision has no touch.
LEMMA QuietDay ==
  ASSUME MarketInv, NEW days, NEW f, NEW points, Frozen(days, f, points),
         NEW d \in days \cap OpenDays, f[d].coverage = "COMPLETE_SESSION",
         \A p \in points : p.day = d => ~Touched(p),
         NEW i \in Touching, Opens(d) <= market[i].at, market[i].at < Closes(d)
  PROVE  FALSE
<1>1. f[d].through = Closes(d) /\ Complete(f[d])
  BY EvidenceIs DEF Frozen, Prefix, Complete
<1>2. i \in DOMAIN market /\ filledAt < market[i].at /\ market[i].price # Inside
  BY DealIs DEF Touching, MarketInv
<1>3. PICK p \in points : p.day = d /\ i \in p.members
  BY <1>1, <1>2, CoveredIsConsumed
<1>4. Touched(p)
  BY <1>2, <1>3, FrozenPoints, TouchesPoint DEF Points
<1> QED
  BY <1>3, <1>4

\* Only a prefix that is admissible has a verdict.
LEMMA ResolutionIs ==
  ASSUME MarketInv, NEW days, NEW f, NEW points, Prefix(days, f), points \in Projections(KnownDays(days, f)),
         NEW v, v = ResolveRuntimePath(KnownDays(days, f), points),
         v.state \in {"TARGET", "STOP", "TIMEOUT"}
  PROVE  /\ Frozen(days, f, points)
         /\ \/ TimedOut(days, f, points, v)
            \/ \E d \in days \cap OpenDays : DecidedOn(days, f, points, v, d)
<1> DEFINE known == KnownDays(days, f)
           D == {d \in OpenDays : Knows(known, d) /\ SessionResolution(known, points, d) # Undecided}
<1>1. /\ Blocked.state = "BLOCKED" /\ Only("OPEN").state = "OPEN"
      /\ Only("TIMEOUT").state = "TIMEOUT" /\ Only("TIMEOUT").touch = {}
  BY DEF Blocked, Only, Resolution
<1>2. Admissible(known, points)
  BY <1>1 DEF ResolveRuntimePath
<1>3. Frozen(days, f, points)
  BY <1>2 DEF Frozen
<1>4. \A d \in OpenDays : Knows(known, d) <=> d \in days
  BY OfIs
<1>5. CASE D = {}
  <2>1. v = HorizonResolution(known)
    BY <1>2, <1>5 DEF ResolveRuntimePath
  <2>2. v = Only("TIMEOUT") /\ Knows(known, HorizonDay) /\ Of(known, HorizonDay).coverage # "COMPLETE_PREFIX"
    BY <1>1, <2>1 DEF HorizonResolution
  <2>3. HorizonDay \in days /\ Of(known, HorizonDay) = f[HorizonDay]
    BY <1>4, <2>2, HorizonIs, OfIs
  <2> QED
    BY <1>1, <1>3, <1>4, <1>5, <2>2, <2>3 DEF TimedOut
<1>6. CASE D # {}
  <2>1. v = SessionResolution(known, points, Min(D))
    BY <1>2, <1>6 DEF ResolveRuntimePath
  <2>2. D \in SUBSET Nat
    BY DayBounds
  <2>3. Min(D) \in D /\ \A k \in D : Min(D) <= k
    BY <1>6, <2>2, LeastIs
  <2>4. \A c \in days \cap OpenDays : c < Min(D) => c \notin D
    <3> HIDE DEF D
    <3> TAKE c \in days \cap OpenDays
    <3> HAVE c < Min(D)
    <3>1. c \in Nat /\ Min(D) \in Nat
      BY <2>2, <2>3, DayBounds
    <3>2. c \in D => Min(D) <= c
      BY <2>3
    <3> QED
      BY <3>1, <3>2
  <2>5. Min(D) \in days \cap OpenDays
    BY <1>4, <2>3
  <2>6. \A c \in days \cap OpenDays : c \notin D => SessionResolution(known, points, c) = Undecided
    BY <1>4
  <2> HIDE DEF D
  <2> QED
    BY <1>3, <2>1, <2>4, <2>5, <2>6 DEF DecidedOn
<1> QED
  BY <1>5, <1>6

\* Whoever was touched was touched in a session.
LEMMA TouchingIs ==
  ASSUME MarketInv, NEW i \in Touching
  PROVE  /\ i \in DOMAIN market /\ i \in Nat /\ market[i].at \in Nat
         /\ filledAt < market[i].at /\ market[i].at < Closes(HorizonDay)
         /\ \E d \in OpenDays : /\ d \in 1..HorizonDay
                                /\ Opens(d) <= market[i].at /\ market[i].at < Closes(d)
<1>1. i \in DOMAIN market /\ market[i].at \in Nat /\ i \in Nat
  BY DealIs DEF Touching
<1>2. filledAt < market[i].at /\ market[i].at < Closes(HorizonDay)
  BY <1>1 DEF Touching, MarketInv
<1>3. PICK d \in OpenDays : Opens(d) <= market[i].at /\ market[i].at < Closes(d)
  BY <1>1 DEF MarketInv, InSession
<1>4. /\ d \in Nat \ {0} /\ HorizonDay \in Nat /\ HorizonDay \in OpenDays
      /\ Opens(d) \in Nat /\ Closes(HorizonDay) \in Nat
  BY DayBounds, HorizonIs
<1>5. HorizonDay < d => Closes(HorizonDay) <= Opens(d)
  BY <1>4, InOrder
<1>6. d \in 1..HorizonDay
  BY <1>1, <1>2, <1>3, <1>4, <1>5
<1> QED
  BY <1>1, <1>2, <1>3, <1>6

\* An undecided session is complete and no point of it is touched.
LEMMA UndecidedIs ==
  ASSUME MarketInv, NEW days, NEW f, NEW points, Frozen(days, f, points), NEW d \in days \cap OpenDays,
         SessionResolution(KnownDays(days, f), points, d) = Undecided
  PROVE  /\ Complete(f[d]) /\ ClosedBeforeNext(KnownDays(days, f), f[d])
         /\ \A p \in points : p.day = d => ~Touched(p)
<1> DEFINE v == SessionResolution(KnownDays(days, f), points, d)
<1>1. v.state = "UNDECIDED"
  BY DEF Undecided, Only, Resolution
<1>2. Points(points) /\ Of(KnownDays(days, f), d) = f[d]
  BY FrozenPoints, OfIs DEF Frozen
<1>3. /\ FirstTouch(points, d).state \in {"UNDECIDED", "BLOCKED", "TARGET", "STOP"}
      /\ FirstTouch(points, d).state = "UNDECIDED" => \A p \in points : p.day = d => ~Touched(p)
  BY <1>2, FirstTouchIs
<1>4. Complete(f[d]) /\ ClosedBeforeNext(KnownDays(days, f), f[d]) /\ v = FirstTouch(points, d)
  <2> HIDE DEF v
  <2>1. v = SessionResolution(KnownDays(days, f), points, d)
    BY DEF v
  <2> QED
    BY <1>1, <1>2, <1>3, <2>1, SessionIs
<1> QED
  BY <1>1, <1>3, <1>4

\* A session that another known one follows is complete to its close.
LEMMA FollowedIs ==
  ASSUME NEW days, NEW f, Prefix(days, f), NEW d \in days \cap OpenDays, NEW e \in days \cap OpenDays, d < e,
         ClosedBeforeNext(KnownDays(days, f), f[d])
  PROVE  f[d].coverage = "COMPLETE_SESSION"
<1>1. f[e] \in KnownDays(days, f) /\ f[e].day = e /\ f[d].day = d
  BY DEF KnownDays, Prefix
<1> QED
  BY <1>1 DEF ClosedBeforeNext

\* Where every session up to the horizon was passed, nothing was touched.
LEMMA TimeoutIsTrue ==
  ASSUME MarketInv, NEW days, NEW f, NEW points, Frozen(days, f, points),
         HorizonDay \in days, f[HorizonDay].coverage # "COMPLETE_PREFIX",
         \A d \in days \cap OpenDays : SessionResolution(KnownDays(days, f), points, d) = Undecided
  PROVE  Touching = {} /\ time >= Closes(HorizonDay)
<1>1. HorizonDay \in days \cap OpenDays
  BY HorizonIs
<1>2. \A d \in days \cap OpenDays :
        /\ f[d].coverage = "COMPLETE_SESSION"
        /\ \A p \in points : p.day = d => ~Touched(p)
  <2> TAKE d \in days \cap OpenDays
  <2>1. /\ Complete(f[d]) /\ ClosedBeforeNext(KnownDays(days, f), f[d])
        /\ \A p \in points : p.day = d => ~Touched(p)
    BY UndecidedIs
  <2>2. d \in Nat /\ HorizonDay \in Nat /\ d <= HorizonDay
    BY HorizonIs DEF Frozen, Prefix
  <2>3. CASE d = HorizonDay
    BY <2>1, <2>3 DEF Complete
  <2>4. CASE d < HorizonDay
    <3>1. f[d].coverage = "COMPLETE_SESSION"
      BY <1>1, <2>1, <2>4, FollowedIs DEF Frozen
    <3> QED
      BY <2>1, <3>1
  <2> QED
    BY <2>2, <2>3, <2>4
<1>3. Touching = {}
  <2> SUFFICES ASSUME NEW i \in Touching PROVE FALSE
    OBVIOUS
  <2>1. PICK d \in OpenDays : /\ d \in 1..HorizonDay
                              /\ Opens(d) <= market[i].at /\ market[i].at < Closes(d)
    BY TouchingIs
  <2>2. d \in days
    BY <1>1, <2>1, NoneSkipped DEF Frozen, Admissible
  <2> QED
    BY <1>2, <2>1, <2>2, QuietDay
<1>4. time >= Closes(HorizonDay)
  <2>1. f[HorizonDay].through = Closes(HorizonDay) /\ f[HorizonDay].through <= time
    BY <1>1, <1>2, EvidenceIs DEF Frozen, Prefix
  <2>2. time \in Nat /\ Closes(HorizonDay) \in Nat
    BY <1>1, DayBounds DEF MarketInv
  <2> QED
    BY <2>1, <2>2
<1> QED
  BY <1>3, <1>4

\* All that is in a point is after the entry.
LEMMA AfterEntry ==
  ASSUME MarketInv, NEW days, NEW f, NEW points, Frozen(days, f, points),
         NEW p \in points, p.day \in days, NEW i \in p.members
  PROVE  filledAt < market[i].at
<1>1. PointIs(p)
  BY FrozenPoints DEF Points
<1>2. /\ market[i].at \in Nat /\ p.from <= market[i].at /\ p.from \in Nat
      /\ Opens(p.day) <= market[i].at /\ p.day \in OpenDays
  BY <1>1, PointTimes DEF PointIs
<1>3. filledAt \in Nat /\ Opens(p.day) \in Nat /\ p.day \in Nat \ {0}
  BY <1>2, DayBounds DEF MarketInv
<1>4. CASE p.day = 1
  <2>1. p.from > filledAt
    BY <1>4 DEF Frozen, Admissible, PointHolds, EntryDay
  <2> QED
    BY <1>2, <1>3, <2>1
<1>5. CASE p.day > 1
  <2>1. 1 \in days /\ ExecutionAllowed(1, filledAt) /\ Of(KnownDays(days, f), 1).status = "TRADED"
    BY OfIs DEF Frozen, Admissible, EntryHolds, EntryDay
  <2>2. 1 \in OpenDays
    <3> SUFFICES ASSUME 1 \notin OpenDays PROVE FALSE
      OBVIOUS
    <3>1. Of(KnownDays(days, f), 1) = ClosedDay(1)
      BY <2>1, OfIs DEF Frozen
    <3> QED
      BY <2>1, <3>1 DEF ClosedDay, Evidence
  <2>3. PICK s \in ToSet(Calendar[1]) : s.from <= filledAt /\ filledAt < s.to
    BY <2>1 DEF ExecutionAllowed
  <2>4. s.to \in Nat /\ s.to <= Closes(1) /\ Closes(1) \in Nat
    BY <2>2, SegmentsWithin, DayBounds
  <2>5. Closes(1) <= Opens(p.day)
    BY <1>2, <1>5, <2>2, InOrder
  <2> QED
    BY <1>2, <1>3, <2>3, <2>4, <2>5
<1> QED
  BY <1>3, <1>4, <1>5

\* Of two points of a day the one that has an earlier touch is not the later one.
LEMMA FirstInOrder ==
  ASSUME MarketInv, NEW p, PointIs(p), NEW q, PointIs(q), p.members \cap q.members = {}, Earlier(p, q),
         NEW i \in p.members, NEW j \in q.members, j < i
  PROVE  FALSE
<1>1. /\ i \in DOMAIN market /\ market[i].at \in Nat /\ p.from <= market[i].at /\ market[i].at <= p.to
      /\ j \in DOMAIN market /\ market[j].at \in Nat /\ q.from <= market[j].at /\ market[j].at <= q.to
  BY PointTimes
<1>2. i \in Nat /\ j \in Nat /\ i \in Kept /\ j \in Kept /\ i # j
  BY <1>1, DealIs DEF PointIs
<1>3. market[j].at <= market[i].at
  BY <1>1, <1>2 DEF MarketInv
<1>4. /\ p.from \in Nat /\ p.to \in Nat /\ q.from \in Nat /\ q.to \in Nat
      /\ SourceOrder(p) \in Nat /\ SourceOrder(q) \in Nat
  BY OrderIs DEF PointIs
<1>5. p.from <= q.from
  BY <1>4 DEF Earlier
<1>6. CASE Bar(p)
  <2>1. market[i].at < p.to
    BY <1>6 DEF Bar, Within
  <2>2. Within(j, p.from, p.to)
    BY <1>1, <1>3, <1>4, <1>5, <2>1 DEF Within
  <2>3. j \in p.members
    BY <1>2, <1>6, <2>2 DEF Bar
  <2> QED
    BY <2>3
<1>7. CASE Tick(p)
  <2>1. p.members = {i} /\ market[i].at = p.from /\ p.to = p.from
    BY <1>7 DEF Tick
  <2>2. q.from = p.from /\ market[j].at = p.from
    BY <1>1, <1>3, <1>4, <1>5, <2>1
  <2>3. CASE Bar(q)
    <3>1. Within(i, q.from, q.to)
      BY <1>4, <2>1, <2>2, <2>3 DEF Bar, Within
    <3>2. i \in q.members
      BY <1>2, <2>3, <3>1 DEF Bar
    <3> QED
      BY <3>2
  <2>4. CASE Tick(q)
    <3>1. q.members = {j} /\ q.to = q.from
      BY <2>4 DEF Tick
    <3>2. SourceOrder(p) = i /\ SourceOrder(q) = j
      BY <2>1, <3>1, OrderIs
    <3> QED
      BY <1>2, <1>4, <2>1, <2>2, <3>1, <3>2 DEF Earlier
  <2> QED
    BY <2>3, <2>4 DEF PointIs
<1> QED
  BY <1>6, <1>7 DEF PointIs

\* What a verdict on a barrier says: its day's coverage ends at edge.
TouchTrue(v, end) ==
  LET first == Min(Touching)
  IN /\ Touching # {}
     /\ \/ /\ first \in v.touch
           /\ market[first].price = (IF v.state = "TARGET" THEN AtTarget ELSE AtStop)
        \/ market[first].at = end /\ \E i \in v.touch : market[i].at = end

\* The verdict of the session that decides is about the first touch of all.
LEMMA TouchIsTrue ==
  ASSUME MarketInv, NEW days, NEW f, NEW points, Frozen(days, f, points), NEW d \in days \cap OpenDays,
         NEW v, DecidedOn(days, f, points, v, d), v.state \in {"TARGET", "STOP"}
  PROVE  v.day = d /\ v.touch \subseteq DOMAIN market /\ TouchTrue(v, f[d].through)
<1>1. Points(points) /\ Of(KnownDays(days, f), d) = f[d] /\ Prefix(days, f)
  BY FrozenPoints, OfIs DEF Frozen
<1>2. FirstTouch(points, d).state \in {"UNDECIDED", "BLOCKED", "TARGET", "STOP"}
  BY <1>1, FirstTouchIs
<1>3. Complete(f[d]) /\ ClosedBeforeNext(KnownDays(days, f), f[d]) /\ v = FirstTouch(points, d)
  <2>1. v = SessionResolution(KnownDays(days, f), points, d)
    BY DEF DecidedOn
  <2> QED
    BY <1>1, <1>2, <2>1, SessionIs
<1>4. PICK p \in points :
         /\ p.day = d /\ Touched(p) /\ ~Ambiguous(p)
         /\ v.state = (IF HitsTargetAt(p) THEN "TARGET" ELSE "STOP")
         /\ v.day = d /\ v.touch = p.members
         /\ \A q \in points : q.day = d /\ Touched(q) /\ q # p => Earlier(p, q)
  BY <1>1, <1>3, FirstTouchIs
<1>5. PointIs(p)
  BY <1>1 DEF Points
<1>6. PICK i \in p.members : market[i].price # Inside
  <2>1. \E i \in p.members : market[i].price \in {AtTarget, AtStop}
    BY <1>4, <1>5 DEF PointIs, Touched
  <2> QED
    BY <2>1 DEF AtTarget, AtStop, Inside
<1>7. /\ d \in Nat /\ HorizonDay \in Nat /\ d \in 1..HorizonDay
      /\ filledAt \in Nat /\ time \in Nat /\ Closes(d) \in Nat /\ Opens(d) \in Nat /\ Closes(HorizonDay) \in Nat
  BY <1>1, HorizonIs, DayBounds DEF Prefix, MarketInv
<1>8. /\ i \in DOMAIN market /\ market[i].at \in Nat /\ i \in Nat
      /\ market[i].at <= p.to /\ market[i].at < Closes(d) /\ Opens(d) <= market[i].at
  BY <1>4, <1>5, PointTimes, DealIs
<1>9. filledAt < market[i].at
  BY <1>4, AfterEntry
<1>10. i \in Touching
  BY <1>6, <1>7, <1>8, <1>9, ClosesByHorizon DEF Touching
<1>11. Min(Touching) \in Touching /\ \A k \in Touching : Min(Touching) <= k
  <2>1. Touching \in SUBSET Nat
    BY TouchingIs
  <2> QED
    BY <1>10, <2>1, LeastIs
<1>12. PICK j \in Touching : j = Min(Touching)
  BY <1>11
<1>13. /\ j \in DOMAIN market /\ j \in Nat /\ market[j].at \in Nat /\ filledAt < market[j].at
       /\ market[j].price # Inside /\ j <= i /\ market[j].at <= market[i].at
  <2>1. j <= i
    BY <1>10, <1>11, <1>12
  <2>2. j \in DOMAIN market /\ j \in Nat /\ market[j].at \in Nat /\ filledAt < market[j].at
    BY TouchingIs
  <2>3. market[j].at <= market[i].at
    BY <1>8, <2>1, <2>2 DEF MarketInv
  <2> QED
    BY <2>1, <2>2, <2>3 DEF Touching
<1>14. Opens(d) <= market[j].at
  <2>1. PICK c \in OpenDays : c \in 1..HorizonDay /\ Opens(c) <= market[j].at /\ market[j].at < Closes(c)
    BY TouchingIs
  <2>2. c \in Nat /\ Opens(c) \in Nat /\ Closes(c) \in Nat
    BY DayBounds
  <2>3. CASE c = d
    BY <2>1, <2>3
  <2>4. CASE d < c
    BY <1>7, <1>8, <1>13, <2>1, <2>2, <2>4, InOrder
  <2>5. CASE c < d
    <3>1. c \in days
      <4>1. c \in 1..d /\ d \in days
        BY <1>7, <2>1, <2>5
      <4> QED
        BY <1>1, <4>1, NoneSkipped DEF Frozen, Admissible
    <3>2. /\ ClosedBeforeNext(KnownDays(days, f), f[c])
          /\ \A q \in points : q.day = c => ~Touched(q)
      BY <2>5, <3>1, UndecidedIs DEF DecidedOn
    <3>3. f[c].coverage = "COMPLETE_SESSION"
      BY <1>1, <2>5, <3>1, <3>2, FollowedIs
    <3> QED
      BY <2>1, <3>1, <3>2, <3>3, QuietDay
  <2> QED
    BY <1>7, <2>2, <2>3, <2>4, <2>5
<1>15. f[d].through \in Nat /\ market[i].at <= f[d].through
  <2>1. f[d].through \in Nat
    BY <1>1, EvidenceIs DEF Prefix
  <2>2. p.to \in Nat /\ p.to <= f[d].through
    BY <1>1, <1>3, <1>4, <1>5 DEF Frozen, Admissible, PointHolds, PointIs
  <2> QED
    BY <1>8, <2>1, <2>2
<1>16. CASE market[j].at < f[d].through
  <2>1. PICK q \in points : q.day = d /\ j \in q.members
    BY <1>3, <1>13, <1>14, <1>16, CoveredIsConsumed
  <2>2. PointIs(q) /\ Touched(q)
    BY <1>1, <1>13, <2>1, TouchesPoint DEF Points
  <2>3. q = p
    <3> SUFFICES ASSUME q # p PROVE FALSE
      OBVIOUS
    <3>1. p.members \cap q.members = {} /\ Earlier(p, q)
      BY <1>1, <1>4, <2>1, <2>2 DEF Points, Apart
    <3>2. j # i
      BY <2>1, <3>1
    <3>3. j < i
      BY <1>8, <1>13, <3>2
    <3> QED
      BY <1>5, <2>1, <2>2, <3>1, <3>3, FirstInOrder
  <2>4. j \in p.members /\ market[j].price \in {AtTarget, AtStop}
    BY <1>13, <2>1, <2>3, DealIs DEF AtTarget, AtStop
  <2>5. market[j].price = (IF v.state = "TARGET" THEN AtTarget ELSE AtStop)
    <3>1. CASE HitsTargetAt(p)
      <4>1. ~HitsStopAt(p) /\ v.state = "TARGET"
        BY <1>4, <3>1 DEF Ambiguous
      <4>2. market[j].price # AtStop
        BY <1>5, <2>4, <4>1 DEF PointIs
      <4> QED
        BY <2>4, <4>1, <4>2
    <3>2. CASE ~HitsTargetAt(p)
      <4>1. v.state = "STOP"
        BY <1>4, <3>2
      <4>2. market[j].price # AtTarget
        BY <1>5, <2>4, <3>2 DEF PointIs
      <4> QED
        BY <2>4, <4>1, <4>2
    <3> QED
      BY <3>1, <3>2
  <2>6. TouchTrue(v, f[d].through)
    BY <1>4, <1>12, <2>4, <2>5 DEF TouchTrue
  <2> QED
    BY <1>4, <1>5, <2>6 DEF PointIs, Kept
<1>17. CASE ~(market[j].at < f[d].through)
  <2>1. market[j].at = f[d].through /\ market[i].at = f[d].through
    BY <1>8, <1>13, <1>15, <1>17
  <2>2. TouchTrue(v, f[d].through)
    BY <1>4, <1>12, <2>1 DEF TouchTrue
  <2> QED
    BY <1>4, <1>5, <2>2 DEF PointIs, Kept
<1> QED
  BY <1>16, <1>17

-----------------------------------------------------------------------------
(* The specification.                                                      *)

\* The inductive invariant.
VerdictInv ==
  /\ verdict.state \in {"NONE", "TARGET", "STOP", "TIMEOUT"}
  /\ verdict.touch \subseteq DOMAIN market
PathInv == MarketInv /\ VerdictInv /\ VerdictIsTrue

\* The invariant holds at first.
LEMMA PathInitInv == PathInit => PathInv
<1> SUFFICES ASSUME PathInit PROVE PathInv
  OBVIOUS
<1>1. market = <<>> /\ DOMAIN market = {} /\ time = 0 /\ filledAt \in Nat
  BY CalendarAssumption DEF PathInit
<1>2. market \in Seq(Deals)
  BY <1>1
<1>3. MarketInv
  BY <1>1, <1>2 DEF MarketInv
<1>4. verdict.state = "NONE" /\ verdict.touch = {}
  BY DEF PathInit, NoVerdict, Only, Resolution
<1> QED
  BY <1>3, <1>4 DEF PathInv, VerdictInv, VerdictIsTrue

\* A trade is the last in order: it is the first touch only where there was none.
LEMMA DealInv ==
  ASSUME PathInv, Deal
  PROVE  PathInv'
<1>1. PICK price \in AtStop..AtTarget, stored \in BOOLEAN :
        market' = Append(market, [at |-> time, price |-> price, stored |-> stored])
  BY DEF Deal
<1> DEFINE n == Len(market)
           new == [at |-> time, price |-> price, stored |-> stored]
<1>2. time' = time /\ filledAt' = filledAt /\ verdict' = verdict /\ edge' = edge /\ InSession(time)
  BY DEF Deal
<1>3. MarketInv /\ market \in Seq(Deals) /\ n \in Nat /\ time \in Nat /\ filledAt \in Nat /\ DOMAIN market = 1..n
  BY DEF PathInv, MarketInv
<1>4. new \in Deals
  BY <1>3 DEF Deals
<1>5. /\ market' \in Seq(Deals) /\ DOMAIN market' = 1..(n + 1)
      /\ \A i \in 1..n : market'[i] = market[i]
      /\ market'[n + 1] = new /\ Len(market') = n + 1
  <2> HIDE DEF new
  <2>1. market' = Append(market, new)
    BY <1>1 DEF new
  <2> QED
    BY <1>3, <1>4, <2>1, AppendProperties
<1>6. new.at = time
  OBVIOUS
<1> HIDE DEF new, n
<1>7. \A i \in DOMAIN market' : market'[i].at <= time' /\ InSession(market'[i].at)
  <2> TAKE i \in DOMAIN market'
  <2>1. CASE i \in 1..n
    BY <1>2, <1>3, <1>5, <2>1 DEF MarketInv
  <2>2. CASE i = n + 1
    BY <1>2, <1>3, <1>5, <1>6, <2>2
  <2> QED
    BY <1>3, <1>5, <2>1, <2>2
<1>8. \A i, j \in DOMAIN market' : i <= j => market'[i].at <= market'[j].at
  <2> TAKE i, j \in DOMAIN market'
  <2> HAVE i <= j
  <2>1. CASE j \in 1..n
    <3>1. i \in 1..n
      BY <1>3, <1>5, <2>1
    <3> QED
      BY <1>3, <1>5, <2>1, <3>1 DEF MarketInv
  <2>2. CASE j = n + 1
    BY <1>2, <1>5, <1>6, <1>7, <2>2
  <2> QED
    BY <1>3, <1>5, <2>1, <2>2
<1>9. MarketInv'
  BY <1>2, <1>3, <1>5, <1>7, <1>8 DEF MarketInv
<1>10. VerdictInv'
  BY <1>2, <1>3, <1>5 DEF PathInv, VerdictInv
<1>11. Touching \subseteq Touching' /\ \A i \in Touching' \ Touching : i = n + 1 /\ time < Closes(HorizonDay)
  <2>1. \A i \in 1..n : i \in Touching' <=> i \in Touching
    BY <1>2, <1>3, <1>5 DEF Touching
  <2>2. \A i \in Touching' : i \in 1..n \/ i = n + 1
    BY <1>3, <1>5 DEF Touching
  <2>3. n + 1 \in Touching' => time < Closes(HorizonDay)
    BY <1>5, <1>6 DEF Touching
  <2>4. Touching \subseteq 1..n
    BY <1>3 DEF Touching
  <2> QED
    BY <2>1, <2>2, <2>3, <2>4
<1>12. VerdictIsTrue'
  <2>1. ASSUME verdict'.state = "TIMEOUT" PROVE Touching' = {} /\ time' >= Closes(HorizonDay)
    <3>1. Touching = {} /\ time >= Closes(HorizonDay)
      BY <1>2, <2>1 DEF PathInv, VerdictIsTrue
    <3>2. Closes(HorizonDay) \in Nat
      BY HorizonIs, DayBounds
    <3> QED
      BY <1>2, <1>3, <1>11, <3>1, <3>2
  <2>2. ASSUME verdict'.state \in {"TARGET", "STOP"} PROVE TouchTrue(verdict, edge)'
    <3>1. TouchTrue(verdict, edge)
      BY <1>2, <2>2 DEF PathInv, VerdictIsTrue, TouchTrue
    <3>2. Touching # {} /\ Touching \in SUBSET Nat /\ Touching \subseteq 1..n
      BY <1>3, <3>1, TouchingIs DEF TouchTrue, Touching
    <3>3. PICK m \in Touching : m = Min(Touching) /\ \A k \in Touching : m <= k
      BY <3>2, LeastIs
    <3>4. m \in Touching' /\ \A k \in Touching' : m <= k
      BY <1>3, <1>11, <3>2, <3>3
    <3>5. Touching' \in SUBSET Nat
      BY <1>3, <1>11, <3>2
    <3>6. Min(Touching') = m
      <4>1. Min(Touching') \in Touching' /\ \A k \in Touching' : Min(Touching') <= k
        BY <3>4, <3>5, LeastIs
      <4>2. Min(Touching') <= m /\ m <= Min(Touching') /\ Min(Touching') \in Nat /\ m \in Nat
        BY <3>4, <3>5, <4>1
      <4> QED
        BY <4>2
    <3>7. m \in 1..n /\ market'[m] = market[m]
      BY <1>5, <3>2, <3>3
    <3>8. \A i \in verdict.touch : market'[i] = market[i]
      BY <1>3, <1>5 DEF PathInv, VerdictInv
    <3> QED
      BY <1>2, <3>1, <3>3, <3>4, <3>6, <3>7, <3>8 DEF TouchTrue
  <2> QED
    BY <2>1, <2>2 DEF VerdictIsTrue, TouchTrue
<1> QED
  BY <1>9, <1>10, <1>12 DEF PathInv

\* A verdict is true when it is given.
LEMMA FreezeInv ==
  ASSUME PathInv, Freeze
  PROVE  PathInv'
<1>1. PICK days \in SUBSET (1..HorizonDay) :
        \E f \in [days \cap OpenDays -> UNION {SessionEvidence(d) : d \in days \cap OpenDays}] :
           /\ \A d \in days \cap OpenDays : f[d].day = d
           /\ \E points \in Projections(KnownDays(days, f)) :
                /\ verdict' = ResolveRuntimePath(KnownDays(days, f), points)
                /\ verdict'.state \in {"TARGET", "STOP", "TIMEOUT"}
                /\ edge' = IF verdict'.day = 0 THEN 0 ELSE f[verdict'.day].through
  BY DEF Freeze, KnownDays
<1>2. PICK f \in [days \cap OpenDays -> UNION {SessionEvidence(d) : d \in days \cap OpenDays}] :
        /\ \A d \in days \cap OpenDays : f[d].day = d
        /\ \E points \in Projections(KnownDays(days, f)) :
             /\ verdict' = ResolveRuntimePath(KnownDays(days, f), points)
             /\ verdict'.state \in {"TARGET", "STOP", "TIMEOUT"}
             /\ edge' = IF verdict'.day = 0 THEN 0 ELSE f[verdict'.day].through
  BY <1>1
<1>20. PICK points \in Projections(KnownDays(days, f)) :
         /\ verdict' = ResolveRuntimePath(KnownDays(days, f), points)
         /\ verdict'.state \in {"TARGET", "STOP", "TIMEOUT"}
         /\ edge' = IF verdict'.day = 0 THEN 0 ELSE f[verdict'.day].through
  BY <1>2
<1>3. UNCHANGED <<time, market, filledAt>> /\ MarketInv
  BY DEF Freeze, PathInv
<1>4. \A d \in days \cap OpenDays : f[d] \in SessionEvidence(d)
  <2> TAKE d \in days \cap OpenDays
  <2>1. PICK e \in days \cap OpenDays : f[d] \in SessionEvidence(e)
    BY <1>2
  <2>2. f[d].day = e
    BY <2>1 DEF SessionEvidence, Evidence
  <2> QED
    BY <1>2, <2>1, <2>2
<1>5. Prefix(days, f)
  BY <1>2, <1>4 DEF Prefix
<1>6. PICK v : v = verdict'
  OBVIOUS
<1>7. /\ Frozen(days, f, points)
      /\ \/ TimedOut(days, f, points, v)
         \/ \E d \in days \cap OpenDays : DecidedOn(days, f, points, v, d)
  <2>1. v = ResolveRuntimePath(KnownDays(days, f), points) /\ v.state \in {"TARGET", "STOP", "TIMEOUT"}
    BY <1>6, <1>20
  <2>2. MarketInv
    BY <1>3
  <2>3. points \in Projections(KnownDays(days, f))
    OBVIOUS
  <2> QED
    BY <1>5, <2>1, <2>2, <2>3, ResolutionIs
<1>8. MarketInv'
  BY <1>3 DEF MarketInv, InSession
<1>9. Touching' = Touching
  BY <1>3 DEF Touching
<1>10. CASE TimedOut(days, f, points, v)
  <2>1. Touching = {} /\ time >= Closes(HorizonDay)
    BY <1>3, <1>7, <1>10, TimeoutIsTrue DEF TimedOut
  <2>2. VerdictInv'
    BY <1>6, <1>10 DEF VerdictInv, TimedOut
  <2>3. VerdictIsTrue'
    BY <1>3, <1>6, <1>9, <1>10, <2>1 DEF VerdictIsTrue, TimedOut
  <2> QED
    BY <1>8, <2>2, <2>3 DEF PathInv
<1>11. ASSUME NEW d \in days \cap OpenDays, DecidedOn(days, f, points, v, d)
       PROVE  PathInv'
  <2>1. CASE v.state \in {"TARGET", "STOP"}
    <3>1. v.day = d /\ v.touch \subseteq DOMAIN market /\ TouchTrue(v, f[d].through)
      <4>1. MarketInv /\ Frozen(days, f, points)
        BY <1>3, <1>7
      <4> QED
        BY <1>11, <2>1, <4>1, TouchIsTrue
    <3>2. d # 0
      BY DayBounds
    <3>3. edge' = f[d].through
      BY <1>6, <1>20, <3>1, <3>2
    <3>4. VerdictInv'
      BY <1>3, <1>6, <2>1, <3>1 DEF VerdictInv
    <3>5. TouchTrue(verdict', edge') /\ verdict'.state # "TIMEOUT"
      BY <1>6, <2>1, <3>1, <3>3
    <3>6. VerdictIsTrue'
      BY <1>3, <1>9, <3>5 DEF VerdictIsTrue, TouchTrue
    <3> QED
      BY <1>8, <3>4, <3>6 DEF PathInv
  <2>2. v.state \in {"OPEN", "UNDECIDED", "BLOCKED", "TARGET", "STOP"}
    <3>1. Points(points)
      BY <1>3, <1>7, FrozenPoints
    <3>2. FirstTouch(points, d).state \in {"UNDECIDED", "BLOCKED", "TARGET", "STOP"}
      BY <1>3, <3>1, FirstTouchIs
    <3> QED
      BY <1>11, <3>2, SessionIs DEF DecidedOn
  <2> QED
    BY <1>6, <1>20, <2>1, <2>2
<1> QED
  BY <1>7, <1>10, <1>11

\* Time changes nothing that a verdict said.
LEMMA ClockInv ==
  ASSUME PathInv, PassTime \/ UNCHANGED pathVars
  PROVE  PathInv'
<1>1. /\ market' = market /\ filledAt' = filledAt /\ verdict' = verdict /\ edge' = edge
      /\ time' = time \/ time' = time + 1
  BY DEF PassTime, pathVars
<1>2. time \in Nat /\ time' \in Nat /\ time <= time'
  BY <1>1 DEF PathInv, MarketInv
<1>3. MarketInv'
  <2>1. \A i \in DOMAIN market : market[i].at <= time'
    BY <1>2, DealIs DEF PathInv, MarketInv
  <2> QED
    BY <1>1, <1>2, <2>1 DEF PathInv, MarketInv, InSession
<1>4. VerdictInv'
  BY <1>1 DEF PathInv, VerdictInv
<1>5. Touching' = Touching
  BY <1>1 DEF Touching
<1>6. VerdictIsTrue'
  <2>1. Closes(HorizonDay) \in Nat
    BY HorizonIs, DayBounds
  <2>2. time >= Closes(HorizonDay) => time' >= Closes(HorizonDay)
    BY <1>2, <2>1
  <2> QED
    BY <1>1, <1>5, <2>2 DEF PathInv, VerdictIsTrue
<1> QED
  BY <1>3, <1>4, <1>6 DEF PathInv

\* The market and the verdict about it agree, whatever the calendar and the bounds.
THEOREM PathInvariant == PathSpec => []PathInv
<1>1. PathInv /\ [PathNext]_pathVars => PathInv'
  BY DealInv, FreezeInv, ClockInv DEF PathNext
<1> QED
  BY <1>1, PathInitInv, PTL DEF PathSpec

\* A verdict of resolve_runtime_path() names the barrier that all the trades that were made
\* touched first, or none until the horizon closed, and no later trade contradicts it.
THEOREM VerdictIsTrueHolds == PathSpec => []VerdictIsTrue
<1>1. PathInv => VerdictIsTrue
  BY DEF PathInv
<1> QED
  BY <1>1, PathInvariant, PTL
=============================================================================
