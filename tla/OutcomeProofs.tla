----------------------------- MODULE OutcomeProofs -----------------------------
(* Proofs about OutcomeFinalization and the collection in it, for any cases, *)
(* ledgers, finalizers and bounds, about BarrierLabels, for any bars, rules, *)
(* labels and splits, and about Backtest, for any costs, orders and funds.  *)
EXTENDS OutcomeFinalization, BarrierLabels, SequenceTheorems, FiniteSums

Fields == {"pc", "case", "ledger", "again", "outcome", "record", "created", "at", "seen"}
Writing == {"link", "commit"}
Cleaning == {"recover", "unlink"}
Closing == {"appended", "audit", "finalize"}
Places == {"idle", "prepare", "append"} \cup Writing \cup Cleaning \cup Closing

\* Case c was prepared, for ledger l with outcome o: once true, it stays true.
Bound(c, l, o) ==
  /\ Has(c, "prepared")
  /\ Fact(c, "prepared").target = l /\ Fact(c, "prepared").outcome = o

LogInv ==
  /\ log \in Seq({log[i] : i \in DOMAIN log})
  /\ \A c \in Cases : Has(c, "prepared") =>
       Fact(c, "prepared").target \in Ledgers /\ Fact(c, "prepared").outcome.case = c

Chained(l) ==
  \A i \in DOMAIN rows[l] :
    /\ rows[l][i].previous = IF i = 1 THEN None ELSE rows[l][i - 1]
    /\ i > 1 => rows[l][i - 1].at <= rows[l][i].at
Newest(l, record) == \A r \in Registered(l) : r.at <= record.at

\* Every row is the outcome its case was prepared with, and its case's only one.
LedgerInv(l) ==
  /\ rows[l] \in Seq(Registered(l))
  /\ \A i \in DOMAIN rows[l] :
       /\ rows[l][i].order = i
       /\ rows[l][i].outcome.case \in Cases
       /\ Bound(rows[l][i].outcome.case, l, rows[l][i].outcome)
  /\ \A i, j \in DOMAIN rows[l] : rows[l][i].outcome.case = rows[l][j].outcome.case => i = j
  /\ Registered(l) \subseteq files[l] /\ Chained(l)

FinalizedInv(c) ==
  Has(c, "finalized") =>
    LET done == Fact(c, "finalized")
    IN /\ Bound(c, done.target, done.outcome)
       /\ done.record \in Registered(done.target) /\ done.record.outcome = done.outcome
       /\ done.audited >= done.record.order

CallInv(p) ==
  LET k == call[p]
  IN /\ DOMAIN k = Fields /\ k.pc \in Places
     /\ k.pc # "idle" => k.case \in Cases /\ k.ledger \in Ledgers
     /\ k.pc \notin {"idle", "prepare"} => Bound(k.case, k.ledger, k.outcome)
     /\ k.pc \in Writing =>
          /\ lock[k.ledger] = p /\ ~SignalTaken(k.ledger, k.outcome)
          /\ k.record = NewRecord(k.ledger, k.outcome, "service", k.record.at)
          /\ Newest(k.ledger, k.record)
     /\ k.pc \in Cleaning \cup Closing => k.record.outcome = k.outcome
     /\ k.pc \in {"prepare", "append", "link"} => ~k.created
     /\ k.pc \in {"commit", "unlink"} => k.created
     /\ k.created /\ k.pc \in {"commit"} \cup Cleaning => k.record \in files[k.ledger]
     /\ k.created /\ k.pc \in Cleaning =>
          k.record \in Registered(k.ledger) \/ ~SignalTaken(k.ledger, k.outcome)
     /\ k.pc = "unlink" => k.record \notin Registered(k.ledger)
     /\ k.pc \in Closing => k.record \in Registered(k.ledger)
     /\ k.pc = "finalize" => k.seen >= k.record.order

\* A file that has no row and that its maker still has to remove.
Stray(p) ==
  /\ call[p].pc \in Cleaning /\ call[p].created
  /\ call[p].record \notin Registered(call[p].ledger)
InHand(p) == call[p].pc \in Writing \/ Stray(p)
\* One call at a time, from its first write to its last.
OneAtATime ==
  \A p, q \in Finalizers : p # q /\ InHand(p) /\ InHand(q) => call[p].ledger # call[q].ledger

NoOrphans ==
  crashes + uncleaned = 0 =>
    \A l \in Ledgers : \A f \in files[l] \ Registered(l) :
      \E p \in Finalizers :
        /\ call[p].ledger = l /\ call[p].record = f /\ call[p].created
        /\ call[p].pc \in {"commit"} \cup Cleaning

CountersInv == crashes \in Nat /\ uncleaned \in Nat
FinalizationInv ==
  /\ LogInv /\ \A c \in Cases : FinalizedInv(c)
  /\ DOMAIN rows = Ledgers /\ DOMAIN files = Ledgers /\ DOMAIN lock = Ledgers
  /\ \A l \in Ledgers : LedgerInv(l)
  /\ DOMAIN call = Finalizers /\ \A p \in Finalizers : CallInv(p)
  /\ OneAtATime /\ NoOrphans /\ CountersInv

-----------------------------------------------------------------------------
(* The log.                                                                 *)

LEMMA AppendEffect ==
  ASSUME LogInv, NEW c, NEW fact, AppendEvent(c, fact)
  PROVE  /\ Len(log) \in Nat /\ DOMAIN log = 1..Len(log)
         /\ DOMAIN log' = 1..(Len(log) + 1)
         /\ \A i \in 1..Len(log) : log'[i] = log[i]
         /\ log'[Len(log) + 1].case = c /\ log'[Len(log) + 1].fact = fact
         /\ log' \in Seq({log'[i] : i \in DOMAIN log'})
<1> DEFINE S == {log[i] : i \in DOMAIN log}
           e == [case |-> c, fact |-> fact, observed |-> clock]
           T == S \cup {e}
<1>1. log \in Seq(T) /\ e \in T
  BY DEF LogInv
<1>2. log' = Append(log, e)
  BY DEF AppendEvent
<1>3. Len(log) \in Nat /\ DOMAIN log = 1..Len(log)
  BY <1>1
<1> HIDE DEF e, T
<1>4. /\ log' \in Seq(T) /\ Len(log') = Len(log) + 1
      /\ \A i \in 1..Len(log) : log'[i] = log[i]
      /\ log'[Len(log) + 1] = e
  BY <1>1, <1>2, AppendProperties
<1>5. DOMAIN log' = 1..(Len(log) + 1)
  BY <1>4
<1>6. log' \in Seq({log'[i] : i \in DOMAIN log'})
  BY <1>4, <1>5
<1> QED
  BY <1>3, <1>4, <1>5, <1>6 DEF e

\* An event of another case or kind says nothing new.
LEMMA OthersStay ==
  ASSUME LogInv, NEW c, NEW fact, AppendEvent(c, fact), NEW d, NEW kind, d # c \/ kind # fact.kind
  PROVE  /\ Has(d, kind)' <=> Has(d, kind)
         /\ Fact(d, kind)' = Fact(d, kind) \/ ~Has(d, kind)
<1>0. /\ Len(log) \in Nat /\ DOMAIN log = 1..Len(log)
      /\ DOMAIN log' = 1..(Len(log) + 1)
      /\ \A i \in 1..Len(log) : log'[i] = log[i]
      /\ log'[Len(log) + 1].case = c /\ log'[Len(log) + 1].fact = fact
  BY AppendEffect
<1> DEFINE Old(i) == i \in DOMAIN log /\ Is(i, d, kind)
           New(i) == i \in DOMAIN log' /\ Is(i, d, kind)'
<1>1. ASSUME NEW i PROVE Old(i) <=> New(i)
  BY <1>0 DEF Is
<1>2. (CHOOSE i \in DOMAIN log : Is(i, d, kind)) = (CHOOSE i \in DOMAIN log' : Is(i, d, kind)')
  BY <1>1, Zenon
<1>3. Has(d, kind)' <=> Has(d, kind)
  BY <1>1 DEF Has
<1>4. ASSUME Has(d, kind) PROVE Fact(d, kind)' = Fact(d, kind)
  <2> DEFINE n == CHOOSE i \in DOMAIN log : Is(i, d, kind)
  <2>1. n \in DOMAIN log
    BY <1>4 DEF Has
  <2>2. log'[n] = log[n]
    BY <2>1, <1>0
  <2> QED
    BY <1>2, <2>2 DEF Fact
<1> QED
  BY <1>3, <1>4

\* The first fact of its kind is that fact from then on.
LEMMA FirstOfKind ==
  ASSUME LogInv, NEW c, NEW fact, AppendEvent(c, fact), ~Has(c, fact.kind)
  PROVE  Has(c, fact.kind)' /\ Fact(c, fact.kind)' = fact
<1>0. /\ Len(log) \in Nat /\ DOMAIN log = 1..Len(log)
      /\ DOMAIN log' = 1..(Len(log) + 1)
      /\ \A i \in 1..Len(log) : log'[i] = log[i]
      /\ log'[Len(log) + 1].case = c /\ log'[Len(log) + 1].fact = fact
  BY AppendEffect
<1> PICK n \in Nat : n = Len(log) + 1
  BY <1>0
<1>1. n \in DOMAIN log' /\ Is(n, c, fact.kind)'
  BY <1>0 DEF Is
<1>2. \A i \in DOMAIN log' : Is(i, c, fact.kind)' => i = n
  BY <1>0 DEF Is, Has
<1>3. n = CHOOSE i \in DOMAIN log' : Is(i, c, fact.kind)'
  BY <1>1, <1>2
<1> QED
  BY <1>0, <1>1, <1>3 DEF Has, Fact

BoundKept == \A c, l, o : Bound(c, l, o) => Bound(c, l, o)'
LogMoves == LogInv' /\ BoundKept /\ \A c \in Cases : FinalizedInv(c)'

LEMMA AppendMoves ==
  ASSUME LogInv, \A c \in Cases : FinalizedInv(c), rows' = rows,
         NEW c \in Cases, NEW fact, AppendEvent(c, fact),
         fact.kind = "prepared" =>
           ~Has(c, "prepared") /\ fact.target \in Ledgers /\ fact.outcome.case = c,
         fact.kind = "finalized" =>
           /\ ~Has(c, "finalized") /\ Bound(c, fact.target, fact.outcome)
           /\ fact.record \in Registered(fact.target) /\ fact.record.outcome = fact.outcome
           /\ fact.audited >= fact.record.order
  PROVE  LogMoves
<1>1. \A d, kind : d # c \/ kind # fact.kind =>
         (Has(d, kind)' <=> Has(d, kind)) /\ (Fact(d, kind)' = Fact(d, kind) \/ ~Has(d, kind))
  BY OthersStay
<1>2. ~Has(c, fact.kind) => Has(c, fact.kind)' /\ Fact(c, fact.kind)' = fact
  BY FirstOfKind
<1>3. ASSUME NEW d, NEW l, NEW o, Bound(d, l, o) PROVE Bound(d, l, o)'
  BY <1>1, <1>3 DEF Bound
<1>4. ASSUME NEW d \in Cases, Has(d, "prepared")'
      PROVE  Fact(d, "prepared")'.target \in Ledgers /\ Fact(d, "prepared")'.outcome.case = d
  <2>1. CASE d = c /\ fact.kind = "prepared"
    BY <1>2, <2>1
  <2>2. CASE d # c \/ fact.kind # "prepared"
    BY <1>1, <1>4, <2>2 DEF LogInv
  <2> QED
    BY <2>1, <2>2
<1>5. \A l : Registered(l)' = Registered(l)
  BY DEF Registered
<1>6. ASSUME NEW d \in Cases PROVE FinalizedInv(d)'
  <2>1. CASE d = c /\ fact.kind = "finalized"
    BY <1>2, <1>3, <1>5, <2>1 DEF FinalizedInv
  <2>2. CASE d # c \/ fact.kind # "finalized"
    <3>1. Has(d, "finalized")' => Has(d, "finalized") /\ Fact(d, "finalized")' = Fact(d, "finalized")
      BY <1>1, <2>2
    <3> QED
      BY <1>3, <1>5, <3>1 DEF FinalizedInv
  <2> QED
    BY <2>1, <2>2
<1>7. LogInv'
  BY <1>4, AppendEffect DEF LogInv
<1> QED
  BY <1>3, <1>6, <1>7 DEF LogMoves, BoundKept

LEMMA LogStays ==
  ASSUME LogInv, \A c \in Cases : FinalizedInv(c), log' = log,
         \A l \in Ledgers : Registered(l) \subseteq Registered(l)'
  PROVE  LogMoves
<1>1. \A c, kind : (Has(c, kind)' <=> Has(c, kind)) /\ Fact(c, kind)' = Fact(c, kind)
  BY DEF Has, Fact, Is
<1>2. BoundKept
  BY <1>1 DEF BoundKept, Bound
<1>3. LogInv'
  BY <1>1 DEF LogInv
<1>4. ASSUME NEW c \in Cases PROVE FinalizedInv(c)'
  <2>1. Has(c, "finalized") => Fact(c, "finalized").target \in Ledgers
    BY DEF FinalizedInv, Bound, LogInv
  <2> QED
    BY <1>1, <1>2, <2>1 DEF FinalizedInv, BoundKept
<1> QED
  BY <1>2, <1>3, <1>4 DEF LogMoves

-----------------------------------------------------------------------------
(* What a step of another call leaves alone.                                *)

LEMMA LedgerStays ==
  ASSUME NEW l \in Ledgers, LedgerInv(l), BoundKept, rows'[l] = rows[l], Registered(l) \subseteq files'[l]
  PROVE  LedgerInv(l)'
<1>1. Registered(l)' = Registered(l)
  BY DEF Registered
<1>2. Chained(l) => Chained(l)'
  BY DEF Chained
<1> QED
  BY <1>1, <1>2 DEF LedgerInv, BoundKept

\* Rows are only added, and a call that has files in hand finds its ledger as it left it.
Undisturbed(p) ==
  /\ call'[p] = call[p]
  /\ \A l \in Ledgers : l = call[p].ledger =>
       /\ Registered(l) \subseteq Registered(l)'
       /\ InHand(p) => rows'[l] = rows[l]
       /\ call[p].pc \in Writing => lock'[l] = lock[l]
       /\ call[p].created /\ call[p].pc \in {"commit"} \cup Cleaning /\ call[p].record \in files[l] =>
            call[p].record \in files'[l]

LEMMA CallStays ==
  ASSUME NEW p \in Finalizers, CallInv(p), BoundKept, Undisturbed(p)
  PROVE  CallInv(p)'
<1> PICK k : k = call[p]
  OBVIOUS
<1>1. call'[p] = k
  BY DEF Undisturbed
<1>2. CASE k.pc = "idle"
  BY <1>1, <1>2 DEF CallInv, Places, Writing, Cleaning, Closing
<1>3. CASE k.pc # "idle"
  <2> PICK l \in Ledgers : l = k.ledger
    BY <1>3 DEF CallInv
  <2>1. Registered(l) \subseteq Registered(l)'
    BY DEF Undisturbed
  <2>2. ASSUME InHand(p)
        PROVE  /\ Registered(l)' = Registered(l) /\ rows'[l] = rows[l]
               /\ SignalTaken(l, k.outcome)' <=> SignalTaken(l, k.outcome)
               /\ Newest(l, k.record)' <=> Newest(l, k.record)
               /\ NewRecord(l, k.outcome, "service", k.record.at)' = NewRecord(l, k.outcome, "service", k.record.at)
    <3>1. rows'[l] = rows[l]
      BY <2>2 DEF Undisturbed
    <3> QED
      BY <3>1 DEF Registered, SignalTaken, NewRecord, LastRecord, Newest
  <2>3. k.pc \in Writing =>
          /\ lock'[l] = p /\ ~SignalTaken(l, k.outcome)'
          /\ k.record = NewRecord(l, k.outcome, "service", k.record.at)'
          /\ Newest(l, k.record)'
    BY <2>2 DEF CallInv, InHand, Undisturbed
  <2>4. k.created /\ k.pc \in {"commit"} \cup Cleaning => k.record \in files'[l]
    BY DEF CallInv, Undisturbed
  <2>5. k.created /\ k.pc \in Cleaning => k.record \in Registered(l)' \/ ~SignalTaken(l, k.outcome)'
    BY <2>1, <2>2 DEF CallInv, InHand, Stray
  <2>6. k.pc = "unlink" => k.record \notin Registered(l)'
    BY <2>2 DEF CallInv, InHand, Stray, Cleaning
  <2>7. k.pc \notin {"idle", "prepare"} => Bound(k.case, l, k.outcome)'
    BY DEF CallInv, BoundKept
  <2> QED
    BY <1>1, <1>3, <2>1, <2>3, <2>4, <2>5, <2>6, <2>7 DEF CallInv
<1> QED
  BY <1>2, <1>3

LEMMA OneStays ==
  ASSUME NEW p \in Finalizers, OneAtATime, \A q \in Finalizers : CallInv(q),
         \A q \in Finalizers : q # p => call'[q] = call[q],
         \A l \in Ledgers : Registered(l) \subseteq Registered(l)',
         InHand(p)' => \A q \in Finalizers : q # p /\ InHand(q) => call[q].ledger # call'[p].ledger
  PROVE  OneAtATime'
<1>1. ASSUME NEW q \in Finalizers, q # p, InHand(q)' PROVE InHand(q) /\ call'[q].ledger = call[q].ledger
  BY <1>1 DEF InHand, Stray, CallInv, Cleaning, Writing
<1> QED
  BY <1>1 DEF OneAtATime

Maker(p, l, f) ==
  /\ call[p].ledger = l /\ call[p].record = f /\ call[p].created
  /\ call[p].pc \in {"commit"} \cup Cleaning

\* A step that leaves the files of a ledger without a row as they are.
LEMMA OrphansStay ==
  ASSUME NEW p \in Finalizers, NoOrphans, CountersInv, CountersInv',
         crashes' + uncleaned' = 0 => crashes + uncleaned = 0,
         \A q \in Finalizers : q # p => call'[q] = call[q],
         \A l \in Ledgers : Registered(l) \subseteq Registered(l)',
         crashes' + uncleaned' = 0 =>
           \A l \in Ledgers : \A f \in files'[l] \ Registered(l)' :
             \/ Maker(p, l, f)'
             \/ f \in files[l] /\ ~Maker(p, l, f)
  PROVE  NoOrphans'
<1> SUFFICES ASSUME crashes' + uncleaned' = 0, NEW l \in Ledgers, NEW f \in files'[l] \ Registered(l)'
             PROVE  \E q \in Finalizers : Maker(q, l, f)'
  BY DEF NoOrphans, Maker
<1>1. CASE f \in files[l] /\ ~Maker(p, l, f)
  <2>1. PICK q \in Finalizers : Maker(q, l, f)
    BY <1>1 DEF NoOrphans, Maker
  <2> QED
    BY <1>1, <2>1 DEF Maker
<1> QED
  BY <1>1

\* A step that changes one call and what is read through no other.
LEMMA MoveInv ==
  ASSUME FinalizationInv, NEW p \in Finalizers, NEW k, Becomes(p, k),
         UNCHANGED ledgerVars, LogMoves, CallInv(p)', CountersInv',
         InHand(p)' => InHand(p) /\ k.ledger = call[p].ledger,
         crashes' + uncleaned' = 0 =>
           /\ crashes + uncleaned = 0
           /\ \A l \in Ledgers : \A f \in files[l] \ Registered(l) : Maker(p, l, f) => Maker(p, l, f)'
  PROVE  FinalizationInv'
<1>1. /\ DOMAIN call' = Finalizers /\ call'[p] = k
      /\ \A q \in Finalizers : q # p => call'[q] = call[q]
  BY DEF Becomes, FinalizationInv
<1>2. rows' = rows /\ files' = files /\ lock' = lock /\ \A l : Registered(l)' = Registered(l)
  BY DEF ledgerVars, Registered
<1>3. \A q \in Finalizers : q # p => CallInv(q)'
  BY <1>1, <1>2, CallStays DEF FinalizationInv, Undisturbed, LogMoves
<1>4. \A l \in Ledgers : LedgerInv(l)'
  BY <1>2, LedgerStays DEF FinalizationInv, LogMoves, LedgerInv
<1>5. OneAtATime'
  <2>1. InHand(p)' => \A q \in Finalizers : q # p /\ InHand(q) => call[q].ledger # call'[p].ledger
    BY <1>1 DEF FinalizationInv, OneAtATime
  <2> QED
    BY <1>1, <1>2, <2>1, OneStays DEF FinalizationInv
<1>6. NoOrphans'
  BY <1>1, <1>2, OrphansStay DEF FinalizationInv
<1> QED
  BY <1>1, <1>2, <1>3, <1>4, <1>5, <1>6 DEF FinalizationInv, LogMoves

-----------------------------------------------------------------------------
(* The steps of a call that write to neither ledger.                        *)

LEMMA WithEffect ==
  ASSUME FinalizationInv, NEW p \in Finalizers, NEW pc, NEW field \in Fields \ {"pc"}, NEW v,
         With(p, pc, field, v)
  PROVE  /\ Becomes(p, call'[p]) /\ DOMAIN call'[p] = Fields
         /\ call'[p].pc = pc /\ call'[p][field] = v
         /\ \A f \in Fields \ {"pc", field} : call'[p][f] = call[p][f]
<1> DEFINE c == [call[p] EXCEPT !.pc = pc]
           d == [c EXCEPT ![field] = v]
<1>1. DOMAIN call[p] = Fields /\ DOMAIN call = Finalizers
  BY DEF FinalizationInv, CallInv
<1>2. DOMAIN c = Fields /\ c.pc = pc /\ \A f \in Fields \ {"pc"} : c[f] = call[p][f]
  BY <1>1 DEF Fields
<1>3. call' = [call EXCEPT ![p] = d]
  BY DEF With, Becomes
<1> HIDE DEF c
<1>4. DOMAIN d = Fields /\ d[field] = v /\ \A f \in Fields \ {field} : d[f] = c[f]
  BY <1>2
<1> HIDE DEF d
<1>5. call'[p] = d
  BY <1>1, <1>3
<1> QED
  BY <1>2, <1>3, <1>4, <1>5 DEF Becomes, Fields

LEMMA GotoEffect ==
  ASSUME FinalizationInv, NEW p \in Finalizers, NEW pc, Goto(p, pc)
  PROVE  /\ Becomes(p, call'[p]) /\ DOMAIN call'[p] = Fields
         /\ call'[p].pc = pc /\ \A f \in Fields \ {"pc"} : call'[p][f] = call[p][f]
<1> DEFINE c == [call[p] EXCEPT !.pc = pc]
<1>1. DOMAIN call[p] = Fields /\ DOMAIN call = Finalizers
  BY DEF FinalizationInv, CallInv
<1>2. DOMAIN c = Fields /\ c.pc = pc /\ \A f \in Fields \ {"pc"} : c[f] = call[p][f]
  BY <1>1 DEF Fields
<1>3. call' = [call EXCEPT ![p] = c]
  BY DEF Goto, Becomes
<1> HIDE DEF c
<1> QED
  BY <1>1, <1>2, <1>3 DEF Becomes

LEMMA RaiseEffect ==
  ASSUME FinalizationInv, NEW p \in Finalizers, Raise(p)
  PROVE  Becomes(p, Idle) /\ call'[p] = Idle /\ CallInv(p)' /\ ~InHand(p)'
<1>1. call'[p] = Idle
  BY DEF Raise, Becomes, FinalizationInv
<1>2. Idle.pc = "idle" /\ DOMAIN Idle = Fields
  BY DEF Idle, Fields
<1> QED
  BY <1>1, <1>2 DEF Raise, CallInv, InHand, Stray, Places, Writing, Cleaning, Closing

\* A call that gives up where it has no file in hand, or that says it may leave one.
LEMMA RaiseInv ==
  ASSUME FinalizationInv, NEW p \in Finalizers, Raise(p), UNCHANGED ledgerVars, LogMoves, CountersInv',
         crashes' + uncleaned' = 0 =>
           crashes + uncleaned = 0 /\ \A l \in Ledgers : \A f \in files[l] \ Registered(l) : ~Maker(p, l, f)
  PROVE  FinalizationInv'
BY RaiseEffect, MoveInv

LEMMA StillMoves ==
  ASSUME FinalizationInv, UNCHANGED <<collectionVars, ledgerVars>>
  PROVE  LogMoves /\ \A l : Registered(l)' = Registered(l)
<1>1. log' = log /\ \A l : Registered(l)' = Registered(l)
  BY DEF collectionVars, ledgerVars, Registered
<1> QED
  BY <1>1, LogStays DEF FinalizationInv

LEMMA BeginInv ==
  ASSUME FinalizationInv, NEW p \in Finalizers, NEW c \in Opened, NEW l \in Ledgers, Begin(p, c, l)
  PROVE  FinalizationInv'
<1> PICK k : /\ Becomes(p, k) /\ DOMAIN k = Fields
             /\ k.pc = IF Has(c, "finalized") THEN "append" ELSE "prepare"
             /\ k.case = c /\ k.ledger = l
             /\ k.outcome = IF Has(c, "finalized") THEN Fact(c, "prepared").outcome ELSE None
             /\ ~k.created
  <2> DEFINE k == [pc |-> IF Has(c, "finalized") THEN "append" ELSE "prepare",
                   case |-> c, ledger |-> l, again |-> Has(c, "finalized"),
                   outcome |-> IF Has(c, "finalized") THEN Fact(c, "prepared").outcome ELSE None,
                   record |-> None, created |-> FALSE, at |-> 0, seen |-> 0]
  <2>1. Becomes(p, k)
    BY DEF Begin
  <2> QED
    BY <2>1 DEF Fields
<1>1. call'[p] = k
  BY DEF Becomes, FinalizationInv
<1>2. c \in Cases
  BY DEF Opened
<1>3. Has(c, "finalized") => Bound(c, l, k.outcome)
  BY <1>2 DEF FinalizationInv, FinalizedInv, Bound, Begin
<1>4. LogMoves /\ UNCHANGED ledgerVars
  BY StillMoves DEF Begin
<1>5. Has(c, "finalized") => Bound(c, l, k.outcome)'
  BY <1>3, <1>4 DEF LogMoves, BoundKept
<1>6. CallInv(p)'
  BY <1>1, <1>2, <1>5 DEF CallInv, Places, Writing, Cleaning, Closing
<1>7. ~InHand(p)'
  BY <1>1 DEF InHand, Stray, Writing, Cleaning
<1>8. \A f : ~Maker(p, l, f) /\ \A m : ~Maker(p, m, f)
  BY DEF Begin, At, Maker, Cleaning
<1>9. CountersInv' /\ crashes' = crashes /\ uncleaned' = uncleaned
  BY DEF Begin, FinalizationInv, CountersInv
<1> QED
  BY <1>4, <1>6, <1>7, <1>8, <1>9, MoveInv

LEMMA PrepareInv ==
  ASSUME FinalizationInv, NEW p \in Finalizers, Prepare(p)
  PROVE  FinalizationInv'
<1> PICK c, l : c = call[p].case /\ l = call[p].ledger
  OBVIOUS
<1>1. call[p].pc = "prepare" /\ c \in Cases /\ l \in Ledgers /\ DOMAIN call[p] = Fields
      /\ ~call[p].created
  BY DEF Prepare, At, FinalizationInv, CallInv
<1>2. /\ UNCHANGED ledgerVars /\ CountersInv' /\ crashes' = crashes /\ uncleaned' = uncleaned
      /\ rows' = rows /\ \A m, f : ~Maker(p, m, f)
  BY <1>1 DEF Prepare, Counters, ledgerVars, FinalizationInv, CountersInv, Maker, Cleaning
<1>3. ASSUME NEW o, With(p, "append", "outcome", o), LogMoves, Bound(c, l, o)'
      PROVE  FinalizationInv'
  <2>1. /\ Becomes(p, call'[p]) /\ DOMAIN call'[p] = Fields
        /\ call'[p].pc = "append" /\ call'[p].outcome = o
        /\ call'[p].case = c /\ call'[p].ledger = l /\ call'[p].created = call[p].created
    <3>1. "outcome" \in Fields \ {"pc"} /\ {"case", "ledger", "created"} \subseteq Fields \ {"pc", "outcome"}
      BY DEF Fields
    <3> QED
      BY <1>3, <3>1, WithEffect
  <2>2. CallInv(p)'
    BY <1>1, <1>3, <2>1 DEF CallInv, Places, Writing, Cleaning, Closing
  <2>3. ~InHand(p)'
    BY <2>1 DEF InHand, Stray, Writing, Cleaning
  <2> QED
    BY <1>2, <1>3, <2>1, <2>2, <2>3, MoveInv
<1>4. CASE /\ Has(c, "prepared") /\ Prepared(c, l) # None
           /\ With(p, "append", "outcome", Prepared(c, l)) /\ UNCHANGED collectionVars
  <2> PICK o : o = Prepared(c, l)
    OBVIOUS
  <2>1. Bound(c, l, o)
    BY <1>4 DEF Prepared, Bound
  <2>2. LogMoves
    BY <1>2, <1>4, StillMoves
  <2> QED
    BY <1>3, <1>4, <2>1, <2>2 DEF LogMoves, BoundKept
<1>5. CASE Raise(p) /\ UNCHANGED collectionVars
  BY <1>2, <1>5, StillMoves, RaiseInv DEF FinalizationInv
<1>6. CASE PrepareFinalization(c, l) /\ With(p, "append", "outcome", Outcome(c, clock))
  <2> PICK o : o = Outcome(c, clock)
    OBVIOUS
  <2> PICK f : f = PreparedFact(c, l)
    OBVIOUS
  <2>1. f.kind = "prepared" /\ f.target = l /\ f.outcome = o /\ o.case = c
    BY DEF PreparedFact, Outcome
  <2>2. AppendEvent(c, f) /\ ~Has(c, "prepared")
    BY <1>6 DEF PrepareFinalization, PreparedAdmissible, State
  <2>3. LogMoves
    BY <1>1, <1>2, <2>1, <2>2, AppendMoves DEF FinalizationInv
  <2>4. Bound(c, l, o)'
    BY <2>1, <2>2, FirstOfKind DEF FinalizationInv, Bound
  <2> QED
    BY <1>3, <1>6, <2>3, <2>4
<1> QED
  BY <1>4, <1>5, <1>6 DEF Prepare

LEMMA RecordFinalizedInv ==
  ASSUME FinalizationInv, NEW p \in Finalizers, RecordFinalized(p)
  PROVE  FinalizationInv'
<1> PICK c : c = call[p].case
  OBVIOUS
<1> PICK f : f = FinalizedFact(p)
  OBVIOUS
<1>1. call[p].pc = "finalize" /\ c \in Cases /\ CallInv(p)
  BY DEF RecordFinalized, At, FinalizationInv, CallInv
<1>2. /\ Raise(p) /\ UNCHANGED ledgerVars /\ CountersInv' /\ crashes' = crashes /\ uncleaned' = uncleaned
      /\ rows' = rows /\ \A m, g : ~Maker(p, m, g)
  BY <1>1 DEF RecordFinalized, Counters, ledgerVars, FinalizationInv, CountersInv, Maker, Cleaning
<1>3. /\ f.kind = "finalized" /\ Bound(c, f.target, f.outcome)
      /\ f.record \in Registered(f.target) /\ f.record.outcome = f.outcome
      /\ f.audited >= f.record.order
  BY <1>1 DEF FinalizedFact, CallInv, Closing
<1>4. LogMoves
  <2>1. CASE UNCHANGED collectionVars
    BY <1>2, <2>1, StillMoves
  <2>2. CASE FinalizedAdmissible(c, f) /\ AppendEvent(c, f)
    <3>1. ~Has(c, "finalized")
      BY <2>2 DEF FinalizedAdmissible, State
    <3> QED
      BY <1>1, <1>2, <1>3, <2>2, <3>1, AppendMoves DEF FinalizationInv
  <2> QED
    BY <2>1, <2>2 DEF RecordFinalized
<1> QED
  BY <1>2, <1>4, RaiseInv DEF FinalizationInv

LEMMA ReadAuditTimeInv ==
  ASSUME FinalizationInv, NEW p \in Finalizers, ReadAuditTime(p)
  PROVE  FinalizationInv'
<1>1. call[p].pc = "appended" /\ CallInv(p)
  BY DEF ReadAuditTime, At, FinalizationInv
<1>2. /\ LogMoves /\ UNCHANGED ledgerVars /\ \A l : Registered(l)' = Registered(l)
      /\ CountersInv' /\ crashes' = crashes /\ uncleaned' = uncleaned
      /\ \A m, g : ~Maker(p, m, g)
  BY <1>1, StillMoves DEF ReadAuditTime, Counters, FinalizationInv, CountersInv, Maker, Cleaning
<1>3. CASE Raise(p)
  BY <1>2, <1>3, RaiseInv DEF FinalizationInv
<1>4. CASE With(p, "audit", "at", clock)
  <2> PICK t : t = clock
    OBVIOUS
  <2>1. /\ Becomes(p, call'[p]) /\ DOMAIN call'[p] = Fields /\ call'[p].pc = "audit"
        /\ call'[p].case = call[p].case /\ call'[p].ledger = call[p].ledger
        /\ call'[p].outcome = call[p].outcome /\ call'[p].record = call[p].record
    <3>1. "at" \in Fields \ {"pc"} /\ {"case", "ledger", "outcome", "record"} \subseteq Fields \ {"pc", "at"}
      BY DEF Fields
    <3> QED
      BY <1>4, <3>1, WithEffect
  <2>2. CallInv(p)'
    BY <1>1, <1>2, <2>1 DEF CallInv, Places, Writing, Cleaning, Closing, LogMoves, BoundKept
  <2>3. ~InHand(p)'
    BY <2>1 DEF InHand, Stray, Writing, Cleaning
  <2> QED
    BY <1>2, <2>1, <2>2, <2>3, MoveInv
<1> QED
  BY <1>3, <1>4 DEF ReadAuditTime

LEMMA AuditInv ==
  ASSUME FinalizationInv, NEW p \in Finalizers, Audit(p)
  PROVE  FinalizationInv'
<1> PICK l : l = call[p].ledger
  OBVIOUS
<1>1. call[p].pc = "audit" /\ CallInv(p) /\ l \in Ledgers
  BY DEF Audit, At, FinalizationInv, CallInv
<1>2. /\ LogMoves /\ UNCHANGED ledgerVars /\ \A m : Registered(m)' = Registered(m)
      /\ CountersInv' /\ crashes' = crashes /\ uncleaned' = uncleaned
      /\ \A m, g : ~Maker(p, m, g)
  BY <1>1, StillMoves DEF Audit, Counters, FinalizationInv, CountersInv, Maker, Cleaning
<1>3. CASE Raise(p)
  BY <1>2, <1>3, RaiseInv DEF FinalizationInv
<1>4. CASE With(p, "finalize", "seen", Len(rows[l]))
  <2> PICK n : n = Len(rows[l])
    OBVIOUS
  <2>1. /\ Becomes(p, call'[p]) /\ DOMAIN call'[p] = Fields
        /\ call'[p].pc = "finalize" /\ call'[p].seen = n
        /\ call'[p].case = call[p].case /\ call'[p].ledger = l
        /\ call'[p].outcome = call[p].outcome /\ call'[p].record = call[p].record
    <3>1. "seen" \in Fields \ {"pc"} /\ {"case", "ledger", "outcome", "record"} \subseteq Fields \ {"pc", "seen"}
      BY DEF Fields
    <3> QED
      BY <1>4, <3>1, WithEffect
  <2>2. n >= call[p].record.order
    <3>1. PICK i \in DOMAIN rows[l] : rows[l][i] = call[p].record
      BY <1>1 DEF CallInv, Closing, Registered
    <3>2. DOMAIN rows[l] = 1..n /\ n \in Nat /\ rows[l][i].order = i
      BY <1>1 DEF FinalizationInv, LedgerInv
    <3> QED
      BY <3>1, <3>2
  <2>3. CallInv(p)'
    BY <1>1, <1>2, <2>1, <2>2 DEF CallInv, Places, Writing, Cleaning, Closing, LogMoves, BoundKept
  <2>4. ~InHand(p)'
    BY <2>1 DEF InHand, Stray, Writing, Cleaning
  <2> QED
    BY <1>2, <2>1, <2>3, <2>4, MoveInv
<1> QED
  BY <1>3, <1>4 DEF Audit

-----------------------------------------------------------------------------
(* The steps of a call that write to its ledger.                            *)

\* Everything but the call's own invariant, of a step that adds files or rows and keeps
\* the rest, or takes away a file without a row.
LEMMA WriteInv ==
  ASSUME FinalizationInv, NEW p \in Finalizers, NEW k, Becomes(p, k), NEW l \in Ledgers,
         l = call[p].ledger, call[p].pc # "idle",
         DOMAIN rows' = Ledgers, DOMAIN files' = Ledgers, DOMAIN lock' = Ledgers, log' = log,
         \A m \in Ledgers : m # l => rows'[m] = rows[m] /\ files'[m] = files[m] /\ lock'[m] = lock[m],
         Registered(l) \subseteq Registered(l)', LedgerInv(l)', CallInv(p)', CountersInv',
         \A q \in Finalizers : q # p /\ call[q].ledger = l => Undisturbed(q),
         InHand(p)' => /\ k.ledger = l
                       /\ \A q \in Finalizers : q # p /\ InHand(q) => call[q].ledger # l,
         crashes' + uncleaned' = 0 =>
           /\ crashes + uncleaned = 0
           /\ \A f \in files'[l] \ Registered(l)' :
                Maker(p, l, f)' \/ (f \in files[l] /\ ~Maker(p, l, f))
  PROVE  FinalizationInv'
<1>1. /\ DOMAIN call' = Finalizers /\ call'[p] = k
      /\ \A q \in Finalizers : q # p => call'[q] = call[q]
  BY DEF Becomes, FinalizationInv
<1>2. \A m \in Ledgers : m # l => Registered(m)' = Registered(m)
  BY DEF Registered
<1>3. \A m \in Ledgers : Registered(m) \subseteq Registered(m)'
  BY <1>2
<1>4. LogMoves
  BY <1>3, LogStays DEF FinalizationInv
<1>5. ASSUME NEW q \in Finalizers, q # p PROVE CallInv(q)'
  <2>1. call[q].ledger # l => Undisturbed(q)
    BY <1>1, <1>2, <1>5 DEF Undisturbed
  <2> QED
    BY <1>4, <1>5, <2>1, CallStays DEF FinalizationInv, LogMoves
<1>6. ASSUME NEW m \in Ledgers, m # l PROVE LedgerInv(m)'
  BY <1>4, <1>6, LedgerStays DEF FinalizationInv, LogMoves, LedgerInv
<1>7. OneAtATime'
  BY <1>1, <1>3, OneStays DEF FinalizationInv
<1>8. NoOrphans'
  <2>1. crashes' + uncleaned' = 0 =>
          \A m \in Ledgers : \A f \in files'[m] \ Registered(m)' :
            Maker(p, m, f)' \/ (f \in files[m] /\ ~Maker(p, m, f))
    BY DEF Maker
  <2> QED
    BY <1>1, <1>3, <2>1, OrphansStay DEF FinalizationInv
<1> QED
  BY <1>1, <1>4, <1>5, <1>6, <1>7, <1>8 DEF FinalizationInv, LogMoves

\* What a call that holds the lock of its ledger has in hand.
LEMMA WriterHas ==
  ASSUME FinalizationInv, NEW p \in Finalizers, call[p].pc \in Writing,
         NEW l, l = call[p].ledger, NEW o, o = call[p].outcome, NEW r, r = call[p].record
  PROVE  /\ l \in Ledgers /\ DOMAIN call[p] = Fields /\ InHand(p)
         /\ Bound(o.case, l, o) /\ o.case \in Cases /\ call[p].case = o.case
         /\ ~SignalTaken(l, o) /\ r.order = Len(rows[l]) + 1 /\ r.outcome = o /\ lock[l] = p
         /\ r.previous = LastRecord(l) /\ Newest(l, r)
         /\ \A q \in Finalizers : q # p /\ call[q].ledger = l => ~InHand(q)
<1>1. CallInv(p) /\ l \in Ledgers /\ DOMAIN call[p] = Fields /\ InHand(p)
  BY DEF FinalizationInv, CallInv, InHand, Writing
<1>2. Bound(call[p].case, l, o) /\ call[p].case \in Cases
  BY <1>1 DEF CallInv, Writing
<1>3. call[p].case = o.case
  BY <1>2 DEF FinalizationInv, LogInv, Bound
<1>4. r.order = Len(rows[l]) + 1 /\ r.outcome = o /\ r.previous = LastRecord(l)
  BY <1>1 DEF CallInv, NewRecord
<1> QED
  BY <1>1, <1>2, <1>3, <1>4 DEF CallInv, FinalizationInv, OneAtATime

LEMMA BeginAppendInv ==
  ASSUME FinalizationInv, NEW p \in Finalizers, call[p].pc = "append",
         NEW l, l = call[p].ledger, NEW o, o = call[p].outcome, NEW r, r = NewRecord(l, o, "service", clock),
         Free(l), Valid(l, clock), ~SignalTaken(l, o), BeginAppend(l, p), With(p, "link", "record", r),
         UNCHANGED <<collectionVars, Counters>>
  PROVE  FinalizationInv'
<1>1. l \in Ledgers /\ CallInv(p)
  BY DEF FinalizationInv, CallInv
<1>2. /\ rows' = rows /\ files' = files /\ lock'[l] = p /\ DOMAIN lock' = Ledgers
      /\ \A m \in Ledgers : m # l => lock'[m] = lock[m]
      /\ \A m : Registered(m)' = Registered(m)
  BY <1>1 DEF BeginAppend, FinalizationInv, Registered
<1>3. /\ Becomes(p, call'[p]) /\ DOMAIN call'[p] = Fields
      /\ call'[p].pc = "link" /\ call'[p].record = r
      /\ call'[p].case = call[p].case /\ call'[p].ledger = l
      /\ call'[p].outcome = o /\ call'[p].created = call[p].created
  <2>1. "record" \in Fields \ {"pc"} /\ {"case", "ledger", "outcome", "created"} \subseteq Fields \ {"pc", "record"}
    BY DEF Fields
  <2> QED
    BY <2>1, WithEffect
<1>4. LogMoves
  BY <1>2, LogStays DEF FinalizationInv, collectionVars
<1>5. ASSUME NEW q \in Finalizers, call[q].ledger = l PROVE ~InHand(q)
  <2>1. call[q].pc \notin Writing
    BY <1>1, <1>5, FinalizationAssumption DEF Free, FinalizationInv, CallInv
  <2>2. ~Stray(q)
    BY <1>5 DEF Stray, Valid, FinalizationInv, CallInv
  <2> QED
    BY <2>1, <2>2 DEF InHand
<1>6. r = NewRecord(l, o, "service", r.at) /\ NewRecord(l, o, "service", r.at)' = NewRecord(l, o, "service", r.at)
  BY <1>2 DEF NewRecord, LastRecord
<1>7. Newest(l, r)' /\ (SignalTaken(l, o)' <=> SignalTaken(l, o))
  <2>1. Newest(l, r)
    BY DEF Newest, Registered, Valid, NewRecord
  <2> QED
    BY <1>2, <2>1 DEF SignalTaken, Newest
<1>8. CallInv(p)'
  <2> PICK c : c = call[p].case
    OBVIOUS
  <2>1. Bound(c, l, o)'
    BY <1>1, <1>4, SMTT(60) DEF CallInv, LogMoves, BoundKept
  <2> QED
    BY <1>1, <1>2, <1>3, <1>6, <1>7, <2>1 DEF CallInv, Places, Writing, Cleaning, Closing
<1>9. LedgerInv(l)'
  BY <1>1, <1>2, <1>4, LedgerStays DEF LogMoves, FinalizationInv, LedgerInv
<1>10. \A q \in Finalizers : q # p /\ call[q].ledger = l => Undisturbed(q)
  BY <1>2, <1>3, <1>5 DEF Undisturbed, Becomes, FinalizationInv, InHand
<1>11. CountersInv' /\ crashes' = crashes /\ uncleaned' = uncleaned /\ log' = log
  BY DEF Counters, FinalizationInv, CountersInv, collectionVars
<1>12. \A f \in files'[l] \ Registered(l)' : f \in files[l] /\ ~Maker(p, l, f)
  BY <1>2 DEF Maker, Cleaning
<1> QED
  BY <1>1, <1>2, <1>3, <1>5, <1>8, <1>9, <1>10, <1>11, <1>12, WriteInv DEF FinalizationInv

LEMMA OpenAppendInv ==
  ASSUME FinalizationInv, NEW p \in Finalizers, OpenAppend(p)
  PROVE  FinalizationInv'
<1> PICK l, o : l = call[p].ledger /\ o = call[p].outcome
  OBVIOUS
<1>1. call[p].pc = "append" /\ CallInv(p) /\ l \in Ledgers
  BY DEF OpenAppend, At, FinalizationInv, CallInv
<1>2. /\ UNCHANGED <<collectionVars, Counters>> /\ CountersInv' /\ crashes' = crashes /\ uncleaned' = uncleaned
      /\ \A m, g : ~Maker(p, m, g)
  BY <1>1 DEF OpenAppend, Counters, FinalizationInv, CountersInv, Maker, Cleaning
<1>3. CASE Raise(p) /\ UNCHANGED ledgerVars
  BY <1>2, <1>3, RaiseInv, StillMoves DEF FinalizationInv
<1>4. ASSUME NEW r \in RowsOf(l, o), Appended(p, r), UNCHANGED ledgerVars PROVE FinalizationInv'
  <2>1. LogMoves /\ \A m : Registered(m)' = Registered(m)
    BY <1>2, <1>4, StillMoves
  <2>2. /\ Becomes(p, call'[p]) /\ DOMAIN call'[p] = Fields
        /\ call'[p].pc = "appended" /\ call'[p].record = r
        /\ call'[p].case = call[p].case /\ call'[p].ledger = l /\ call'[p].outcome = o
    <3>1. "record" \in Fields \ {"pc"} /\ {"case", "ledger", "outcome"} \subseteq Fields \ {"pc", "record"}
      BY DEF Fields
    <3> QED
      BY <1>4, <3>1, WithEffect DEF Appended
  <2> PICK c : c = call[p].case
    OBVIOUS
  <2>3. Bound(c, l, o)'
    BY <1>1, <2>1 DEF CallInv, LogMoves, BoundKept
  <2>4. CallInv(p)'
    BY <1>1, <1>4, <2>1, <2>2, <2>3 DEF CallInv, RowsOf, Places, Writing, Cleaning, Closing
  <2>5. ~InHand(p)'
    BY <2>2 DEF InHand, Stray, Writing, Cleaning
  <2> QED
    BY <1>2, <1>4, <2>1, <2>2, <2>4, <2>5, MoveInv
<1>5. CASE /\ Valid(l, clock) /\ Admissible(l, o, clock) /\ Free(l) /\ BeginAppend(l, p)
           /\ With(p, "link", "record", NewRecord(l, o, "service", clock))
  <2> PICK r : r = NewRecord(l, o, "service", clock)
    OBVIOUS
  <2> QED
    BY <1>1, <1>2, <1>5, BeginAppendInv DEF Admissible
<1> QED
  BY <1>3, <1>4, <1>5 DEF OpenAppend

LEMMA LinkInv ==
  ASSUME FinalizationInv, NEW p \in Finalizers, Link(p)
  PROVE  FinalizationInv'
<1> PICK c, l, o, r : c = call[p].case /\ l = call[p].ledger /\ o = call[p].outcome /\ r = call[p].record
  OBVIOUS
<1>1. /\ call[p].pc = "link" /\ CallInv(p) /\ ~call[p].created
      /\ l \in Ledgers /\ c \in Cases /\ Bound(c, l, o)
  BY DEF Link, At, FinalizationInv, CallInv, Writing
<1>2. /\ InHand(p) /\ ~SignalTaken(l, o) /\ r.outcome = o /\ lock[l] = p
      /\ \A q \in Finalizers : q # p /\ call[q].ledger = l => ~InHand(q)
  BY <1>1, WriterHas DEF Writing
<1>3. /\ CountersInv' /\ crashes' = crashes /\ uncleaned' = uncleaned /\ log' = log /\ rows' = rows
      /\ \A m : Registered(m)' = Registered(m)
      /\ \A m, f : ~Maker(p, m, f)
  <2>1. crashes' = crashes /\ uncleaned' = uncleaned /\ log' = log /\ rows' = rows
    BY DEF Link, Counted, collectionVars, LinkFile, Rollback
  <2>2. \A m : Registered(m)' = Registered(m)
    BY <2>1 DEF Registered
  <2> QED
    BY <1>1, <2>1, <2>2 DEF FinalizationInv, CountersInv, Maker, Cleaning
<1>4. LogMoves
  BY <1>3, LogStays DEF FinalizationInv
<1>5. Bound(c, l, o)'
  BY <1>1, <1>4 DEF LogMoves, BoundKept
<1>6. CASE LinkFile(l, r) /\ With(p, "commit", "created", TRUE)
  <2>1. /\ lock' = lock /\ DOMAIN files' = Ledgers /\ files'[l] = files[l] \cup {r}
        /\ \A m \in Ledgers : m # l => files'[m] = files[m]
    BY <1>1, <1>6 DEF LinkFile, FinalizationInv
  <2>2. /\ Becomes(p, call'[p]) /\ DOMAIN call'[p] = Fields
        /\ call'[p].pc = "commit" /\ call'[p].created
        /\ call'[p].case = c /\ call'[p].ledger = l /\ call'[p].outcome = o /\ call'[p].record = r
    <3>1. "created" \in Fields \ {"pc"}
          /\ {"case", "ledger", "outcome", "record"} \subseteq Fields \ {"pc", "created"}
      BY DEF Fields
    <3>0. PICK v : v = TRUE
      OBVIOUS
    <3>2. With(p, "commit", "created", v)
      BY <1>6, <3>0
    <3>3. /\ Becomes(p, call'[p]) /\ DOMAIN call'[p] = Fields
          /\ call'[p].pc = "commit" /\ call'[p].created = v
          /\ \A f \in Fields \ {"pc", "created"} : call'[p][f] = call[p][f]
      BY <3>1, <3>2, WithEffect
    <3> QED
      BY <3>0, <3>1, <3>3
  <2>3. /\ ~SignalTaken(l, o)' /\ r = NewRecord(l, o, "service", r.at)' /\ Newest(l, r)'
    BY <1>1, <1>2, <1>3 DEF CallInv, Writing, SignalTaken, NewRecord, LastRecord, Newest
  <2>4. CallInv(p)'
    BY <1>1, <1>2, <1>5, <2>1, <2>2, <2>3 DEF CallInv, Places, Writing, Cleaning, Closing
  <2>5. LedgerInv(l)'
    BY <1>1, <1>3, <1>4, <2>1, LedgerStays DEF FinalizationInv, LogMoves, LedgerInv
  <2>6. \A q \in Finalizers : q # p /\ call[q].ledger = l => Undisturbed(q)
    BY <1>3, <2>1, <2>2 DEF Undisturbed, Becomes, FinalizationInv
  <2>7. \A f \in files'[l] \ Registered(l)' : Maker(p, l, f)' \/ (f \in files[l] /\ ~Maker(p, l, f))
    BY <1>3, <2>1, <2>2 DEF Maker
  <2> QED
    BY <1>1, <1>2, <1>3, <2>1, <2>2, <2>4, <2>5, <2>6, <2>7, WriteInv DEF FinalizationInv
<1>7. CASE Rollback(l) /\ Goto(p, "recover")
  <2>1. /\ files' = files /\ DOMAIN lock' = Ledgers
        /\ \A m \in Ledgers : m # l => lock'[m] = lock[m]
    BY <1>1, <1>7 DEF Rollback, FinalizationInv
  <2>2. /\ Becomes(p, call'[p]) /\ DOMAIN call'[p] = Fields
        /\ call'[p].pc = "recover" /\ call'[p].created = call[p].created
        /\ call'[p].case = c /\ call'[p].ledger = l /\ call'[p].outcome = o /\ call'[p].record = r
    <3>1. {"case", "ledger", "outcome", "record", "created"} \subseteq Fields \ {"pc"}
      BY DEF Fields
    <3> QED
      BY <1>7, <3>1, GotoEffect
  <2>3. CallInv(p)'
    BY <1>1, <1>2, <1>5, <2>2 DEF CallInv, Places, Writing, Cleaning, Closing
  <2>4. ~InHand(p)'
    BY <1>1, <2>2 DEF InHand, Stray, Writing
  <2>5. LedgerInv(l)'
    BY <1>1, <1>3, <1>4, <2>1, LedgerStays DEF FinalizationInv, LogMoves, LedgerInv
  <2>6. \A q \in Finalizers : q # p /\ call[q].ledger = l => Undisturbed(q)
    BY <1>2, <1>3, <2>1, <2>2 DEF Undisturbed, Becomes, FinalizationInv, InHand
  <2> QED
    BY <1>1, <1>3, <2>1, <2>2, <2>3, <2>4, <2>5, <2>6, WriteInv DEF FinalizationInv
<1> QED
  BY <1>6, <1>7 DEF Link

LEMMA LinkBreaksInv ==
  ASSUME FinalizationInv, NEW p \in Finalizers, LinkBreaks(p)
  PROVE  FinalizationInv'
<1> PICK c, l, o, r : c = call[p].case /\ l = call[p].ledger /\ o = call[p].outcome /\ r = call[p].record
  OBVIOUS
<1>1. /\ call[p].pc = "link" /\ CallInv(p) /\ ~call[p].created
      /\ l \in Ledgers /\ c \in Cases /\ Bound(c, l, o)
  BY DEF LinkBreaks, At, FinalizationInv, CallInv, Writing
<1>2. /\ r.outcome = o /\ lock[l] = p
      /\ \A q \in Finalizers : q # p /\ call[q].ledger = l => ~InHand(q)
  BY <1>1, WriterHas DEF Writing
<1>3. PICK left : Leaves(l, p, left)
  BY DEF LinkBreaks
<1>4. Goto(p, "recover") /\ log' = log /\ crashes' = crashes /\ uncleaned' = uncleaned + 1
  BY DEF LinkBreaks, collectionVars
<1>5. /\ rows' = rows /\ DOMAIN files' = Ledgers /\ DOMAIN lock' = Ledgers /\ files[l] \subseteq files'[l]
      /\ \A m \in Ledgers : m # l => files'[m] = files[m] /\ lock'[m] = lock[m]
  BY <1>1, <1>3 DEF Leaves, FinalizationInv
<1>6. \A m : Registered(m)' = Registered(m)
  BY <1>5 DEF Registered
<1>7. LogMoves
  BY <1>4, <1>6, LogStays DEF FinalizationInv
<1>8. Bound(c, l, o)'
  BY <1>1, <1>7 DEF LogMoves, BoundKept
<1>9. /\ Becomes(p, call'[p]) /\ DOMAIN call'[p] = Fields
      /\ call'[p].pc = "recover" /\ ~call'[p].created
      /\ call'[p].case = c /\ call'[p].ledger = l /\ call'[p].outcome = o /\ call'[p].record = r
  <2>1. {"case", "ledger", "outcome", "record", "created"} \subseteq Fields \ {"pc"}
    BY DEF Fields
  <2> QED
    BY <1>1, <1>4, <2>1, GotoEffect
<1>10. CallInv(p)'
  BY <1>1, <1>2, <1>8, <1>9 DEF CallInv, Places, Writing, Cleaning, Closing
<1>11. ~InHand(p)'
  BY <1>9 DEF InHand, Stray, Writing
<1>12. LedgerInv(l)'
  <2>1. Registered(l) \subseteq files'[l]
    BY <1>1, <1>5 DEF FinalizationInv, LedgerInv
  <2> QED
    BY <1>1, <1>5, <1>7, <2>1, LedgerStays DEF FinalizationInv, LogMoves
<1>13. ASSUME NEW q \in Finalizers, q # p, call[q].ledger = l PROVE Undisturbed(q)
  <2>1. call'[q] = call[q] /\ ~InHand(q)
    BY <1>2, <1>9, <1>13 DEF Becomes, FinalizationInv
  <2> QED
    BY <1>5, <1>6, <2>1 DEF Undisturbed, InHand
<1>14. CountersInv' /\ crashes' + uncleaned' # 0
  BY <1>4 DEF FinalizationInv, CountersInv
<1> QED
  BY <1>1, <1>4, <1>5, <1>6, <1>9, <1>10, <1>11, <1>12, <1>13, <1>14, WriteInv DEF FinalizationInv

LEMMA RowAppended ==
  ASSUME FinalizationInv, NEW l \in Ledgers, NEW r, CommitRow(l, r)
  PROVE  /\ DOMAIN rows' = Ledgers /\ DOMAIN lock' = Ledgers /\ files' = files
         /\ \A m \in Ledgers : m # l => rows'[m] = rows[m] /\ lock'[m] = lock[m]
         /\ Len(rows[l]) \in Nat /\ DOMAIN rows[l] = 1..Len(rows[l])
         /\ DOMAIN rows'[l] = 1..(Len(rows[l]) + 1)
         /\ \A i \in 1..Len(rows[l]) : rows'[l][i] = rows[l][i]
         /\ rows'[l][Len(rows[l]) + 1] = r
         /\ Registered(l)' = Registered(l) \cup {r} /\ rows'[l] \in Seq(Registered(l)')
<1> DEFINE s == rows[l]
           T == Registered(l) \cup {r}
<1>1. s \in Seq(T) /\ r \in T
  BY DEF FinalizationInv, LedgerInv
<1>2. Len(s) \in Nat /\ DOMAIN s = 1..Len(s)
  BY <1>1
<1>3. rows'[l] = Append(s, r)
  BY DEF CommitRow, FinalizationInv
<1> HIDE DEF s
<1>4. /\ Append(s, r) \in Seq(T) /\ Len(Append(s, r)) = Len(s) + 1
      /\ \A i \in 1..Len(s) : Append(s, r)[i] = s[i]
      /\ Append(s, r)[Len(s) + 1] = r
  BY <1>1, AppendProperties
<1>5. DOMAIN rows'[l] = 1..(Len(s) + 1)
  BY <1>3, <1>4
<1>6. Registered(l)' = {s[i] : i \in 1..Len(s)} \cup {r}
  BY <1>2, <1>3, <1>4, <1>5 DEF Registered
<1>7. Registered(l)' = T
  BY <1>2, <1>6 DEF Registered, s
<1> QED
  BY <1>2, <1>3, <1>4, <1>5, <1>7 DEF CommitRow, FinalizationInv, s

\* The row of a call in hand keeps its ledger.
LEMMA CommitKeeps ==
  ASSUME FinalizationInv, NEW p \in Finalizers, call[p].pc = "commit",
         NEW l, l = call[p].ledger, NEW r, r = call[p].record, CommitRow(l, r), log' = log
  PROVE  LedgerInv(l)' /\ LogMoves
<1> PICK o : o = call[p].outcome
  OBVIOUS
<1>1. /\ l \in Ledgers /\ Bound(o.case, l, o) /\ o.case \in Cases
      /\ ~SignalTaken(l, o) /\ r.order = Len(rows[l]) + 1 /\ r.outcome = o
      /\ r.previous = LastRecord(l) /\ Newest(l, r)
  BY WriterHas DEF Writing
<1>2. r \in files[l] /\ LedgerInv(l)
  BY <1>1 DEF FinalizationInv, CallInv
<1> PICK n : n = Len(rows[l])
  OBVIOUS
<1>3. /\ n \in Nat /\ DOMAIN rows[l] = 1..n /\ DOMAIN rows'[l] = 1..(n + 1) /\ files' = files
      /\ \A i \in 1..n : rows'[l][i] = rows[l][i]
      /\ rows'[l][n + 1] = r
      /\ Registered(l)' = Registered(l) \cup {r} /\ rows'[l] \in Seq(Registered(l)')
      /\ \A m \in Ledgers : m # l => rows'[m] = rows[m]
  BY <1>1, RowAppended
<1>4. \A m \in Ledgers : Registered(m) \subseteq Registered(m)'
  <2>1. \A m \in Ledgers : m # l => Registered(m)' = Registered(m)
    BY <1>3, SMTT(60) DEF Registered
  <2> QED
    BY <1>3, <2>1
<1>5. LogMoves
  BY <1>4, LogStays DEF FinalizationInv
<1>6. ASSUME NEW i \in DOMAIN rows'[l]
      PROVE  /\ rows'[l][i].order = i /\ rows'[l][i].outcome.case \in Cases
             /\ Bound(rows[l][i].outcome.case, l, rows[l][i].outcome)'
  <2>0. /\ i \in 1..n \/ i = n + 1
        /\ \A c, d : Bound(c, l, d) => Bound(c, l, d)'
    <3>1. i \in DOMAIN rows'[l]
      OBVIOUS
    <3>2. i \in 1..n \/ i = n + 1
      BY ONLY <1>3, <3>1
    <3>3. BoundKept
      BY ONLY <1>5 DEF LogMoves
    <3> QED
      BY ONLY <3>2, <3>3 DEF BoundKept
  <2>1. CASE i = n + 1
    <3>1. rows'[l][i] = r /\ r.order = i /\ r.outcome = o /\ o.case \in Cases /\ Bound(o.case, l, o)
      BY ONLY <1>1, <1>3, <2>1, n = Len(rows[l])
    <3>2. Bound(o.case, l, o)'
      BY ONLY <2>0, <3>1
    <3> QED
      BY ONLY <3>1, <3>2
  <2>2. CASE i \in 1..n
    <3>1. PICK c, d : d = rows[l][i].outcome /\ c = d.case
      BY Zenon
    <3>2. Bound(c, l, d) /\ c \in Cases /\ rows[l][i].order = i
      BY ONLY <1>2, <1>3, <2>2, <3>1 DEF LedgerInv
    <3>3. Bound(c, l, d)'
      BY ONLY <2>0, <3>2
    <3>4. rows'[l][i] = rows[l][i]
      BY ONLY <1>3, <2>2, Zenon
    <3> QED
      BY ONLY <3>1, <3>2, <3>3, <3>4
  <2> QED
    BY ONLY <2>0, <2>1, <2>2
<1>7. ASSUME NEW i \in DOMAIN rows'[l], NEW j \in DOMAIN rows'[l],
             rows'[l][i].outcome.case = rows'[l][j].outcome.case
      PROVE  i = j
  <2>1. \A h \in 1..n : rows[l][h].outcome.case # o.case
    BY <1>1, <1>3 DEF SignalTaken, Registered
  <2>2. CASE i \in 1..n /\ j \in 1..n
    <3>1. \A g, h \in 1..n : rows[l][g].outcome.case = rows[l][h].outcome.case => g = h
      BY <1>2, <1>3 DEF LedgerInv
    <3>2. rows'[l][i] = rows[l][i] /\ rows'[l][j] = rows[l][j]
      BY <1>3, <2>2
    <3>3. rows[l][i].outcome.case = rows[l][j].outcome.case
      BY <1>7, <3>2
    <3> QED
      BY ONLY <2>2, <3>1, <3>3
  <2>3. \A h \in 1..n : rows'[l][h].outcome.case # rows'[l][n + 1].outcome.case
    BY <1>1, <1>3, <2>1, ZenonT(60)
  <2>4. i \in 1..n \/ i = n + 1
    BY <1>3, <1>7, SMTT(60)
  <2>5. j \in 1..n \/ j = n + 1
    BY <1>3, <1>7, SMTT(60)
  <2> QED
    BY <1>7, <2>2, <2>3, <2>4, <2>5
<1>8. Registered(l)' \subseteq files'[l]
  BY <1>2, <1>3 DEF LedgerInv
<1>9. Chained(l)'
  <2> SUFFICES ASSUME NEW i \in DOMAIN rows'[l]
               PROVE  /\ rows'[l][i].previous = IF i = 1 THEN None ELSE rows'[l][i - 1]
                      /\ i > 1 => rows'[l][i - 1].at <= rows'[l][i].at
    BY DEF Chained
  <2>1. CASE i \in 1..n
    <3>1. rows'[l][i] = rows[l][i] /\ i \in DOMAIN rows[l]
      BY <1>3, <2>1, SMTT(60)
    <3>2. /\ rows[l][i].previous = IF i = 1 THEN None ELSE rows[l][i - 1]
          /\ i > 1 => rows[l][i - 1].at <= rows[l][i].at
      BY <1>2, <3>1 DEF LedgerInv, Chained
    <3>3. CASE i = 1
      BY <3>1, <3>2, <3>3
    <3>4. CASE i # 1
      <4>1. i - 1 \in 1..n
        BY <1>3, <2>1, <3>4
      <4>2. rows'[l][i - 1] = rows[l][i - 1]
        BY <1>3, <4>1
      <4> QED
        BY <3>1, <3>2, <3>4, <4>2
    <3> QED
      BY <3>3, <3>4
  <2>2. CASE i = n + 1 /\ n = 0
    <3>1. rows[l] \in Seq(Registered(l)) /\ Len(rows[l]) = 0
      BY <1>2, <2>2 DEF LedgerInv
    <3>2. rows[l] = <<>>
      BY <3>1, EmptySeq
    <3> QED
      BY <1>1, <1>3, <2>2, <3>2 DEF LastRecord
  <2>3. CASE i = n + 1 /\ n # 0
    <3>1. rows[l] # <<>> /\ n \in 1..n /\ i - 1 = n /\ i # 1
      BY <1>3, <2>3
    <3>2. r.previous = rows[l][n] /\ rows[l][n].at <= r.at
      BY <1>1, <1>3, <3>1 DEF LastRecord, Newest, Registered
    <3> QED
      BY <1>3, <2>3, <3>1, <3>2, ZenonT(60)
  <2> QED
    BY <1>3, <2>1, <2>2, <2>3
<1> QED
  BY <1>3, <1>5, <1>6, <1>7, <1>8, <1>9 DEF LedgerInv

LEMMA CommitInv ==
  ASSUME FinalizationInv, NEW p \in Finalizers, Commit(p)
  PROVE  FinalizationInv'
<1> PICK c, l, o, r : c = call[p].case /\ l = call[p].ledger /\ o = call[p].outcome /\ r = call[p].record
  OBVIOUS
<1>1. /\ call[p].pc = "commit" /\ CallInv(p) /\ call[p].created /\ r \in files[l]
      /\ l \in Ledgers /\ c \in Cases /\ Bound(c, l, o)
  BY DEF Commit, At, FinalizationInv, CallInv, Writing
<1>2. /\ InHand(p) /\ ~SignalTaken(l, o) /\ r.outcome = o /\ lock[l] = p
      /\ \A q \in Finalizers : q # p /\ call[q].ledger = l => ~InHand(q)
  BY <1>1, WriterHas DEF Writing
<1>3. CountersInv' /\ crashes' = crashes /\ uncleaned' = uncleaned /\ log' = log
  BY DEF Commit, Counted, FinalizationInv, CountersInv, collectionVars
<1>4. ASSUME NEW place \in {"appended", "recover"}, Goto(p, place)
      PROVE  /\ Becomes(p, call'[p]) /\ DOMAIN call'[p] = Fields /\ call'[p].pc = place
             /\ call'[p].created = call[p].created
             /\ call'[p].case = c /\ call'[p].ledger = l /\ call'[p].outcome = o /\ call'[p].record = r
  <2>1. {"case", "ledger", "outcome", "record", "created"} \subseteq Fields \ {"pc"}
    BY DEF Fields
  <2> QED
    BY <1>4, <2>1, GotoEffect
<1>5. ASSUME CommitRow(l, r), NEW place \in {"appended", "recover"}, Goto(p, place) PROVE FinalizationInv'
  <2>1. /\ DOMAIN rows' = Ledgers /\ DOMAIN lock' = Ledgers /\ files' = files
        /\ \A m \in Ledgers : m # l => rows'[m] = rows[m] /\ lock'[m] = lock[m]
        /\ Registered(l)' = Registered(l) \cup {r}
    BY <1>1, <1>5, RowAppended
  <2>2. LedgerInv(l)' /\ LogMoves
    BY <1>1, <1>3, <1>5, CommitKeeps
  <2>3. Bound(c, l, o)'
    BY <1>1, <2>2 DEF LogMoves, BoundKept
  <2>4. CallInv(p)'
    BY <1>1, <1>2, <1>4, <1>5, <2>1, <2>3 DEF CallInv, Places, Writing, Cleaning, Closing
  <2>5. ~InHand(p)'
    BY <1>4, <1>5, <2>1 DEF InHand, Stray, Writing
  <2>6. \A q \in Finalizers : q # p /\ call[q].ledger = l => Undisturbed(q)
    BY <1>2, <1>4, <1>5, <2>1 DEF Undisturbed, Becomes, FinalizationInv, InHand
  <2>7. \A f \in files'[l] \ Registered(l)' : f \in files[l] /\ ~Maker(p, l, f)
    BY <2>1 DEF Maker
  <2> QED
    BY <1>1, <1>3, <1>4, <1>5, <2>1, <2>2, <2>4, <2>5, <2>6, <2>7, WriteInv DEF FinalizationInv
<1>6. CASE Rollback(l) /\ Goto(p, "recover")
  <2>1. /\ rows' = rows /\ files' = files /\ DOMAIN lock' = Ledgers
        /\ \A m \in Ledgers : m # l => lock'[m] = lock[m]
    BY <1>1, <1>6 DEF Rollback, FinalizationInv
  <2>2. \A m : Registered(m)' = Registered(m)
    BY <2>1 DEF Registered
  <2>3. LogMoves
    BY <1>3, <2>2, LogStays DEF FinalizationInv
  <2>4. Bound(c, l, o)'
    BY <1>1, <2>3 DEF LogMoves, BoundKept
  <2>5. SignalTaken(l, o)' <=> SignalTaken(l, o)
    BY <2>2 DEF SignalTaken
  <2>6. CallInv(p)'
    BY <1>1, <1>2, <1>4, <1>6, <2>1, <2>4, <2>5, SMTT(60) DEF CallInv, Places, Writing, Cleaning, Closing
  <2>7. LedgerInv(l)'
    BY <1>1, <2>1, <2>3, LedgerStays, ZenonT(60) DEF FinalizationInv, LogMoves, LedgerInv
  <2>8. \A q \in Finalizers : q # p /\ call[q].ledger = l => Undisturbed(q)
    BY <1>2, <1>4, <1>6, <2>1, <2>2 DEF Undisturbed, Becomes, FinalizationInv, InHand
  <2>9. \A f \in files'[l] \ Registered(l)' : Maker(p, l, f)' \/ (f \in files[l] /\ ~Maker(p, l, f))
    BY <1>1, <1>4, <1>6, <2>1 DEF Maker, Cleaning
  <2> QED
    BY <1>1, <1>2, <1>3, <1>4, <1>6, <2>1, <2>2, <2>6, <2>7, <2>8, <2>9, WriteInv DEF FinalizationInv
<1> QED
  BY <1>5, <1>6 DEF Commit

\* A row with the outcome of a call is of its case.
LEMMA RecoveredFacts ==
  ASSUME FinalizationInv, NEW p \in Finalizers, call[p].pc = "recover",
         NEW l, l = call[p].ledger, NEW r, r = call[p].record
  PROVE  /\ l \in Ledgers
         /\ call[p].created => r \in Registered(l) \/ Recovered(p) = {}
         /\ Recovered(p) = {} => r \notin Registered(l)
         /\ r \in Registered(l) => Recovered(p) = {r}
<1> PICK o : o = call[p].outcome
  OBVIOUS
<1>1. CallInv(p) /\ l \in Ledgers /\ LedgerInv(l) /\ r.outcome = o
  BY DEF FinalizationInv, CallInv, Cleaning
<1>2. Recovered(p) = {x \in Registered(l) : x.outcome = o}
  BY DEF Recovered, RowsOf
<1>3. call[p].created => r \in Registered(l) \/ ~SignalTaken(l, o)
  BY <1>1 DEF CallInv, Cleaning
<1>4. ~SignalTaken(l, o) => Recovered(p) = {}
  BY <1>2 DEF SignalTaken
<1>5. ASSUME r \in Registered(l), NEW x \in Registered(l), x.outcome = o PROVE x = r
  <2>1. PICK i \in DOMAIN rows[l], j \in DOMAIN rows[l] : rows[l][i] = r /\ rows[l][j] = x
    BY <1>5 DEF Registered
  <2> QED
    BY <1>1, <1>5, <2>1 DEF LedgerInv
<1> QED
  BY <1>1, <1>2, <1>3, <1>4, <1>5

LEMMA RecoverInv ==
  ASSUME FinalizationInv, NEW p \in Finalizers, Recover(p)
  PROVE  FinalizationInv'
<1> PICK c, l, o, r : c = call[p].case /\ l = call[p].ledger /\ o = call[p].outcome /\ r = call[p].record
  OBVIOUS
<1>1. /\ call[p].pc = "recover" /\ CallInv(p) /\ r.outcome = o
      /\ l \in Ledgers /\ c \in Cases /\ Bound(c, l, o)
      /\ call[p].created => r \in files[l] /\ (r \in Registered(l) \/ ~SignalTaken(l, o))
  BY DEF Recover, At, FinalizationInv, CallInv, Cleaning
<1>2. /\ UNCHANGED <<collectionVars, ledgerVars>> /\ crashes' = crashes
  BY DEF Recover
<1>3. /\ call[p].created => r \in Registered(l) \/ Recovered(p) = {}
      /\ Recovered(p) = {} => r \notin Registered(l)
      /\ r \in Registered(l) => Recovered(p) = {r}
  BY <1>1, RecoveredFacts
<1>4. LogMoves /\ \A m : Registered(m)' = Registered(m)
  BY <1>2, StillMoves
<1>5. Bound(c, l, o)'
  BY <1>1, <1>4 DEF LogMoves, BoundKept
<1>6. ASSUME NEW place \in {"appended", "unlink"}, Goto(p, place)
      PROVE  /\ Becomes(p, call'[p]) /\ DOMAIN call'[p] = Fields /\ call'[p].pc = place
             /\ call'[p].created = call[p].created
             /\ call'[p].case = c /\ call'[p].ledger = l /\ call'[p].outcome = o /\ call'[p].record = r
  <2>1. {"case", "ledger", "outcome", "record", "created"} \subseteq Fields \ {"pc"}
    BY DEF Fields
  <2> QED
    BY <1>6, <2>1, GotoEffect
<1>7. CASE Recovered(p) = {r} /\ Goto(p, "appended") /\ uncleaned' = uncleaned
  <2>1. r \in Registered(l)
    BY <1>7 DEF Recovered, RowsOf
  <2>2. CallInv(p)'
    BY <1>1, <1>4, <1>5, <1>6, <1>7, <2>1 DEF CallInv, Places, Writing, Cleaning, Closing
  <2>3. ~InHand(p)'
    BY <1>6, <1>7 DEF InHand, Stray, Writing, Cleaning
  <2>4. \A m \in Ledgers : \A f \in files[m] \ Registered(m) : ~Maker(p, m, f)
    BY <2>1 DEF Maker
  <2> QED
    BY <1>2, <1>4, <1>6, <1>7, <2>2, <2>3, <2>4, MoveInv DEF FinalizationInv, CountersInv
<1>8. CASE /\ Raise(p) /\ uncleaned' = uncleaned
           /\ Recovered(p) \notin {{}, {r}} \/ ~call[p].created
  <2>1. \A m \in Ledgers : \A f \in files[m] \ Registered(m) : ~Maker(p, m, f)
    BY <1>3, <1>8 DEF Maker
  <2> QED
    BY <1>2, <1>4, <1>8, <2>1, RaiseInv DEF FinalizationInv, CountersInv
<1>9. CASE Recovered(p) = {} /\ call[p].created /\ Goto(p, "unlink") /\ uncleaned' = uncleaned
  <2>1. r \notin Registered(l)
    BY <1>3, <1>9
  <2>2. ~SignalTaken(l, o)'
    BY <1>1, <1>4, <1>9, <2>1 DEF SignalTaken
  <2>3. files' = files
    BY <1>2 DEF ledgerVars
  <2>4. CallInv(p)'
    BY <1>1, <1>4, <1>5, <1>6, <1>9, <2>1, <2>2, <2>3 DEF CallInv, Places, Writing, Cleaning, Closing
  <2>5. InHand(p)
    BY <1>1, <1>9, <2>1 DEF InHand, Stray, Cleaning
  <2>6. \A m, f : Maker(p, m, f) => Maker(p, m, f)'
    BY <1>6, <1>9 DEF Maker, Cleaning
  <2> QED
    BY <1>2, <1>4, <1>6, <1>9, <2>4, <2>5, <2>6, MoveInv DEF FinalizationInv, CountersInv
<1>10. CASE Raise(p) /\ uncleaned' = uncleaned + 1
  BY <1>2, <1>4, <1>10, RaiseInv DEF FinalizationInv, CountersInv
<1> QED
  BY <1>7, <1>8, <1>9, <1>10 DEF Recover

LEMMA UnlinkInv ==
  ASSUME FinalizationInv, NEW p \in Finalizers, Unlink(p)
  PROVE  FinalizationInv'
<1> PICK l, r : l = call[p].ledger /\ r = call[p].record
  OBVIOUS
<1>1. /\ call[p].pc = "unlink" /\ CallInv(p) /\ call[p].created
      /\ l \in Ledgers /\ r \notin Registered(l)
  BY DEF Unlink, At, FinalizationInv, CallInv
<1>2. InHand(p) /\ \A q \in Finalizers : q # p /\ call[q].ledger = l => ~InHand(q)
  BY <1>1 DEF InHand, Stray, Cleaning, FinalizationInv, OneAtATime
<1>3. Raise(p) /\ UNCHANGED collectionVars /\ crashes' = crashes
  BY DEF Unlink
<1>4. /\ Becomes(p, Idle) /\ call'[p] = Idle /\ CallInv(p)' /\ ~InHand(p)'
  BY <1>3, RaiseEffect
<1>5. CASE UnlinkFile(l, r) /\ uncleaned' = uncleaned
  <2>1. /\ rows' = rows /\ lock' = lock /\ DOMAIN files' = Ledgers /\ files'[l] = files[l] \ {r}
        /\ \A m \in Ledgers : m # l => files'[m] = files[m]
    BY <1>1, <1>5 DEF UnlinkFile, FinalizationInv
  <2>2. \A m : Registered(m)' = Registered(m)
    BY <2>1 DEF Registered
  <2>3. log' = log
    BY <1>3 DEF collectionVars
  <2>4. LogMoves
    BY <2>2, <2>3, LogStays DEF FinalizationInv
  <2>5. LedgerInv(l)'
    <3>1. Registered(l) \subseteq files'[l]
      BY <1>1, <2>1 DEF FinalizationInv, LedgerInv
    <3> QED
      BY <1>1, <2>1, <2>4, <3>1, LedgerStays DEF FinalizationInv, LogMoves
  <2>6. ASSUME NEW q \in Finalizers, q # p, call[q].ledger = l PROVE Undisturbed(q)
    <3>1. call'[q] = call[q] /\ ~InHand(q)
      BY <1>2, <1>4, <2>6 DEF Becomes, FinalizationInv
    <3>2. call[q].created /\ call[q].pc \in {"commit"} \cup Cleaning => call[q].record # r
      BY <1>1, <2>6, <3>1 DEF InHand, Stray, Writing
    <3> QED
      BY <2>1, <2>2, <3>1, <3>2 DEF Undisturbed, InHand
  <2>7. \A f \in files'[l] \ Registered(l)' : f \in files[l] /\ ~Maker(p, l, f)
    BY <2>1 DEF Maker
  <2> QED
    BY <1>1, <1>3, <1>4, <1>5, <2>1, <2>2, <2>3, <2>5, <2>6, <2>7, WriteInv
    DEF FinalizationInv, CountersInv
<1>6. CASE uncleaned' = uncleaned + 1 /\ UNCHANGED ledgerVars
  <2>1. LogMoves
    BY <1>3, <1>6, StillMoves
  <2> QED
    BY <1>3, <1>6, <2>1, RaiseInv DEF FinalizationInv, CountersInv
<1> QED
  BY <1>5, <1>6 DEF Unlink

LEMMA CrashInv ==
  ASSUME FinalizationInv, NEW p \in Finalizers, Crash(p)
  PROVE  FinalizationInv'
<1> PICK l : l = call[p].ledger
  OBVIOUS
<1>1. call[p].pc # "idle" /\ l \in Ledgers
  BY DEF Crash, At, FinalizationInv, CallInv
<1>2. PICK left : Leaves(l, p, left)
  BY DEF Crash
<1>3. Raise(p) /\ log' = log /\ crashes' = crashes + 1 /\ uncleaned' = uncleaned
  BY DEF Crash, collectionVars
<1>4. /\ Becomes(p, Idle) /\ call'[p] = Idle /\ CallInv(p)' /\ ~InHand(p)'
  BY <1>3, RaiseEffect
<1>5. /\ rows' = rows /\ DOMAIN files' = Ledgers /\ DOMAIN lock' = Ledgers
      /\ files[l] \subseteq files'[l] /\ (lock[l] # p => lock'[l] = lock[l])
      /\ \A m \in Ledgers : m # l => files'[m] = files[m] /\ lock'[m] = lock[m]
  BY <1>1, <1>2 DEF Leaves, FinalizationInv
<1>6. \A m : Registered(m)' = Registered(m)
  BY <1>5 DEF Registered
<1>7. LogMoves
  BY <1>3, <1>6, LogStays DEF FinalizationInv
<1>8. LedgerInv(l)'
  <2>1. Registered(l) \subseteq files'[l]
    BY <1>1, <1>5 DEF FinalizationInv, LedgerInv
  <2> QED
    BY <1>1, <1>5, <1>7, <2>1, LedgerStays DEF FinalizationInv, LogMoves
<1>9. ASSUME NEW q \in Finalizers, q # p, call[q].ledger = l PROVE Undisturbed(q)
  <2>1. call'[q] = call[q]
    BY <1>4, <1>9 DEF Becomes, FinalizationInv
  <2>2. call[q].pc \in Writing => lock'[l] = lock[l]
    BY <1>1, <1>5, <1>9 DEF FinalizationInv, CallInv
  <2> QED
    BY <1>5, <1>6, <2>1, <2>2 DEF Undisturbed
<1>10. CountersInv' /\ crashes' + uncleaned' # 0
  BY <1>3 DEF FinalizationInv, CountersInv
<1> QED
  BY <1>1, <1>3, <1>4, <1>5, <1>6, <1>8, <1>9, <1>10, WriteInv DEF FinalizationInv

-----------------------------------------------------------------------------
(* The facts of the cases, which the finalizers only read.                  *)

\* A step of the log alone.
LEMMA LogStep ==
  ASSUME FinalizationInv, UNCHANGED <<ledgerVars, finalizationVars>>, LogMoves
  PROVE  FinalizationInv'
<1>1. /\ rows' = rows /\ files' = files /\ lock' = lock /\ call' = call
      /\ crashes' = crashes /\ uncleaned' = uncleaned
  BY DEF ledgerVars, finalizationVars
<1>2. \A m : Registered(m)' = Registered(m)
  BY <1>1 DEF Registered
<1>3. \A l \in Ledgers : LedgerInv(l)'
  BY <1>1, LedgerStays DEF FinalizationInv, LogMoves, LedgerInv
<1>4. \A p \in Finalizers : CallInv(p)'
  BY <1>1, <1>2, CallStays DEF FinalizationInv, LogMoves, Undisturbed
<1>5. OneAtATime'
  BY <1>1, <1>2 DEF FinalizationInv, OneAtATime, InHand, Stray
<1>6. NoOrphans' /\ CountersInv'
  BY <1>1, <1>2 DEF FinalizationInv, NoOrphans, CountersInv
<1> QED
  BY <1>1, <1>3, <1>4, <1>5, <1>6 DEF FinalizationInv, LogMoves

LEMMA CollectInv ==
  ASSUME FinalizationInv, Collect, UNCHANGED <<ledgerVars, finalizationVars>>
  PROVE  FinalizationInv'
<1>1. rows' = rows
  BY DEF ledgerVars
<1>2. \A m : Registered(m)' = Registered(m)
  BY <1>1 DEF Registered
<1>3. ASSUME NEW c \in Cases, NEW f, AppendEvent(c, f), f.kind \notin {"prepared", "finalized"}
      PROVE  LogMoves
  BY <1>1, <1>3, AppendMoves DEF FinalizationInv
<1>4. LogMoves
  <2>1. ASSUME NEW s \in Snapshots, NEW m \in Modes, OpenCase(s, m) PROVE LogMoves
    <3> PICK c, f : c = CaseId(s, m) /\ f = OpenFact(s, m)
      OBVIOUS
    <3>1. c \in Cases /\ f.kind = "opened" /\ AppendEvent(c, f)
      BY <2>1 DEF Cases, OpenFact, OpenCase
    <3> QED
      BY <1>3, <3>1
  <2>2. ASSUME NEW c \in Opened, Record(c) PROVE LogMoves
    <3>1. c \in Cases
      BY DEF Opened
    <3>2. \E f : AppendEvent(c, f) /\ f.kind \in {"entry", "no_entry", "point", "request", "exit"}
      <4>1. CASE RecordEntryFill(c)
        BY <4>1 DEF RecordEntryFill, EntryFact
      <4>2. CASE RecordNoEntry(c)
        BY <4>2 DEF RecordNoEntry, NoEntryFact
      <4>3. CASE RecordPathPoint(c)
        BY <4>3 DEF RecordPathPoint, PointFact
      <4>4. CASE RecordExitRequest(c)
        BY <4>4 DEF RecordExitRequest, RequestFact
      <4>5. CASE RecordExitFill(c)
        BY <4>5 DEF RecordExitFill, ExitFact, EntryFact
      <4> QED
        BY <2>2, <4>1, <4>2, <4>3, <4>4, <4>5 DEF Record
    <3> QED
      BY <1>3, <3>1, <3>2
  <2>3. ASSUME NEW t, SetClock(t) PROVE LogMoves
    BY <1>2, <2>3, LogStays DEF SetClock, FinalizationInv
  <2> QED
    BY <2>1, <2>2, <2>3 DEF Collect
<1> QED
  BY <1>4, LogStep

-----------------------------------------------------------------------------

LEMMA FinalizationInit == Init => FinalizationInv
<1> SUFFICES ASSUME Init PROVE FinalizationInv
  OBVIOUS
<1>1. log = <<>> /\ DOMAIN log = {}
  BY DEF Init, CollectionInit
<1>2. LogInv /\ \A c \in Cases : FinalizedInv(c)
  BY <1>1 DEF LogInv, FinalizedInv, Has
<1>3. \A l \in Ledgers : rows[l] = <<>> /\ DOMAIN rows[l] = {} /\ files[l] = {} /\ Registered(l) = {}
  BY DEF Init, LedgerInit, Registered
<1>4. ASSUME NEW l \in Ledgers PROVE LedgerInv(l)
  <2>1. rows[l] = <<>> /\ DOMAIN rows[l] = {} /\ files[l] = {} /\ Registered(l) = {}
    BY <1>3
  <2>2. rows[l] \in Seq(Registered(l))
    BY <2>1
  <2> QED
    BY <2>1, <2>2 DEF LedgerInv, Chained
<1>5. DOMAIN rows = Ledgers /\ DOMAIN files = Ledgers /\ DOMAIN lock = Ledgers /\ DOMAIN call = Finalizers
  BY DEF Init, LedgerInit
<1>6. \A p \in Finalizers : call[p].pc = "idle" /\ DOMAIN call[p] = Fields
  BY DEF Init, Idle, Fields
<1>7. \A p \in Finalizers : CallInv(p) /\ ~InHand(p)
  BY <1>6 DEF CallInv, InHand, Stray, Places, Writing, Cleaning, Closing
<1>8. OneAtATime /\ NoOrphans /\ CountersInv
  BY <1>3, <1>7 DEF OneAtATime, NoOrphans, CountersInv, Init
<1> QED
  BY <1>2, <1>4, <1>5, <1>7, <1>8 DEF FinalizationInv

LEMMA FinalizationNext == FinalizationInv /\ [Next]_vars => FinalizationInv'
<1> SUFFICES ASSUME FinalizationInv, [Next]_vars PROVE FinalizationInv'
  OBVIOUS
<1>1. CASE Collect /\ UNCHANGED <<ledgerVars, finalizationVars>>
  BY <1>1, CollectInv
<1>2. ASSUME NEW p \in Finalizers, Finalize(p) PROVE FinalizationInv'
  <2>1. ASSUME NEW c \in Opened, NEW l \in Ledgers, Begin(p, c, l) PROVE FinalizationInv'
    BY <2>1, BeginInv
  <2>2. CASE Prepare(p)
    BY <2>2, PrepareInv
  <2>3. CASE OpenAppend(p)
    BY <2>3, OpenAppendInv
  <2>4. CASE Link(p)
    BY <2>4, LinkInv
  <2>5. CASE Commit(p)
    BY <2>5, CommitInv
  <2>6. CASE Recover(p)
    BY <2>6, RecoverInv
  <2>7. CASE Unlink(p)
    BY <2>7, UnlinkInv
  <2>8. CASE ReadAuditTime(p)
    BY <2>8, ReadAuditTimeInv
  <2>9. CASE Audit(p)
    BY <2>9, AuditInv
  <2>10. CASE RecordFinalized(p)
    BY <2>10, RecordFinalizedInv
  <2>11. CASE Crash(p)
    BY <2>11, CrashInv
  <2>12. CASE LinkBreaks(p)
    BY <2>12, LinkBreaksInv
  <2> QED
    BY <1>2, <2>1, <2>2, <2>3, <2>4, <2>5, <2>6, <2>7, <2>8, <2>9, <2>10, <2>11, <2>12 DEF Finalize
<1>3. CASE UNCHANGED vars
  <2>1. UNCHANGED <<collectionVars, ledgerVars>> /\ UNCHANGED <<ledgerVars, finalizationVars>>
    BY <1>3 DEF vars
  <2> QED
    BY <2>1, StillMoves, LogStep
<1> QED
  BY <1>1, <1>2, <1>3 DEF Next

(* Every step keeps the invariant: the rows of a ledger are the prepared    *)
(* outcomes of its cases, one per case, each with its file, and one call    *)
(* at a time has files of a ledger in hand (_prepare_finalization, append,  *)
(* _recover_committed_record).                                              *)
THEOREM FinalizationInvariant == Spec => []FinalizationInv
<1>1. Init => FinalizationInv
  BY FinalizationInit
<1>2. FinalizationInv /\ [Next]_vars => FinalizationInv'
  BY FinalizationNext
<1> QED
  BY <1>1, <1>2, PTL DEF Spec

\* The records of a case, in whatever ledger.
LEMMA RecordsOfCase ==
  ASSUME FinalizationInv, NEW c \in Cases, NEW l \in Ledgers, NEW r \in Registered(l), r.outcome.case = c
  PROVE  /\ Bound(c, l, r.outcome)
         /\ \A m \in Ledgers : \A s \in Registered(m) : s.outcome.case = c => m = l /\ s = r
<1>1. ASSUME NEW m \in Ledgers, NEW s \in Registered(m), s.outcome.case = c PROVE Bound(c, m, s.outcome)
  <2>1. PICK i \in DOMAIN rows[m] : rows[m][i] = s
    BY <1>1 DEF Registered
  <2>2. Bound(rows[m][i].outcome.case, m, rows[m][i].outcome)
    BY <2>1 DEF FinalizationInv, LedgerInv
  <2> QED
    BY <1>1, <2>1, <2>2
<1>2. ASSUME NEW m \in Ledgers, NEW s \in Registered(m), s.outcome.case = c PROVE m = l /\ s = r
  <2>1. m = l
    BY <1>1, <1>2 DEF Bound
  <2>2. PICK i \in DOMAIN rows[l], j \in DOMAIN rows[l] : rows[l][i] = r /\ rows[l][j] = s
    BY <1>2, <2>1 DEF Registered
  <2> QED
    BY <1>2, <2>1, <2>2 DEF FinalizationInv, LedgerInv
<1> QED
  BY <1>1, <1>2

LEMMA RecordedFollows == FinalizationInv => FinalizedIsRecorded
<1> SUFFICES ASSUME FinalizationInv, NEW c \in Opened
             PROVE  LET records == UNION {{l} \X {r \in Registered(l) : r.outcome.case = c} : l \in Ledgers}
                    IN /\ Cardinality(records) <= 1
                       /\ records # {} => Has(c, "prepared") /\ \A x \in records : x[2].outcome = Fact(c, "prepared").outcome
                       /\ Has(c, "finalized") =>
                            LET done == Fact(c, "finalized")
                            IN records = {<<done.target, done.record>>} /\ done.audited >= done.record.order
  BY DEF FinalizedIsRecorded
<1> DEFINE records == UNION {{l} \X {r \in Registered(l) : r.outcome.case = c} : l \in Ledgers}
<1>1. c \in Cases
  BY DEF Opened
<1>2. ASSUME NEW l \in Ledgers, NEW r \in Registered(l), r.outcome.case = c
      PROVE  records = {<<l, r>>} /\ Bound(c, l, r.outcome)
  BY <1>1, <1>2, RecordsOfCase
<1>3. records = {} \/ \E l \in Ledgers : \E r \in Registered(l) : r.outcome.case = c
  OBVIOUS
<1>4. Cardinality(records) <= 1
  <2> HIDE DEF records
  <2>1. CASE records = {}
    BY <2>1, FS_EmptySet
  <2>2. CASE \E x : records = {x}
    <3>1. PICK x : records = {x}
      BY <2>2
    <3>2. Cardinality({x}) = 1
      BY FS_Singleton
    <3> QED
      BY <3>1, <3>2
  <2> QED
    BY <1>2, <1>3, <2>1, <2>2
<1>5. ASSUME records # {}
      PROVE  Has(c, "prepared") /\ \A x \in records : x[2].outcome = Fact(c, "prepared").outcome
  <2>1. PICK l \in Ledgers : \E r \in Registered(l) : r.outcome.case = c
    BY <1>3, <1>5
  <2>2. PICK r \in Registered(l) : r.outcome.case = c
    BY <2>1
  <2> HIDE DEF records
  <2> QED
    BY <1>2, <2>2 DEF Bound
<1>6. ASSUME Has(c, "finalized")
      PROVE  LET done == Fact(c, "finalized")
             IN records = {<<done.target, done.record>>} /\ done.audited >= done.record.order
  <2> PICK done : done = Fact(c, "finalized")
    OBVIOUS
  <2>1. /\ Bound(c, done.target, done.outcome) /\ done.record \in Registered(done.target)
        /\ done.record.outcome = done.outcome /\ done.audited >= done.record.order
    BY <1>1, <1>6 DEF FinalizationInv, FinalizedInv
  <2>2. done.target \in Ledgers /\ done.outcome.case = c
    BY <1>1, <2>1 DEF FinalizationInv, LogInv, Bound
  <2> HIDE DEF records
  <2> QED
    BY <1>2, <2>1, <2>2
<1> QED
  BY <1>4, <1>5, <1>6

(* Whoever finalizes, however often and wherever calls stop, a case has at  *)
(* most one record among all ledgers, a FINALIZED case names it and an      *)
(* audit that has seen it, a record never loses its file, and a file        *)
(* without a row is in the hands of a call or was left by a crash or by a   *)
(* clean-up that failed (finalize, append, _recover_committed_record).      *)
THEOREM LedgerIntactHolds == Spec => []LedgerIntact
<1>1. FinalizationInv => LedgerIntact
  <2> SUFFICES ASSUME FinalizationInv PROVE LedgerIntact
    OBVIOUS
  <2>1. FinalizedIsRecorded
    BY RecordedFollows
  <2>2. \A l \in Ledgers : Registered(l) \subseteq files[l]
    BY DEF FinalizationInv, LedgerInv
  <2>3. crashes + uncleaned = 0 =>
          \A l \in Ledgers : \A f \in files[l] \ Registered(l) :
            \E p \in Finalizers : call[p].ledger = l /\ call[p].record = f /\ call[p].created
    BY DEF FinalizationInv, NoOrphans
  <2> QED
    BY <2>1, <2>2, <2>3 DEF LedgerIntact
<1> QED
  BY <1>1, FinalizationInvariant, PTL

(* A case that was prepared can always be finished, by whichever call finds *)
(* it: unless a stray file or a clock that was set back stands in the way,  *)
(* its ledger is valid and has its outcome or takes it                      *)
(* (_validate_ledger_state, append).                                        *)
THEOREM CanFinishHolds == Spec => []CanFinish
<1>1. FinalizationInv => CanFinish
  <2> SUFFICES ASSUME FinalizationInv, NEW c \in Opened, Has(c, "prepared"),
                      NEW l, l = Fact(c, "prepared").target, NEW o, o = Fact(c, "prepared").outcome,
                      files[l] = Registered(l), o.recordedAt <= clock,
                      \A r \in Registered(l) : r.at <= clock
               PROVE  Valid(l, clock) /\ (RowsOf(l, o) # {} \/ Admissible(l, o, clock))
    BY DEF CanFinish
  <2>1. c \in Cases /\ l \in Ledgers /\ o.case = c
    BY DEF Opened, FinalizationInv, LogInv
  <2>2. Valid(l, clock)
    <3>1. ASSUME NEW i \in DOMAIN rows[l] PROVE rows[l][i].order = i /\ rows[l][i].at <= clock
      <4>1. rows[l][i] \in Registered(l)
        BY DEF Registered
      <4> QED
        BY <2>1, <4>1 DEF FinalizationInv, LedgerInv
    <3>2. Chained(l)
      BY <2>1 DEF FinalizationInv, LedgerInv
    <3> QED
      BY <3>1, <3>2 DEF Chained, Valid
  <2>3. ASSUME SignalTaken(l, o) PROVE RowsOf(l, o) # {}
    <3>1. PICK r \in Registered(l) : r.outcome.case = c
      BY <2>1, <2>3 DEF SignalTaken
    <3>2. r.outcome = o
      BY <2>1, <3>1, RecordsOfCase DEF Bound
    <3> QED
      BY <3>2 DEF RowsOf
  <2> QED
    BY <2>2, <2>3 DEF Admissible
<1> QED
  BY <1>1, FinalizationInvariant, PTL

-----------------------------------------------------------------------------
(* Finite sets of integers.                                                 *)

\* A part of a finite set that is not all of it has fewer elements.
LEMMA Fewer ==
  ASSUME NEW S, IsFiniteSet(S), NEW T, T \subseteq S, T # S
  PROVE Cardinality(T) < Cardinality(S)
<1>1. IsFiniteSet(T) /\ Cardinality(T) <= Cardinality(S) /\ Cardinality(S) # Cardinality(T)
  BY FS_Subset
<1> QED
  BY <1>1, FS_CardinalityType

\* Where finitely many integers are counted from below, every rank is taken: two of them have not
\* the same, and there are as many ranks as integers.
LEMMA EveryRank ==
  ASSUME NEW S \in SUBSET Int, IsFiniteSet(S), NEW k \in 1 .. Cardinality(S)
  PROVE \E x \in S : Cardinality({y \in S : y <= x}) = k
<1> DEFINE n == Cardinality(S)
           Below(x) == {y \in S : y <= x}
           rank == [x \in S |-> Cardinality(Below(x))]
           ranks == {rank[x] : x \in S}
<1>1. n \in Nat /\ \A x \in S : IsFiniteSet(Below(x)) /\ x \in Below(x) /\ Below(x) \subseteq S
  BY FS_CardinalityType, FS_Subset
<1>2. \A x \in S : rank[x] \in 1 .. n
  <2> TAKE x \in S
  <2>1. Cardinality(Below(x)) <= n /\ Cardinality(Below(x)) \in Nat
    BY <1>1, FS_Subset, FS_CardinalityType
  <2>2. Cardinality(Below(x)) # 0
    BY <1>1, FS_EmptySet
  <2> QED
    BY <1>1, <2>1, <2>2
<1>3. \A x, y \in S : x < y => rank[x] < rank[y]
  <2> TAKE x, y \in S
  <2> HAVE x < y
  <2>1. Below(x) \subseteq Below(y) /\ y \notin Below(x) /\ y \in Below(y) /\ IsFiniteSet(Below(y))
    <3>1. Below(x) \subseteq Below(y) /\ y \notin Below(x)
      <4>1. x \in Int /\ y \in Int
        OBVIOUS
      <4>2. \A z \in S : z \in Int /\ (z <= x => z <= y)
        BY <4>1
      <4>3. ~(y <= x)
        BY <4>1
      <4> QED
        BY <4>2, <4>3
    <3> QED
      BY <1>1, <3>1
  <2> HIDE DEF Below
  <2>2. Cardinality(Below(x)) < Cardinality(Below(y))
    BY <2>1, Fewer
  <2> QED
    BY <2>2
<1>4. \A x, y \in S : rank[x] = rank[y] => x = y
  BY <1>2, <1>3
<1>5. rank \in Bijection(S, ranks)
  <2>1. rank \in Injection(S, ranks)
    BY <1>4 DEF Injection, IsInjective
  <2>2. rank \in Surjection(S, ranks)
    BY DEF Surjection
  <2> QED
    BY <2>1, <2>2 DEF Bijection
<1> HIDE DEF rank
<1>6. ranks \subseteq 1 .. n
  BY <1>2
<1> HIDE DEF ranks
<1>7. Cardinality(ranks) = n
  BY <1>5, FS_Bijection DEF ExistsBijection
<1>8. IsFiniteSet(1 .. n) /\ Cardinality(1 .. n) = n
  BY <1>1, FS_Interval
<1>9. ranks = 1 .. n
  <2>1. ranks # 1 .. n => Cardinality(ranks) < Cardinality(1 .. n)
    BY <1>6, <1>8, Fewer
  <2> QED
    BY <1>1, <1>7, <1>8, <2>1
<1>10. k \in {rank[x] : x \in S}
  BY <1>9 DEF ranks
<1> QED
  BY <1>10 DEF rank

\* So a set of finitely many integers that has one has a least.
LEMMA MinIs ==
  ASSUME NEW S \in SUBSET Int, IsFiniteSet(S), S # {}
  PROVE Min(S) \in S /\ \A y \in S : Min(S) <= y
<1>1. 1 \in 1 .. Cardinality(S)
  BY FS_EmptySet, FS_CardinalityType
<1>2. PICK x \in S : Cardinality({y \in S : y <= x}) = 1
  BY <1>1, EveryRank
<1> DEFINE below == {y \in S : y <= x}
<1>3. IsFiniteSet(below) /\ x \in below
  BY FS_Subset
<1>4. {x} = below
  <2>1. Cardinality({x}) = 1
    BY FS_Singleton
  <2>2. {x} # below => Cardinality({x}) < Cardinality(below)
    BY <1>3, Fewer
  <2> QED
    BY <1>2, <2>1, <2>2
<1>5. \A y \in S : x <= y
  BY <1>4
<1> QED
  BY <1>5 DEF Min

\* The greatest of finitely many integers, as MinIs is the least.
LEMMA MaxIs ==
  ASSUME NEW S \in SUBSET Int, IsFiniteSet(S), S # {}
  PROVE Max(S) \in S /\ \A y \in S : y <= Max(S)
<1> DEFINE n == Cardinality(S)
<1>1. n \in Nat /\ n \in 1 .. n
  BY FS_EmptySet, FS_CardinalityType
<1>2. PICK x \in S : Cardinality({y \in S : y <= x}) = n
  BY <1>1, EveryRank
<1> DEFINE below == {y \in S : y <= x}
<1>3. below = S
  BY <1>1, <1>2, Fewer
<1>4. \A y \in S : x >= y
  BY <1>3
<1> QED
  BY <1>4 DEF Max

-----------------------------------------------------------------------------
(* OutcomeCollection: what the log says of a case, and goes on saying.      *)

Kinds == {"opened", "entry", "no_entry", "point", "request", "exit", "prepared", "finalized"}

\* An event has the form its call gave it, and was observed no earlier than those before it.
EventsInv ==
  /\ clock \in Nat
  /\ \A i \in DOMAIN log :
       LET e == log[i]
       IN /\ e.case \in Cases /\ e.fact.kind \in Kinds /\ e.observed \in Nat
          /\ e.fact.kind = "point" => e.fact.at \in Nat /\ e.fact.at <= e.observed
          /\ e.fact.kind = "opened" =>
               /\ e.case = CaseId(e.fact.snapshot, Mode(e.case))
               /\ e.fact = [kind |-> "opened", snapshot |-> e.fact.snapshot, capturedAt |-> e.fact.capturedAt]
          /\ e.fact.kind = "request" =>
               e.fact = [kind |-> "request", at |-> e.fact.at, reason |-> e.fact.reason,
                         evidence |-> e.fact.evidence, whole |-> e.fact.whole, prefix |-> e.fact.prefix]
  /\ \A i, j \in DOMAIN log : i <= j => log[i].observed <= log[j].observed

\* A case has one fact of each kind but points, and those that its others presuppose.
OrderInv(c) ==
  /\ \A k \in Kinds \ {"point"} : \A i, j \in DOMAIN log : Is(i, c, k) /\ Is(j, c, k) => i = j
  /\ \A k \in Kinds : Has(c, k) => Has(c, "opened")
  /\ Has(c, "point") \/ Has(c, "request") \/ Has(c, "exit") => Has(c, "entry")
  /\ Has(c, "entry") => ~Has(c, "no_entry")
  /\ Has(c, "exit") => Has(c, "request")
  /\ Has(c, "prepared") => Has(c, "no_entry") \/ Has(c, "exit")
  /\ Has(c, "finalized") => Has(c, "prepared")

\* What the calls found when they stored the points, the request, the exit and the outcome.
PathInv(c) == \A i, j \in Path(c) : i < j => Point(i).at < Point(j).at
RequestInv(c) ==
  Has(c, "request") =>
    /\ Request(c).at \in Nat
    /\ Request(c).prefix = KnownAt(Path(c), Request(c).at) /\ ReasonHolds(c, Request(c))
ExitInv(c) ==
  Has(c, "exit") => Covers(c, Exit(c)) /\ \A i \in Path(c) : Point(i).at <= Exit(c).at
PreparedInv(c) ==
  Has(c, "prepared") =>
    Constructible(c) /\ Fact(c, "prepared").outcome = Outcome(c, Fact(c, "prepared").outcome.recordedAt)

CaseInv(c) == OrderInv(c) /\ PathInv(c) /\ RequestInv(c) /\ ExitInv(c) /\ PreparedInv(c)
CollectionInv == EventsInv /\ \A c \in Cases : CaseInv(c)

\* What a call has checked of the fact it stores.
Accepts(c, f) ==
  /\ f.kind \in Kinds
  /\ f.kind = "opened" => f = OpenFact(f.snapshot, Mode(c)) /\ c = CaseId(f.snapshot, Mode(c))
  /\ f.kind # "opened" => Has(c, "opened")
  /\ f.kind # "point" => ~Has(c, f.kind)
  /\ f.kind \in {"entry", "no_entry"} => ~Has(c, "entry") /\ ~Has(c, "no_entry")
  /\ f.kind \in {"point", "request", "exit"} =>
       /\ Has(c, "entry") /\ ~Has(c, "exit") /\ ~Has(c, "prepared") /\ ~Has(c, "finalized")
       /\ f.at \in Nat
  /\ f.kind = "point" => PointAdmissible(c, f)
  /\ f.kind = "request" =>
       /\ f.prefix = KnownAt(Path(c), f.at) /\ ReasonHolds(c, f)
       /\ f = [kind |-> "request", at |-> f.at, reason |-> f.reason, evidence |-> f.evidence,
               whole |-> f.whole, prefix |-> f.prefix]
  /\ f.kind = "exit" => Has(c, "request") /\ ExitAdmissible(c, f)
  /\ f.kind = "prepared" =>
       /\ Has(c, "no_entry") \/ Has(c, "exit")
       /\ Constructible(c) /\ f.outcome = Outcome(c, f.outcome.recordedAt)
  /\ f.kind \in {"prepared", "finalized"} => ~Has(c, "finalized")
  /\ f.kind = "finalized" => Has(c, "prepared")
Stored(c, f) == Accepts(c, f) /\ AppendEvent(c, f)

\* Every call stores one fact that it has checked, or none.
LEMMA CollectionSteps ==
  ASSUME FinalizationInv, CollectionInv, [Next]_vars
  PROVE  \/ log' = log /\ clock' \in Nat
         \/ \E c \in Cases : \E f : Stored(c, f)
<1> DEFINE Goal == (log' = log /\ clock' \in Nat) \/ \E c \in Cases : \E f : Stored(c, f)
<1>1. clock \in Nat
  BY DEF CollectionInv, EventsInv
<1>2. ASSUME UNCHANGED collectionVars PROVE Goal
  BY <1>1, <1>2 DEF collectionVars
<1>3. ASSUME NEW s \in Snapshots, NEW m \in Modes, OpenCase(s, m) PROVE Goal
  <2> PICK c, f : c = CaseId(s, m) /\ f = OpenFact(s, m)
    OBVIOUS
  <2>1. c \in Cases /\ AppendEvent(c, f) /\ ~Has(c, "opened")
    BY <1>3 DEF Cases, OpenCase
  <2>2. f.kind = "opened" /\ f.snapshot = s /\ Mode(c) = m
    BY DEF OpenFact, CaseId, Mode
  <2>3. Accepts(c, f)
    BY <2>1, <2>2 DEF Accepts, Kinds
  <2> QED
    BY <2>1, <2>3 DEF Stored
<1>4. ASSUME NEW c \in Opened, Record(c) PROVE Goal
  <2>1. c \in Cases /\ Has(c, "opened")
    BY DEF Opened
  <2>2. OrderInv(c)
    BY <2>1 DEF CollectionInv, CaseInv
  <2>3. ASSUME NEW f, Accepts(c, f), AppendEvent(c, f) PROVE Goal
    BY <2>1, <2>3 DEF Stored
  <2> HIDE DEF Goal
  <2>4. State(c) = "AWAITING_ENTRY" =>
          ~Has(c, "entry") /\ ~Has(c, "no_entry") /\ ~Has(c, "exit") /\ ~Has(c, "request")
          /\ ~Has(c, "prepared") /\ ~Has(c, "finalized")
    BY DEF State
  <2>5. State(c) \in {"OPEN_POSITION", "EXIT_REQUESTED"} =>
          ~Has(c, "no_entry") /\ ~Has(c, "exit") /\ ~Has(c, "prepared") /\ ~Has(c, "finalized")
    BY DEF State
  <2>6. State(c) = "OPEN_POSITION" => Has(c, "entry") /\ ~Has(c, "request")
    BY DEF State
  <2>7. State(c) = "EXIT_REQUESTED" => Has(c, "entry") /\ Has(c, "request")
    BY <2>2 DEF State, OrderInv
  <2>8. \A t \in Time : t \in Nat
    BY DEF Time
  <2>9. CASE RecordEntryFill(c)
    <3>1. PICK at \in Time, session \in {b.session : b \in Bars}, price \in Prices, cost \in Costs, evidence, whole \in BOOLEAN :
            AppendEvent(c, EntryFact(at, session, price, cost, evidence, whole))
      BY <2>9 DEF RecordEntryFill
    <3> PICK f : f = EntryFact(at, session, price, cost, evidence, whole)
      OBVIOUS
    <3>2. f.kind = "entry"
      BY DEF EntryFact
    <3>3. Accepts(c, f)
      BY <2>1, <2>4, <2>9, <3>2 DEF Accepts, Kinds, RecordEntryFill
    <3> QED
      BY <2>3, <3>1, <3>3
  <2>10. CASE RecordNoEntry(c)
    <3>1. PICK at \in Time, reason \in NoEntryReasons, evidence \in BOOLEAN : AppendEvent(c, NoEntryFact(at, reason, evidence))
      BY <2>10 DEF RecordNoEntry
    <3> PICK f : f = NoEntryFact(at, reason, evidence)
      OBVIOUS
    <3>2. f.kind = "no_entry"
      BY DEF NoEntryFact
    <3>3. Accepts(c, f)
      BY <2>1, <2>4, <2>10, <3>2 DEF Accepts, Kinds, RecordNoEntry
    <3> QED
      BY <2>3, <3>1, <3>3
  <2>11. CASE RecordPathPoint(c)
    <3>1. PICK at \in Time, bar \in Bars, evidence \in BOOLEAN :
            PointAdmissible(c, PointFact(at, bar, evidence)) /\ AppendEvent(c, PointFact(at, bar, evidence))
      BY <2>11 DEF RecordPathPoint
    <3> PICK f : f = PointFact(at, bar, evidence)
      OBVIOUS
    <3>2. f.kind = "point" /\ f.at \in Nat
      BY <2>8 DEF PointFact
    <3>3. Accepts(c, f)
      BY <2>1, <2>5, <2>6, <2>7, <2>11, <3>1, <3>2 DEF Accepts, Kinds, RecordPathPoint
    <3> QED
      BY <2>3, <3>1, <3>3
  <2>12. CASE RecordExitRequest(c)
    <3>1. PICK at \in Time, reason \in ExitReasons, evidence, whole \in BOOLEAN :
            RequestAdmissible(c, RequestFact(c, at, reason, evidence, whole)) /\ AppendEvent(c, RequestFact(c, at, reason, evidence, whole))
      BY <2>12 DEF RecordExitRequest
    <3> PICK f : f = RequestFact(c, at, reason, evidence, whole)
      OBVIOUS
    <3>2. State(c) = "OPEN_POSITION"
      BY <2>12 DEF RecordExitRequest
    <3>3. f = [kind |-> "request", at |-> at, reason |-> reason, evidence |-> evidence, whole |-> whole,
               prefix |-> KnownAt(Path(c), at)]
      BY <2>6, <3>2 DEF RequestFact, RequestPath
    <3>4. f.kind = "request" /\ f.at = at /\ f.at \in Nat /\ f.prefix = KnownAt(Path(c), f.at)
          /\ f.reason = reason /\ f.evidence = evidence /\ f.whole = whole
      BY <2>8, <3>3
    <3>5. f = [kind |-> "request", at |-> f.at, reason |-> f.reason, evidence |-> f.evidence,
               whole |-> f.whole, prefix |-> f.prefix]
      BY <3>3, <3>4
    <3>6. ReasonHolds(c, f)
      BY <3>1 DEF RequestAdmissible
    <3>7. Accepts(c, f)
      BY <2>1, <2>5, <2>6, <3>2, <3>4, <3>5, <3>6 DEF Accepts, Kinds
    <3> QED
      BY <2>3, <3>1, <3>7
  <2>13. CASE RecordExitFill(c)
    <3>1. PICK at \in Time, session \in {b.session : b \in Bars}, price \in Prices, cost \in Costs, evidence, whole \in BOOLEAN :
            /\ ExitAdmissible(c, ExitFact(at, session, price, cost, evidence, whole))
            /\ AppendEvent(c, ExitFact(at, session, price, cost, evidence, whole))
      BY <2>13 DEF RecordExitFill
    <3> PICK f : f = ExitFact(at, session, price, cost, evidence, whole)
      OBVIOUS
    <3>2. f.kind = "exit" /\ f.at \in Nat
      BY <2>8 DEF ExitFact, EntryFact
    <3>3. Accepts(c, f)
      BY <2>1, <2>5, <2>7, <2>13, <3>1, <3>2 DEF Accepts, Kinds, RecordExitFill
    <3> QED
      BY <2>3, <3>1, <3>3
  <2> QED
    BY <1>4, <2>9, <2>10, <2>11, <2>12, <2>13 DEF Record
<1>5. ASSUME NEW c \in Cases, NEW l, PrepareFinalization(c, l) PROVE Goal
  <2> PICK f : f = PreparedFact(c, l)
    OBVIOUS
  <2>1. AppendEvent(c, f) /\ State(c) = "TERMINAL_READY" /\ Constructible(c)
    BY <1>5 DEF PrepareFinalization, PreparedAdmissible
  <2>2. f.kind = "prepared" /\ f.outcome = Outcome(c, clock)
    BY DEF PreparedFact
  <2>3. f.outcome.recordedAt = clock
    BY <2>2 DEF Outcome
  <2>4. ~Has(c, "prepared") /\ ~Has(c, "finalized") /\ (Has(c, "no_entry") \/ Has(c, "exit"))
    BY <2>1 DEF State
  <2>5. Has(c, "opened")
    BY <2>4 DEF CollectionInv, CaseInv, OrderInv, Kinds
  <2>6. Accepts(c, f)
    BY <2>1, <2>2, <2>3, <2>4, <2>5 DEF Accepts, Kinds
  <2> QED
    BY <2>1, <2>6 DEF Stored
<1>6. ASSUME NEW c \in Cases, NEW f, f.kind = "finalized", FinalizedAdmissible(c, f), AppendEvent(c, f) PROVE Goal
  <2>1. Has(c, "prepared") /\ ~Has(c, "finalized")
    BY <1>6 DEF FinalizedAdmissible, State
  <2>2. Has(c, "opened")
    BY <2>1 DEF CollectionInv, CaseInv, OrderInv, Kinds
  <2>3. Accepts(c, f)
    BY <1>6, <2>1, <2>2 DEF Accepts, Kinds
  <2> QED
    BY <1>6, <2>3 DEF Stored
<1>7. ASSUME NEW t \in Time, SetClock(t) PROVE Goal
  BY <1>7 DEF SetClock, Time
<1>8. ASSUME NEW p \in Finalizers, Finalize(p) PROVE Goal
  <2>1. CASE Prepare(p)
    <3>1. call[p].pc # "idle" => call[p].case \in Cases
      BY DEF FinalizationInv, CallInv
    <3>2. call[p].case \in Cases
      BY <2>1, <3>1 DEF Prepare, At
    <3>3. UNCHANGED collectionVars \/ PrepareFinalization(call[p].case, call[p].ledger)
      BY <2>1 DEF Prepare
    <3> QED
      BY <1>2, <1>5, <3>2, <3>3
  <2>2. CASE RecordFinalized(p)
    <3>1. call[p].pc # "idle" => call[p].case \in Cases
      BY DEF FinalizationInv, CallInv
    <3>2. call[p].case \in Cases
      BY <2>2, <3>1 DEF RecordFinalized, At
    <3>3. FinalizedFact(p).kind = "finalized"
      BY DEF FinalizedFact
    <3>4. UNCHANGED collectionVars
          \/ (FinalizedAdmissible(call[p].case, FinalizedFact(p)) /\ AppendEvent(call[p].case, FinalizedFact(p)))
      BY <2>2 DEF RecordFinalized
    <3> QED
      BY <1>2, <1>6, <3>2, <3>3, <3>4
  <2>3. CASE ~Prepare(p) /\ ~RecordFinalized(p)
    <3>1. UNCHANGED collectionVars
      BY <1>8, <2>3 DEF Finalize, Begin, OpenAppend, Link, LinkBreaks, Commit, Recover, Unlink, ReadAuditTime, Audit, Crash
    <3> QED
      BY <1>2, <3>1
  <2> QED
    BY <2>1, <2>2, <2>3
<1>9. CASE UNCHANGED vars
  BY <1>2, <1>9 DEF vars
<1>10. CASE Collect
  BY <1>3, <1>4, <1>7, <1>10 DEF Collect
<1> QED
  BY <1>8, <1>9, <1>10 DEF Next

\* What is stored is the last event of the log, observed now, and those before it stay.
Grown(c, f, n) ==
  /\ n \in Nat /\ n > 0 /\ DOMAIN log = 1 .. (n - 1) /\ DOMAIN log' = 1 .. n /\ clock' = clock
  /\ \A i \in 1 .. (n - 1) : log'[i] = log[i] /\ Point(i)' = Point(i) /\ log[i].observed <= clock
  /\ log'[n] = [case |-> c, fact |-> f, observed |-> clock] /\ Point(n)' = f

LEMMA LogGrows ==
  ASSUME LogInv, EventsInv, NEW c, NEW f, AppendEvent(c, f)
  PROVE  \E n : Grown(c, f, n)
<1> DEFINE S == {log[i] : i \in DOMAIN log}
           e == [case |-> c, fact |-> f, observed |-> clock]
           T == S \cup {e}
<1>1. log \in Seq(T) /\ e \in T
  BY DEF LogInv
<1>2. log' = Append(log, e) /\ clock' = clock /\ Readable
  BY DEF AppendEvent
<1>3. Len(log) \in Nat /\ DOMAIN log = 1..Len(log)
  BY <1>1
<1> PICK n \in Nat : n = Len(log) + 1
  BY <1>3
<1> HIDE DEF e, T
<1>4. DOMAIN log' = 1 .. n /\ log'[n] = e /\ \A i \in 1 .. (n - 1) : log'[i] = log[i]
  <2>1. log' \in Seq(T) /\ Len(log') = n /\ log'[n] = e /\ \A i \in 1 .. Len(log) : log'[i] = log[i]
    BY <1>1, <1>2, AppendProperties
  <2> QED
    BY <2>1
<1>5. \A i \in 1 .. (n - 1) : log[i].observed <= clock
  <2> SUFFICES ASSUME NEW i \in 1 .. (n - 1) PROVE log[i].observed <= clock
    OBVIOUS
  <2> PICK m \in Nat : m = Len(log)
    BY <1>3
  <2>1. m \in DOMAIN log /\ i \in DOMAIN log /\ i <= m /\ log # <<>>
    BY <1>3
  <2>2. Last(log) = log[m]
    BY DEF Last
  <2>3. log[i].observed <= log[m].observed /\ log[m].observed <= clock
    BY <1>2, <2>1, <2>2 DEF EventsInv, Readable
  <2>4. log[i].observed \in Nat /\ log[m].observed \in Nat /\ clock \in Nat
    BY <2>1 DEF EventsInv
  <2> QED
    BY <2>3, <2>4, SMTT(60)
<1>6. \A i \in 1 .. (n - 1) : Point(i)' = Point(i)
  BY <1>4 DEF Point
<1>7. Point(n)' = f
  BY <1>4 DEF Point, e
<1> QED
  BY <1>2, <1>3, <1>4, <1>5, <1>6, <1>7 DEF Grown, e

\* A path grows by the point that is stored.
LEMMA PathGrows ==
  ASSUME NEW c, NEW f, NEW n, Grown(c, f, n), NEW d
  PROVE  /\ Path(d) \subseteq 1 .. (n - 1)
         /\ d = c /\ f.kind = "point" => Path(d)' = Path(d) \cup {n}
         /\ d # c \/ f.kind # "point" => Path(d)' = Path(d)
<1>1. Path(d) \subseteq 1 .. (n - 1)
  BY DEF Grown, Path
<1>2. \A i \in 1 .. (n - 1) : i \in DOMAIN log /\ i \in DOMAIN log' /\ (Is(i, d, "point")' <=> Is(i, d, "point"))
  BY DEF Grown, Is
<1>3. n \in DOMAIN log' /\ (Is(n, d, "point")' <=> d = c /\ f.kind = "point")
  BY DEF Grown, Is
<1>4. \A i : i \in Path(d)' <=> i \in Path(d) \/ (i = n /\ d = c /\ f.kind = "point")
  <2>1. \A i \in DOMAIN log' : i \in 1 .. (n - 1) \/ i = n
    BY DEF Grown
  <2>2. n \notin 1 .. (n - 1)
    BY DEF Grown
  <2> QED
    BY <1>1, <1>2, <1>3, <2>1, <2>2 DEF Path
<1> QED
  BY <1>1, <1>4

\* A fact of a kind a case has but once stays that fact.
LEMMA FactsStay ==
  ASSUME LogInv, NEW c, NEW f, Stored(c, f), NEW d, NEW k, k # "point"
  PROVE  /\ Has(d, k) => Has(d, k)' /\ Fact(d, k)' = Fact(d, k)
         /\ Has(d, k)' => Has(d, k) \/ (d = c /\ k = f.kind /\ Fact(d, k)' = f)
         /\ d = c /\ k = f.kind => Has(d, k)' /\ Fact(d, k)' = f
<1>1. CASE d # c \/ k # f.kind
  BY <1>1, OthersStay DEF Stored
<1>2. CASE d = c /\ k = f.kind
  BY <1>2, FirstOfKind DEF Stored, Accepts
<1> QED
  BY <1>1, <1>2

LEMMA EventsGrow ==
  ASSUME LogInv, EventsInv, NEW c \in Cases, NEW f, Stored(c, f)
  PROVE  EventsInv'
<1> PICK n : Grown(c, f, n)
  BY LogGrows DEF Stored
<1>1. clock \in Nat /\ clock' \in Nat /\ n \in DOMAIN log' /\ DOMAIN log = 1 .. (n - 1)
      /\ n \in Nat /\ n > 0 /\ DOMAIN log' = 1 .. n
  BY DEF EventsInv, Grown
<1>2. \A i \in DOMAIN log : log'[i] = log[i] /\ log[i].observed <= clock
  BY DEF Grown
<1>3. log'[n].case = c /\ log'[n].fact = f /\ log'[n].observed = clock
  BY DEF Grown
<1>4. Accepts(c, f)
  BY DEF Stored
<1>5. \A i \in DOMAIN log' : i \in DOMAIN log \/ i = n
  BY <1>1
<1> DEFINE Good(e) ==
         /\ e.case \in Cases /\ e.fact.kind \in Kinds /\ e.observed \in Nat
         /\ e.fact.kind = "point" => e.fact.at \in Nat /\ e.fact.at <= e.observed
         /\ e.fact.kind = "opened" =>
              /\ e.case = CaseId(e.fact.snapshot, Mode(e.case))
              /\ e.fact = [kind |-> "opened", snapshot |-> e.fact.snapshot, capturedAt |-> e.fact.capturedAt]
         /\ e.fact.kind = "request" =>
              e.fact = [kind |-> "request", at |-> e.fact.at, reason |-> e.fact.reason,
                        evidence |-> e.fact.evidence, whole |-> e.fact.whole, prefix |-> e.fact.prefix]
<1>6. Good(log'[n])
  <2>1. f.kind = "point" => f.at \in Nat /\ f.at <= clock
    <3>1. f.kind = "point" => f.at \in Entry(c).at .. clock
      BY <1>4 DEF Accepts, PointAdmissible, Since
    <3> QED
      BY <1>1, <1>4, <3>1 DEF Accepts
  <2>2. f.kind = "opened" =>
          /\ c = CaseId(f.snapshot, Mode(c))
          /\ f = [kind |-> "opened", snapshot |-> f.snapshot, capturedAt |-> f.capturedAt]
    <3> HAVE f.kind = "opened"
    <3>1. c = CaseId(f.snapshot, Mode(c)) /\ f = OpenFact(f.snapshot, Mode(c))
      BY <1>4 DEF Accepts
    <3> PICK s, t : s = f.snapshot /\ f = [kind |-> "opened", snapshot |-> s, capturedAt |-> t]
      BY <3>1 DEF OpenFact
    <3>2. f.capturedAt = t
      OBVIOUS
    <3> QED
      BY <3>1, <3>2
  <2>3. f.kind = "request" => f = [kind |-> "request", at |-> f.at, reason |-> f.reason,
                                   evidence |-> f.evidence, whole |-> f.whole, prefix |-> f.prefix]
    BY <1>4 DEF Accepts
  <2>4. f.kind \in Kinds
    BY <1>4 DEF Accepts
  <2> QED
    BY <1>1, <1>3, <2>1, <2>2, <2>3, <2>4
<1>7. \A i \in DOMAIN log : Good(log[i])
  BY DEF EventsInv
<1>8. \A i \in DOMAIN log' : Good(log'[i])
  <2> HIDE DEF Good
  <2> QED
    BY <1>2, <1>5, <1>6, <1>7
<1>9. \A i, j \in DOMAIN log' : i <= j => log'[i].observed <= log'[j].observed
  <2> SUFFICES ASSUME NEW i \in DOMAIN log', NEW j \in DOMAIN log', i <= j PROVE log'[i].observed <= log'[j].observed
    OBVIOUS
  <2>1. CASE j \in DOMAIN log
    <3>1. i \in DOMAIN log
      BY <1>1, <2>1
    <3> QED
      BY <1>2, <2>1, <3>1 DEF EventsInv
  <2>2. CASE j = n /\ i \in DOMAIN log
    BY <1>2, <1>3, <2>2
  <2>3. CASE j = n /\ i = n
    BY <1>1, <1>3, <2>3
  <2> QED
    BY <1>5, <2>1, <2>2, <2>3
<1> QED
  BY <1>1, <1>8, <1>9 DEF EventsInv

-----------------------------------------------------------------------------
\* What was decided of a case depends on its facts and on the points it was decided on.
LEMMA ReasonStays ==
  ASSUME NEW c, Entry(c)' = Entry(c), Snapshot(c)' = Snapshot(c), NEW f,
         NEW m \in Nat, f.prefix \subseteq 1 .. m, \A i \in 1 .. m : Point(i)' = Point(i)
  PROVE  ReasonHolds(c, f)' <=> ReasonHolds(c, f)
<1>1. Observable(f.prefix, f.at)' = Observable(f.prefix, f.at)
  BY DEF Observable
<1>2. Horizon(c)' = Horizon(c)
  BY DEF Horizon
<1> PICK known : known = Observable(f.prefix, f.at)
  OBVIOUS
<1>3. known \subseteq 1 .. m /\ \A i \in known : Point(i)' = Point(i)
  BY DEF Observable
<1>4. \A i \in known : (HitsTarget(i)' <=> HitsTarget(i)) /\ (HitsStop(i)' <=> HitsStop(i))
  BY <1>3 DEF HitsTarget, HitsStop
<1>5. Touches(c, known)' = Touches(c, known)
  BY <1>2, <1>3, <1>4 DEF Touches
<1> PICK touches : touches = Touches(c, known)
  OBVIOUS
<1>6. touches # {} => Min(touches) \in known
  <2>1. touches \subseteq known
    BY DEF Touches
  <2>2. IsFiniteSet(1 .. m)
    BY FS_Interval
  <2>3. IsFiniteSet(touches) /\ touches \in SUBSET Int
    BY <1>3, <2>1, <2>2, FS_Subset
  <2> QED
    BY <2>1, <2>3, MinIs
<1>7. touches # {} => /\ HitsTarget(Min(touches))' <=> HitsTarget(Min(touches))
                      /\ HitsStop(Min(touches))' <=> HitsStop(Min(touches))
  BY <1>4, <1>6
<1>8. (\E i \in known : Point(i).bar.session = Horizon(c))' <=> \E i \in known : Point(i).bar.session = Horizon(c)
  BY <1>2, <1>3
<1>9. ReasonHolds(c, f) <=>
        /\ f.reason = "TARGET" => touches # {} /\ HitsTarget(Min(touches)) /\ ~HitsStop(Min(touches))
        /\ f.reason = "STOP" => touches # {} /\ HitsStop(Min(touches)) /\ ~HitsTarget(Min(touches))
        /\ f.reason = "TIMEOUT" => touches = {} /\ \E i \in known : Point(i).bar.session = Horizon(c)
  BY DEF ReasonHolds
<1>10. known = Observable(f.prefix, f.at)' /\ touches = Touches(c, known)'
  BY <1>1, <1>5
<1>11. ReasonHolds(c, f)' <=>
        /\ f.reason = "TARGET" => touches # {} /\ HitsTarget(Min(touches))' /\ ~HitsStop(Min(touches))'
        /\ f.reason = "STOP" => touches # {} /\ HitsStop(Min(touches))' /\ ~HitsTarget(Min(touches))'
        /\ f.reason = "TIMEOUT" => touches = {} /\ (\E i \in known : Point(i).bar.session = Horizon(c))'
  BY <1>10 DEF ReasonHolds
<1> QED
  BY <1>7, <1>8, <1>9, <1>11

LEMMA CoverageStays ==
  ASSUME NEW c, Entry(c)' = Entry(c), Snapshot(c)' = Snapshot(c), Request(c)' = Request(c), Path(c)' = Path(c),
         \A i \in Path(c) : Point(i)' = Point(i), NEW f
  PROVE  Covers(c, f)' <=> Covers(c, f)
<1>1. \A session : Shown(c, session)' = Shown(c, session)
  BY DEF Shown
<1>2. \A price : InRange(price, Shown(c, Entry(c).session))' <=> InRange(price, Shown(c, Entry(c).session))
  BY <1>1 DEF InRange
<1>3. InRange(Entry(c).price, Shown(c, Entry(c).session))' <=> InRange(Entry(c).price, Shown(c, Entry(c).session))
  BY <1>1 DEF InRange
<1>4. InRange(f.price, Shown(c, f.session))' <=> InRange(f.price, Shown(c, f.session))
  BY <1>1 DEF InRange
<1> QED
  BY <1>1, <1>3, <1>4 DEF Covers

LEMMA OutcomeStays ==
  ASSUME NEW c, Has(c, "entry")' <=> Has(c, "entry"),
         Has(c, "entry") => /\ Entry(c)' = Entry(c) /\ Exit(c)' = Exit(c) /\ Path(c)' = Path(c)
                            /\ \A i \in Path(c) : Point(i)' = Point(i)
  PROVE  Constructible(c) => Constructible(c)'
BY DEF Constructible, Priced

\* The facts of a case are those it had and the one that is stored.
LEMMA FactsGrow ==
  ASSUME NEW c, NEW f, NEW n, Grown(c, f, n), NEW d
  PROVE  Facts(d)' = Facts(d) \cup (IF d = c THEN {f} ELSE {})
<1>1. DOMAIN log = 1 .. (n - 1) /\ DOMAIN log' = 1 .. n /\ n \in Nat /\ n > 0
      /\ \A i \in 1 .. (n - 1) : log'[i] = log[i]
  BY DEF Grown
<1>2. log'[n].case = c /\ log'[n].fact = f /\ n \notin 1 .. (n - 1)
  BY <1>1 DEF Grown
<1>3. Facts(d)' = {log'[i].fact : i \in {j \in DOMAIN log' : log'[j].case = d}}
  BY DEF Facts
<1>4. DOMAIN log' = DOMAIN log \cup {n}
  BY <1>1
<1> DEFINE old == {j \in DOMAIN log : log[j].case = d}
           new == {j \in DOMAIN log' : log'[j].case = d}
<1>5. new = old \cup (IF d = c THEN {n} ELSE {}) /\ \A i \in old : log'[i] = log[i]
  BY <1>1, <1>2, <1>4
<1>6. Facts(d) = {log[i].fact : i \in old} /\ Facts(d)' = {log'[i].fact : i \in new}
  BY <1>3 DEF Facts
<1> HIDE DEF old, new
<1> QED
  BY <1>2, <1>5, <1>6

-----------------------------------------------------------------------------
\* The facts of a case are stored in the order of its life.
LEMMA OrderKept ==
  ASSUME LogInv, CollectionInv, NEW c \in Cases, NEW f, Stored(c, f), NEW d \in Cases
  PROVE  OrderInv(d)'
<1> PICK n : Grown(c, f, n)
  BY LogGrows DEF Stored, CollectionInv
<1>1. OrderInv(d) /\ OrderInv(c) /\ Accepts(c, f)
  BY DEF CollectionInv, CaseInv, Stored
<1>2. \A k \in Kinds \ {"point"} :
        /\ Has(d, k) => Has(d, k)' /\ Fact(d, k)' = Fact(d, k)
        /\ Has(d, k)' => Has(d, k) \/ (d = c /\ k = f.kind /\ Fact(d, k)' = f)
        /\ d = c /\ k = f.kind => Has(d, k)' /\ Fact(d, k)' = f
  BY FactsStay
<1>3. Has(d, "point")' => Has(d, "point") \/ (d = c /\ f.kind = "point")
  BY OthersStay DEF Stored
<1>4. ASSUME NEW k \in Kinds \ {"point"}, NEW i \in DOMAIN log', NEW j \in DOMAIN log', Is(i, d, k)', Is(j, d, k)'
      PROVE  i = j
  <2>1. DOMAIN log = 1 .. (n - 1) /\ \A l \in DOMAIN log' : l \in DOMAIN log \/ l = n
    BY DEF Grown
  <2>2. \A l \in DOMAIN log : Is(l, d, k)' <=> Is(l, d, k)
    BY DEF Grown, Is
  <2>3. Is(n, d, k)' <=> d = c /\ k = f.kind
    BY DEF Grown, Is
  <2>4. d = c /\ k = f.kind => \A l \in DOMAIN log : ~Is(l, d, k)
    BY <1>1 DEF Accepts, Has
  <2> QED
    BY <1>1, <1>4, <2>1, <2>2, <2>3, <2>4 DEF OrderInv
<1>5. Has(d, "opened")' \/ \A k \in Kinds : ~Has(d, k)'
  <2>1. \A k \in Kinds : Has(d, k)' => Has(d, k) \/ (d = c /\ k = f.kind)
    BY <1>2, <1>3
  <2>2. d = c => Has(d, "opened")'
    BY <1>1, <1>2 DEF Accepts, Kinds
  <2>3. \A k \in Kinds : Has(d, k) => Has(d, "opened")'
    BY <1>1, <1>2 DEF OrderInv, Kinds
  <2> QED
    BY <2>1, <2>2, <2>3
<1>6. Has(d, "point")' \/ Has(d, "request")' \/ Has(d, "exit")' => Has(d, "entry")'
  BY <1>1, <1>2, <1>3 DEF OrderInv, Accepts, Kinds
<1>7. Has(d, "entry")' => ~Has(d, "no_entry")'
  BY <1>1, <1>2 DEF OrderInv, Accepts, Kinds
<1>8. /\ Has(d, "exit")' => Has(d, "request")'
      /\ Has(d, "prepared")' => Has(d, "no_entry")' \/ Has(d, "exit")'
      /\ Has(d, "finalized")' => Has(d, "prepared")'
  BY <1>1, <1>2 DEF OrderInv, Accepts, Kinds
<1> QED
  BY <1>4, <1>5, <1>6, <1>7, <1>8 DEF OrderInv

LEMMA PathIsFinite ==
  ASSUME NEW n \in Nat, DOMAIN log = 1 .. (n - 1), NEW c
  PROVE  Path(c) \in SUBSET Int /\ IsFiniteSet(Path(c)) /\ IsFiniteSet(DOMAIN log)
<1>1. IsFiniteSet(1 .. (n - 1))
  BY FS_Interval
<1> QED
  BY <1>1, FS_Subset DEF Path

\* The last point of a path is its latest.
LEMMA LastIsLatest ==
  ASSUME NEW n \in Nat, DOMAIN log = 1 .. (n - 1), EventsInv, NEW c, PathInv(c), NEW i \in Path(c)
  PROVE  /\ Max(Path(c)) \in Path(c) /\ Point(Max(Path(c))).at \in Nat
         /\ Point(i).at \in Nat /\ Point(i).at <= Point(Max(Path(c))).at
<1>1. Max(Path(c)) \in Path(c) /\ i <= Max(Path(c))
  BY PathIsFinite, MaxIs
<1>2. \A j \in Path(c) : Point(j).at \in Nat
  BY DEF Path, Is, Point, EventsInv
<1> PICK last : last = Max(Path(c))
  OBVIOUS
<1>3. i \in Int /\ last \in Int
  BY <1>1 DEF Path
<1>4. CASE i = last
  BY <1>1, <1>2, <1>4
<1>5. CASE i < last
  <2>1. Point(i).at < Point(last).at
    BY <1>1, <1>5 DEF PathInv
  <2> QED
    BY <1>1, <1>2, <2>1
<1> QED
  BY <1>1, <1>3, <1>4, <1>5

\* A point is stored after those of its path, and was made later.
LEMMA PathKept ==
  ASSUME LogInv, CollectionInv, NEW c \in Cases, NEW f, Stored(c, f), NEW d \in Cases
  PROVE  PathInv(d)'
<1> PICK n : Grown(c, f, n)
  BY LogGrows DEF Stored, CollectionInv
<1>1. PathInv(d) /\ EventsInv /\ Accepts(c, f) /\ n \in Nat /\ DOMAIN log = 1 .. (n - 1)
  BY DEF CollectionInv, CaseInv, Stored, Grown
<1>2. /\ Path(d) \subseteq 1 .. (n - 1) /\ \A i \in Path(d) : Point(i)' = Point(i)
      /\ d = c /\ f.kind = "point" => Path(d)' = Path(d) \cup {n}
      /\ d # c \/ f.kind # "point" => Path(d)' = Path(d)
  BY PathGrows DEF Grown
<1>3. CASE d = c /\ f.kind = "point"
  <2>1. ASSUME NEW i \in Path(d) PROVE Point(i).at < f.at
    <3>1. Point(i).at \in Nat /\ Point(Max(Path(d))).at \in Nat /\ Point(i).at <= Point(Max(Path(d))).at
      BY <1>1, LastIsLatest
    <3>2. f.at > Point(Max(Path(d))).at
      BY <1>1, <1>3, <2>1 DEF Accepts, PointAdmissible, InOrder
    <3>3. f.at \in Nat
      BY <1>1, <1>3 DEF Accepts
    <3> QED
      BY <3>1, <3>2, <3>3
  <2>2. Point(n)' = f
    BY DEF Grown
  <2> SUFFICES ASSUME NEW i \in Path(d)', NEW j \in Path(d)', i < j PROVE Point(i)'.at < Point(j)'.at
    BY DEF PathInv
  <2>3. i \in Path(d)
    BY <1>1, <1>2, <1>3
  <2>4. j \in Path(d) \/ j = n
    BY <1>2, <1>3
  <2> QED
    BY <1>1, <1>2, <2>1, <2>2, <2>3, <2>4 DEF PathInv
<1>4. CASE d # c \/ f.kind # "point"
  BY <1>1, <1>2, <1>4 DEF PathInv
<1> QED
  BY <1>3, <1>4

\* What an exit was requested on stays what was known then.
LEMMA RequestKept ==
  ASSUME LogInv, CollectionInv, NEW c \in Cases, NEW f, Stored(c, f), NEW d \in Cases
  PROVE  RequestInv(d)'
<1> PICK n : Grown(c, f, n)
  BY LogGrows DEF Stored, CollectionInv
<1>1. RequestInv(d) /\ OrderInv(d) /\ EventsInv /\ Accepts(c, f) /\ n \in Nat /\ n > 0 /\ DOMAIN log = 1 .. (n - 1)
  BY DEF CollectionInv, CaseInv, Stored, Grown
<1>2. /\ Path(d) \subseteq 1 .. (n - 1)
      /\ d = c /\ f.kind = "point" => Path(d)' = Path(d) \cup {n}
      /\ d # c \/ f.kind # "point" => Path(d)' = Path(d)
  BY PathGrows
<1>3. \A k \in Kinds \ {"point"} :
        /\ Has(d, k) => Has(d, k)' /\ Fact(d, k)' = Fact(d, k)
        /\ Has(d, k)' => Has(d, k) \/ (d = c /\ k = f.kind /\ Fact(d, k)' = f)
  BY FactsStay
<1>4. \A i \in 1 .. (n - 1) : Point(i)' = Point(i) /\ log'[i] = log[i]
  BY DEF Grown
<1>5. \A t : KnownAt(Path(d), t) \subseteq 1 .. (n - 1) /\ {i \in Path(d) : log'[i].observed <= t} = KnownAt(Path(d), t)
  BY <1>2, <1>4 DEF KnownAt
<1>6. CASE Has(d, "request")
  <2> PICK r : r = Request(d)
    OBVIOUS
  <2>1. Has(d, "entry") /\ Has(d, "opened")
    BY <1>1, <1>6 DEF OrderInv, Kinds
  <2>2. Entry(d)' = Entry(d) /\ Snapshot(d)' = Snapshot(d) /\ Request(d)' = r
    BY <1>3, <1>6, <2>1 DEF Entry, Snapshot, Request, Kinds
  <2>3. r.at \in Nat /\ r.prefix = KnownAt(Path(d), r.at) /\ ReasonHolds(d, r)
    BY <1>1, <1>6 DEF RequestInv
  <2>4. ReasonHolds(d, r)'
    <3>1. r.prefix \subseteq 1 .. (n - 1) /\ n - 1 \in Nat
      BY <1>1, <1>5, <2>3
    <3>2. ReasonHolds(d, r)' <=> ReasonHolds(d, r)
      BY <1>4, <2>2, <3>1, ReasonStays
    <3> QED
      BY <2>3, <3>2
  <2>5. KnownAt(Path(d), r.at)' = KnownAt(Path(d), r.at)
    <3>1. CASE d = c /\ f.kind = "point"
      <4>1. clock > r.at
        BY <1>1, <1>6, <3>1 DEF Accepts, PointAdmissible, AfterRequest
      <4>2. log'[n].observed = clock /\ clock \in Nat
        BY <1>1 DEF Grown, EventsInv
      <4>3. ~(log'[n].observed <= r.at)
        BY <2>3, <4>1, <4>2
      <4> QED
        BY <1>2, <1>5, <3>1, <4>3 DEF KnownAt
    <3>2. CASE d # c \/ f.kind # "point"
      BY <1>2, <1>5, <3>2 DEF KnownAt
    <3> QED
      BY <3>1, <3>2
  <2> QED
    BY <2>2, <2>3, <2>4, <2>5 DEF RequestInv
<1>7. CASE ~Has(d, "request") /\ Has(d, "request")'
  <2>1. d = c /\ f.kind = "request" /\ Request(d)' = f
    BY <1>3, <1>7 DEF Request, Kinds
  <2>2. Has(d, "entry") /\ Has(d, "opened") /\ f.at \in Nat /\ f.prefix = KnownAt(Path(d), f.at) /\ ReasonHolds(d, f)
    BY <1>1, <2>1 DEF Accepts
  <2>3. Entry(d)' = Entry(d) /\ Snapshot(d)' = Snapshot(d)
    BY <1>3, <2>2 DEF Entry, Snapshot, Kinds
  <2>4. ReasonHolds(d, f)'
    <3>1. f.prefix \subseteq 1 .. (n - 1) /\ n - 1 \in Nat
      BY <1>1, <1>5, <2>2
    <3>2. ReasonHolds(d, f)' <=> ReasonHolds(d, f)
      BY <1>4, <2>3, <3>1, ReasonStays
    <3> QED
      BY <2>2, <3>2
  <2>5. KnownAt(Path(d), f.at)' = KnownAt(Path(d), f.at)
    BY <1>2, <1>5, <2>1 DEF KnownAt
  <2> QED
    BY <2>1, <2>2, <2>4, <2>5 DEF RequestInv
<1>8. CASE ~Has(d, "request")'
  BY <1>8 DEF RequestInv
<1> QED
  BY <1>6, <1>7, <1>8

\* Once the exit is filled the path is complete.
LEMMA ExitKept ==
  ASSUME LogInv, CollectionInv, NEW c \in Cases, NEW f, Stored(c, f), NEW d \in Cases
  PROVE  ExitInv(d)'
<1> PICK n : Grown(c, f, n)
  BY LogGrows DEF Stored, CollectionInv
<1>1. /\ ExitInv(d) /\ OrderInv(d) /\ PathInv(d) /\ EventsInv /\ Accepts(c, f)
      /\ n \in Nat /\ DOMAIN log = 1 .. (n - 1)
  BY DEF CollectionInv, CaseInv, Stored, Grown
<1>2. /\ d # c \/ f.kind # "point" => Path(d)' = Path(d)
      /\ \A i \in Path(d) : Point(i)' = Point(i)
  BY PathGrows DEF Grown
<1>3. \A k \in Kinds \ {"point"} :
        /\ Has(d, k) => Has(d, k)' /\ Fact(d, k)' = Fact(d, k)
        /\ Has(d, k)' => Has(d, k) \/ (d = c /\ k = f.kind /\ Fact(d, k)' = f)
  BY FactsStay
<1>4. SUFFICES ASSUME Has(d, "exit")' PROVE Covers(d, Exit(d))' /\ \A i \in Path(d)' : Point(i)'.at <= Exit(d)'.at
  BY DEF ExitInv
<1> PICK g : g = Exit(d)'
  OBVIOUS
<1>5. Has(d, "exit") \/ (d = c /\ f.kind = "exit" /\ g = f)
  BY <1>3, <1>4 DEF Exit, Kinds
<1>6. Path(d)' = Path(d) /\ Has(d, "request")
  BY <1>1, <1>2, <1>5 DEF Accepts, OrderInv
<1>7. Has(d, "entry") /\ Has(d, "opened")
  BY <1>1, <1>6 DEF OrderInv, Kinds
<1>8. Entry(d)' = Entry(d) /\ Snapshot(d)' = Snapshot(d) /\ Request(d)' = Request(d)
  BY <1>3, <1>6, <1>7 DEF Entry, Snapshot, Request, Kinds
<1>9. Covers(d, g) /\ \A i \in Path(d) : Point(i).at <= g.at
  <2>1. CASE Has(d, "exit")
    <3>1. g = Exit(d)
      BY <1>3, <2>1 DEF Exit, Kinds
    <3> QED
      BY <1>1, <2>1, <3>1 DEF ExitInv
  <2>2. CASE d = c /\ f.kind = "exit" /\ g = f
    <3>1. ExitAdmissible(d, g) /\ g.at \in Nat
      BY <1>1, <2>2 DEF Accepts
    <3>2. ASSUME NEW i \in Path(d) PROVE Point(i).at <= g.at
      <4>1. Point(i).at \in Nat /\ Point(Max(Path(d))).at \in Nat /\ Point(i).at <= Point(Max(Path(d))).at
        BY <1>1, LastIsLatest
      <4>2. Point(Max(Path(d))).at <= g.at
        BY <3>1, <3>2 DEF ExitAdmissible
      <4> QED
        BY <3>1, <4>1, <4>2
    <3> QED
      BY <3>1, <3>2 DEF ExitAdmissible
  <2> QED
    BY <1>5, <2>1, <2>2
<1>10. Covers(d, g)'
  <2>1. Covers(d, g)' <=> Covers(d, g)
    BY <1>2, <1>6, <1>8, CoverageStays
  <2> QED
    BY <1>9, <2>1
<1> QED
  BY <1>2, <1>6, <1>9, <1>10

\* What was prepared stays what is built of the facts.
LEMMA PreparedKept ==
  ASSUME LogInv, CollectionInv, NEW c \in Cases, NEW f, Stored(c, f), NEW d \in Cases
  PROVE  PreparedInv(d)'
<1> PICK n : Grown(c, f, n)
  BY LogGrows DEF Stored, CollectionInv
<1>1. PreparedInv(d) /\ OrderInv(d) /\ Accepts(c, f)
  BY DEF CollectionInv, CaseInv, Stored
<1>2. /\ d # c \/ f.kind # "point" => Path(d)' = Path(d)
      /\ \A i \in Path(d) : Point(i)' = Point(i)
  BY PathGrows DEF Grown
<1>3. \A k \in Kinds \ {"point"} :
        /\ Has(d, k) => Has(d, k)' /\ Fact(d, k)' = Fact(d, k)
        /\ Has(d, k)' => Has(d, k) \/ (d = c /\ k = f.kind /\ Fact(d, k)' = f)
  BY FactsStay
<1>4. SUFFICES ASSUME Has(d, "prepared")' PROVE PreparedInv(d)'
  BY DEF PreparedInv
<1> PICK g : g = Fact(d, "prepared")'
  OBVIOUS
<1>5. Has(d, "prepared") \/ (d = c /\ f.kind = "prepared" /\ g = f)
  BY <1>3, <1>4 DEF Kinds
<1>6. Has(d, "no_entry") \/ Has(d, "exit")
  BY <1>1, <1>5 DEF Accepts, OrderInv
<1>7. d = c => f.kind \in {"prepared", "finalized"}
  BY <1>1, <1>5, <1>6 DEF Accepts, OrderInv, Kinds
<1>8. Path(d)' = Path(d)
  BY <1>2, <1>7
<1>9. (Has(d, "entry")' <=> Has(d, "entry"))
      /\ (Has(d, "entry") => Has(d, "exit") /\ Entry(d)' = Entry(d) /\ Exit(d)' = Exit(d))
  BY <1>1, <1>3, <1>6, <1>7 DEF OrderInv, Entry, Exit, Kinds
<1>10. Constructible(d) /\ g.outcome = Outcome(d, g.outcome.recordedAt)
  BY <1>1, <1>3, <1>5 DEF PreparedInv, Accepts, Kinds
<1>11. Constructible(d)'
  BY <1>2, <1>8, <1>9, <1>10, OutcomeStays
<1>12. \A t : Outcome(d, t)' = Outcome(d, t)
  <2>1. Facts(d)' = Facts(d) \cup (IF d = c THEN {f} ELSE {})
    BY FactsGrow
  <2> QED
    BY <1>7, <2>1 DEF Outcome
<1> QED
  BY <1>10, <1>11, <1>12 DEF PreparedInv

LEMMA CollectionInitInv == Init => CollectionInv
<1> SUFFICES ASSUME Init PROVE CollectionInv
  OBVIOUS
<1>1. DOMAIN log = {} /\ clock = 0
  BY DEF Init, CollectionInit
<1>2. \A c, k : ~Has(c, k)
  BY <1>1 DEF Has
<1>3. \A c : Path(c) = {}
  BY <1>1 DEF Path
<1>4. EventsInv
  BY <1>1 DEF EventsInv
<1>5. \A c : CaseInv(c)
  BY <1>1, <1>2, <1>3 DEF CaseInv, OrderInv, PathInv, RequestInv, ExitInv, PreparedInv
<1> QED
  BY <1>4, <1>5 DEF CollectionInv

LEMMA CollectionStands ==
  ASSUME CollectionInv, log' = log, clock' \in Nat
  PROVE  CollectionInv'
<1>1. /\ \A c, k : (Has(c, k)' <=> Has(c, k)) /\ Fact(c, k)' = Fact(c, k)
      /\ \A i : Point(i)' = Point(i)
      /\ \A c : Path(c)' = Path(c) /\ Facts(c)' = Facts(c)
  BY DEF Has, Fact, Is, Point, Path, Facts
<1>2. /\ \A c : Entry(c)' = Entry(c) /\ Snapshot(c)' = Snapshot(c) /\ Request(c)' = Request(c) /\ Exit(c)' = Exit(c)
      /\ \A c, t : Outcome(c, t)' = Outcome(c, t) /\ KnownAt(Path(c), t)' = KnownAt(Path(c), t)
  BY <1>1 DEF Entry, Snapshot, Request, Exit, Outcome, KnownAt
<1>3. EventsInv'
  BY DEF CollectionInv, EventsInv
<1>4. ASSUME NEW c \in Cases PROVE CaseInv(c)'
  <2>1. CaseInv(c)
    BY DEF CollectionInv
  <2>2. OrderInv(c)'
    BY <1>1, <1>2, <2>1 DEF CaseInv, OrderInv, Is
  <2>3. PathInv(c)'
    BY <1>1, <2>1 DEF CaseInv, PathInv
  <2>4. RequestInv(c)'
    <3> PICK r : r = Request(c)
      OBVIOUS
    <3>1. ReasonHolds(c, r)' <=> ReasonHolds(c, r)
      BY <1>1, <1>2 DEF ReasonHolds, Observable, Touches, HitsTarget, HitsStop, Horizon
    <3> QED
      BY <1>1, <1>2, <2>1, <3>1 DEF CaseInv, RequestInv
  <2>5. ExitInv(c)'
    <3> PICK g : g = Exit(c)
      OBVIOUS
    <3>1. Covers(c, g)' <=> Covers(c, g)
      BY <1>1, <1>2, CoverageStays
    <3> QED
      BY <1>1, <1>2, <2>1, <3>1 DEF CaseInv, ExitInv
  <2>6. PreparedInv(c)'
    <3>1. Constructible(c) => Constructible(c)'
      BY <1>1, <1>2, OutcomeStays
    <3> QED
      BY <1>1, <1>2, <2>1, <3>1 DEF CaseInv, PreparedInv
  <2> QED
    BY <2>2, <2>3, <2>4, <2>5, <2>6 DEF CaseInv
<1> QED
  BY <1>3, <1>4 DEF CollectionInv

\* The collection keeps its invariant, whoever calls it and however the clock is set.
THEOREM CollectionInvariant == Spec => []CollectionInv
<1>1. Init => CollectionInv
  BY CollectionInitInv
<1>2. FinalizationInv /\ CollectionInv /\ [Next]_vars => CollectionInv'
  <2> SUFFICES ASSUME FinalizationInv, CollectionInv, [Next]_vars PROVE CollectionInv'
    OBVIOUS
  <2>1. LogInv /\ EventsInv
    BY DEF FinalizationInv, CollectionInv
  <2>2. ASSUME NEW c \in Cases, NEW f, Stored(c, f) PROVE CollectionInv'
    <3>1. EventsInv'
      BY <2>1, <2>2, EventsGrow
    <3>2. ASSUME NEW d \in Cases PROVE CaseInv(d)'
      BY <2>1, <2>2, OrderKept, PathKept, RequestKept, ExitKept, PreparedKept DEF CaseInv
    <3> QED
      BY <3>1, <3>2 DEF CollectionInv
  <2>3. CASE log' = log /\ clock' \in Nat
    BY <2>3, CollectionStands
  <2> QED
    BY <2>2, <2>3, CollectionSteps
<1> QED
  BY <1>1, <1>2, FinalizationInvariant, PTL DEF Spec

-----------------------------------------------------------------------------
\* The one fact of its kind is what the case says of that kind.
LEMMA TheFact ==
  ASSUME NEW c, OrderInv(c), NEW k \in Kinds \ {"point"}, NEW i \in DOMAIN log, Is(i, c, k)
  PROVE  Has(c, k) /\ Fact(c, k) = log[i].fact
<1>1. \A j \in DOMAIN log : Is(j, c, k) => j = i
  BY DEF OrderInv
<1> QED
  BY <1>1 DEF Has, Fact

\* A part of a set that has all below each of its members is the first so many of the set.
LEMMA FirstIs ==
  ASSUME NEW S \in SUBSET Int, IsFiniteSet(S), NEW T, T \subseteq S,
         \A x \in T, y \in S : y <= x => y \in T
  PROVE  First(S, Cardinality(T)) = T
<1>1. IsFiniteSet(T) /\ Cardinality(T) \in Nat
  BY FS_Subset, FS_CardinalityType
<1> DEFINE below(x) == {y \in S : y <= x}
<1>2. \A x \in S : IsFiniteSet(below(x)) /\ Cardinality(below(x)) \in Nat
  BY FS_Subset, FS_CardinalityType
<1>3. ASSUME NEW x \in T PROVE Cardinality(below(x)) <= Cardinality(T)
  <2>1. below(x) \subseteq T
    BY <1>3
  <2> QED
    BY <1>1, <2>1, FS_Subset
<1>4. ASSUME NEW x \in S \ T PROVE ~(Cardinality(below(x)) <= Cardinality(T))
  <2>1. T \subseteq below(x) /\ x \in below(x)
    <3>1. \A y \in T : y \in Int /\ x \in Int /\ ~(x <= y)
      BY <1>4
    <3> QED
      BY <1>4, <3>1
  <2>2. T # below(x)
    BY <1>4, <2>1
  <2> HIDE DEF below
  <2>3. Cardinality(T) < Cardinality(below(x))
    BY <1>2, <1>4, <2>1, <2>2, Fewer
  <2> QED
    BY <1>1, <1>2, <1>4, <2>3
<1> QED
  BY <1>3, <1>4 DEF First

\* A request freezes the beginning of a path.
LEMMA PrefixIsFirst ==
  ASSUME EventsInv, LogInv, NEW c, NEW t \in Nat
  PROVE  First(Path(c), Cardinality(KnownAt(Path(c), t))) = KnownAt(Path(c), t)
<1>1. DOMAIN log = 1 .. Len(log) /\ Len(log) \in Nat
  BY DEF LogInv
<1> PICK n \in Nat : n = Len(log) + 1
  BY <1>1
<1>2. Path(c) \in SUBSET Int /\ IsFiniteSet(Path(c))
  BY <1>1, PathIsFinite
<1>3. \A x \in KnownAt(Path(c), t), y \in Path(c) : y <= x => y \in KnownAt(Path(c), t)
  <2> SUFFICES ASSUME NEW x \in KnownAt(Path(c), t), NEW y \in Path(c), y <= x PROVE log[y].observed <= t
    BY DEF KnownAt
  <2>1. x \in DOMAIN log /\ y \in DOMAIN log /\ log[x].observed <= t
    BY DEF KnownAt, Path
  <2>2. log[y].observed <= log[x].observed /\ log[x].observed \in Nat /\ log[y].observed \in Nat
    BY <2>1 DEF EventsInv
  <2> QED
    BY <2>1, <2>2
<1> QED
  BY <1>2, <1>3, FirstIs DEF KnownAt

\* The log means the same at any later time, for any cases, bounds and settings of the clock: a replay accepts every
\* case, and a call that is made again computes the fact that is stored.
THEOREM LogReplaysHolds == Spec => []LogReplays
<1>1. FinalizationInv /\ CollectionInv => LogReplays
  <2> SUFFICES ASSUME FinalizationInv, CollectionInv PROVE CasesHold /\ RepeatsAreAnswered
    BY DEF LogReplays
  <2>1. LogInv /\ EventsInv
    BY DEF FinalizationInv, CollectionInv
  <2>2. ASSUME NEW c \in Opened PROVE CaseHolds(c)
    <3>1. CaseInv(c)
      BY DEF Opened, CollectionInv
    <3>2. \A i \in Path(c) : /\ Point(i).at <= log[i].observed
                             /\ \A j \in Path(c) : j <= i => log[j].observed <= log[i].observed
      BY <2>1 DEF EventsInv, Path, Point, Is
    <3> QED
      BY <3>1, <3>2 DEF CaseHolds, CaseInv, RequestInv, ExitInv, PreparedInv
  <2>3. ASSUME NEW i \in DOMAIN log, log[i].fact.kind = "opened"
        PROVE  OpenFact(log[i].fact.snapshot, Mode(log[i].case)) = log[i].fact
    <3> PICK c, f : c = log[i].case /\ f = log[i].fact
      OBVIOUS
    <3>1. /\ c = CaseId(f.snapshot, Mode(c))
          /\ f = [kind |-> "opened", snapshot |-> f.snapshot, capturedAt |-> f.capturedAt]
      BY <2>1, <2>3 DEF EventsInv
    <3>2. Is(i, c, "opened")
      BY <2>3 DEF Is
    <3>3. Has(c, "opened") /\ Fact(c, "opened") = f
      <4>1. OrderInv(c)
        BY <2>1 DEF EventsInv, CollectionInv, CaseInv
      <4> QED
        BY <3>2, <4>1, TheFact DEF Kinds
    <3> QED
      BY <3>1, <3>3 DEF OpenFact
  <2>4. ASSUME NEW i \in DOMAIN log, log[i].fact.kind = "request"
        PROVE  RequestFact(log[i].case, log[i].fact.at, log[i].fact.reason, log[i].fact.evidence, log[i].fact.whole) = log[i].fact
    <3> PICK c, f : c = log[i].case /\ f = log[i].fact
      OBVIOUS
    <3>1. f = [kind |-> "request", at |-> f.at, reason |-> f.reason, evidence |-> f.evidence,
               whole |-> f.whole, prefix |-> f.prefix]
      BY <2>1, <2>4 DEF EventsInv
    <3>2. CaseInv(c)
      BY <2>1 DEF EventsInv, CollectionInv
    <3>3. Has(c, "request") /\ Request(c) = f
      <4>1. Is(i, c, "request")
        BY <2>4 DEF Is
      <4> QED
        BY <3>2, <4>1, TheFact DEF CaseInv, Kinds, Request
    <3>4. f.at \in Nat /\ f.prefix = KnownAt(Path(c), f.at)
      BY <3>2, <3>3 DEF CaseInv, RequestInv
    <3>5. RequestPath(c, f.at) = f.prefix
      <4>1. RequestPath(c, f.at) = First(Path(c), Cardinality(f.prefix))
        BY <3>3 DEF RequestPath
      <4>2. First(Path(c), Cardinality(KnownAt(Path(c), f.at))) = KnownAt(Path(c), f.at)
        BY <2>1, <3>4, PrefixIsFirst
      <4> QED
        BY <3>4, <4>1, <4>2
    <3> QED
      BY <3>1, <3>5 DEF RequestFact
  <2> QED
    BY <2>2, <2>3, <2>4 DEF CasesHold, RepeatsAreAnswered
<1> QED
  BY <1>1, FinalizationInvariant, CollectionInvariant, PTL

\* What a request knew are the points that were stored by its instant, and what it saw touched among them.
LEMMA RequestKnew ==
  ASSUME FinalizationInv, CollectionInv, NEW c \in Opened, Has(c, "request"), NEW r, r = Request(c),
         NEW seen, seen = {k \in Path(c) : Point(k).bar.observable},
         NEW known, known = Observable(r.prefix, r.at)
  PROVE  /\ LogInv /\ EventsInv /\ CaseInv(c) /\ r.at \in Nat /\ ReasonHolds(c, r)
         /\ known = {k \in seen : log[k].observed <= r.at} /\ seen \subseteq Path(c)
         /\ Touches(c, known) = {k \in Touches(c, seen) : log[k].observed <= r.at}
         /\ \A j \in Path(c) : /\ j \in DOMAIN log /\ j \in Int /\ Point(j).at \in Nat
                               /\ log[j].observed \in Nat /\ Point(j).at <= log[j].observed
<1>1. LogInv /\ EventsInv /\ CaseInv(c) /\ r.at \in Nat
  BY DEF FinalizationInv, CollectionInv, Opened, CaseInv, RequestInv
<1>2. r.prefix = KnownAt(Path(c), r.at) /\ ReasonHolds(c, r)
  BY <1>1 DEF CaseInv, RequestInv
<1>3. \A j \in Path(c) : /\ j \in DOMAIN log /\ j \in Int /\ Point(j).at \in Nat
                         /\ log[j].observed \in Nat /\ Point(j).at <= log[j].observed
  <2>1. DOMAIN log \subseteq Int
    BY <1>1 DEF LogInv
  <2> QED
    BY <1>1, <2>1 DEF EventsInv, Path, Point, Is
<1>4. known = {k \in seen : log[k].observed <= r.at}
  <2>1. \A k \in Path(c) : log[k].observed <= r.at => Point(k).at <= r.at
    BY <1>1, <1>3
  <2>2. known = {k \in KnownAt(Path(c), r.at) : Point(k).bar.observable /\ Point(k).at <= r.at}
    BY <1>2 DEF Observable
  <2> QED
    BY <2>1, <2>2 DEF KnownAt
<1>5. Touches(c, known) = {k \in Touches(c, seen) : log[k].observed <= r.at}
  BY <1>4 DEF Touches
<1> QED
  BY <1>1, <1>2, <1>3, <1>4, <1>5

\* The reason of an exit is the first barrier of its whole path, and a timeout's last session was seen and no barrier
\* known, for any cases, bars, costs and bounds: what was known when it was requested is the beginning of the path, and
\* what was stored since was made later.
THEOREM ReasonIsFirstBarrierHolds == Spec => []ReasonIsFirstBarrier
<1>1. ASSUME FinalizationInv, CollectionInv, NEW c \in Opened, Has(c, "request"), NEW r, r = Request(c),
             NEW seen, seen = {k \in Path(c) : Point(k).bar.observable}
      PROVE  /\ r.reason \in {"TARGET", "STOP"} =>
                  \E i \in Touches(c, seen) :
                    /\ \A j \in Touches(c, seen) : Point(i).at <= Point(j).at
                    /\ log[i].observed <= r.at /\ r.reason = IF HitsTarget(i) THEN "TARGET" ELSE "STOP"
             /\ r.reason = "TIMEOUT" =>
                  /\ \A i \in Touches(c, seen) : ~(log[i].observed <= r.at)
                  /\ \E i \in seen : log[i].observed <= r.at /\ Point(i).bar.session = Horizon(c)
  <2> PICK known : known = Observable(r.prefix, r.at)
    OBVIOUS
  <2> DEFINE touches == Touches(c, known)
             i == Min(touches)
  <2>1. /\ LogInv /\ EventsInv /\ CaseInv(c) /\ r.at \in Nat /\ ReasonHolds(c, r)
        /\ known = {k \in seen : log[k].observed <= r.at} /\ seen \subseteq Path(c)
        /\ touches = {k \in Touches(c, seen) : log[k].observed <= r.at}
        /\ \A j \in Path(c) : /\ j \in DOMAIN log /\ j \in Int /\ Point(j).at \in Nat
                              /\ log[j].observed \in Nat /\ Point(j).at <= log[j].observed
    BY <1>1, RequestKnew
  <2>2. CASE r.reason \in {"TARGET", "STOP"}
    <3>1. touches # {} /\ r.reason = IF HitsTarget(i) THEN "TARGET" ELSE "STOP"
      BY <2>1, <2>2 DEF ReasonHolds
    <3>2. Touches(c, seen) \subseteq Path(c) /\ touches \subseteq Path(c)
      BY <2>1 DEF Touches
    <3>3. i \in touches /\ \A j \in touches : i <= j
      <4>1. DOMAIN log = 1 .. Len(log) /\ Len(log) \in Nat
        BY <2>1 DEF LogInv
      <4> PICK n \in Nat : n = Len(log) + 1
        BY <4>1
      <4>2. Path(c) \in SUBSET Int /\ IsFiniteSet(Path(c))
        BY <4>1, PathIsFinite
      <4>3. touches \in SUBSET Int /\ IsFiniteSet(touches)
        BY <3>2, <4>2, FS_Subset
      <4> HIDE DEF touches
      <4> QED
        BY <3>1, <4>3, MinIs
    <3> HIDE DEF i
    <3>4. i \in Touches(c, seen) /\ i \in Path(c) /\ log[i].observed <= r.at
      BY <2>1, <3>2, <3>3
    <3>5. ASSUME NEW j \in Touches(c, seen) PROVE Point(i).at <= Point(j).at
      <4>1. j \in Path(c)
        BY <3>2
      <4>2. CASE log[j].observed <= r.at
        <5>1. j \in touches
          BY <2>1, <4>2
        <5> QED
          BY <2>1, <3>3, <3>4, <4>1, <5>1 DEF CaseInv, PathInv
      <4>3. CASE ~(log[j].observed <= r.at)
        <5>1. ~(j <= i)
          BY <2>1, <3>4, <4>1, <4>3 DEF EventsInv
        <5> QED
          BY <2>1, <3>4, <4>1, <5>1 DEF CaseInv, PathInv
      <4> QED
        BY <4>2, <4>3
    <3> QED
      BY <2>2, <3>1, <3>4, <3>5
  <2>3. CASE r.reason = "TIMEOUT"
    <3>1. touches = {} /\ \E k \in known : Point(k).bar.session = Horizon(c)
      BY <2>1, <2>3 DEF ReasonHolds
    <3> QED
      BY <2>1, <2>3, <3>1
  <2> QED
    BY <2>2, <2>3
<1>2. FinalizationInv /\ CollectionInv => ReasonIsFirstBarrier
  BY <1>1 DEF ReasonIsFirstBarrier
<1> QED
  BY <1>2, FinalizationInvariant, CollectionInvariant, PTL

\* What was accepted can be completed, for any cases, costs, ledgers, finalizers and bounds.
THEOREM CanCompleteHolds == Spec => []CanComplete
<1>1. CollectionInv =>
        \A c \in Opened : State(c) = "TERMINAL_READY" => Constructible(c) \/ (Has(c, "entry") /\ ~Priced(c))
  <2> SUFFICES ASSUME CollectionInv, NEW c \in Opened, State(c) = "TERMINAL_READY", Has(c, "entry"), Priced(c)
               PROVE  Constructible(c)
    BY DEF Constructible
  <2>1. CaseInv(c)
    BY DEF CollectionInv, Opened
  <2>2. ~Has(c, "no_entry")
    BY <2>1 DEF CaseInv, OrderInv
  <2>3. Has(c, "exit")
    BY <2>2 DEF State
  <2>4. Covers(c, Exit(c)) /\ \A i \in Path(c) : Point(i).at <= Exit(c).at
    BY <2>1, <2>3 DEF CaseInv, ExitInv
  <2>5. \E i \in Path(c) : Point(i).bar.observable
    <3>1. \E b \in Shown(c, Entry(c).session) : b.low <= Entry(c).price
      BY <2>4 DEF Covers, InRange
    <3> QED
      BY <3>1 DEF Shown
  <2>6. \A i \in Path(c) : Point(i).bar.session <= Exit(c).session
    BY <2>4 DEF Covers
  <2> QED
    BY <2>4, <2>5, <2>6 DEF Constructible
<1> QED
  BY <1>1, CollectionInvariant, CanFinishHolds, PTL DEF CanComplete

-----------------------------------------------------------------------------
(* BarrierLabels.                                                          *)

\* The least of a set is the least of each of its parts that it is in.
LEMMA SameMin ==
  ASSUME NEW S \in SUBSET Int, IsFiniteSet(S), S # {}, NEW T, T \subseteq S, Min(S) \in T
  PROVE Min(T) = Min(S)
<1>1. Min(S) \in S /\ \A y \in S : Min(S) <= y
  BY MinIs
<1>2. Min(T) \in T /\ \A y \in T : Min(T) <= y
  BY MinIs, FS_Subset
<1>3. Min(T) <= Min(S) /\ Min(S) <= Min(T) /\ Min(S) \in Int /\ Min(T) \in Int
  BY <1>1, <1>2
<1> QED
  BY <1>3

LEMMA MinOfTwo ==
  ASSUME NEW a \in Int, NEW b \in Int
  PROVE /\ a <= b => Min({a, b}) = a
        /\ b <= a => Min({a, b}) = b
<1>1. Min({a, b}) \in {a, b} /\ \A y \in {a, b} : Min({a, b}) <= y
  <2>1. IsFiniteSet({a, b})
    <3>1. IsFiniteSet({a}) /\ {a, b} = {a} \union {b}
      BY FS_Singleton
    <3> QED
      BY <3>1, FS_AddElement
  <2> QED
    BY <2>1, MinIs
<1> QED
  BY <1>1

LEMMA MaxOfTwo ==
  ASSUME NEW a \in Int, NEW b \in Int
  PROVE Max({a, b}) \in Int /\ a <= Max({a, b})
<1>1. \E x \in {a, b} : \A y \in {a, b} : x >= y
  OBVIOUS
<1>2. Max({a, b}) \in {a, b} /\ \A y \in {a, b} : Max({a, b}) >= y
  BY <1>1 DEF Max
<1> QED
  BY <1>2

-----------------------------------------------------------------------------
\* What an order does in a session is decided by the bar of that session alone.
LEMMA SameSession ==
  ASSUME NEW b, NEW c, NEW i, b[i] = c[i], NEW side, NEW acquired
  PROVE /\ Decision(b, i, side, acquired) = Decision(c, i, side, acquired)
        /\ \A wanted, reference :
             FillAt(b, i, side, wanted, acquired, reference) = FillAt(c, i, side, wanted, acquired, reference)
<1>1. Decision(b, i, side, acquired) = Decision(c, i, side, acquired)
  BY DEF Decision
<1>2. ASSUME NEW wanted, NEW reference
      PROVE FillAt(b, i, side, wanted, acquired, reference) = FillAt(c, i, side, wanted, acquired, reference)
  <2>1. Quantity(b, i, wanted) = Quantity(c, i, wanted)
    BY DEF Quantity
  <2>2. Fill(b, i, side, Quantity(b, i, wanted), reference) = Fill(c, i, side, Quantity(c, i, wanted), reference)
    BY <2>1 DEF Fill
  <2> QED
    BY <1>1, <2>1, <2>2 DEF FillAt
<1> QED
  BY <1>1, <1>2

LEMMA FilledAt ==
  ASSUME NEW b, NEW i, NEW side, NEW wanted, NEW acquired, NEW reference,
         FillAt(b, i, side, wanted, acquired, reference).kind = "FILL"
  PROVE FillAt(b, i, side, wanted, acquired, reference).at = i
BY DEF FillAt, Fill, Refused

\* The part of a history up to a session has the same bars.
LEMMA UpTo ==
  ASSUME NEW S, NEW b \in Seq(S), NEW session \in 0 .. Len(b)
  PROVE /\ Len(SubSeq(b, 1, session)) = session
        /\ \A i \in 1 .. session : SubSeq(b, 1, session)[i] = b[i]
        /\ session = Len(b) => SubSeq(b, 1, session) = b
BY SubSeqFull, SubSeqProperties, ElementOfSeq, LenProperties

\* An order is filled in the first session that decides it.
LEMMA FilledWithin ==
  ASSUME NEW S, NEW b \in Seq(S), NEW start \in Nat \ {0}, NEW side, NEW wanted, NEW acquired, NEW fill,
         fill = NextFill(b, start, side, wanted, acquired, Len(b)), fill.kind = "FILL",
         NEW deciding, deciding = Deciding(b, start, side, acquired, Len(b))
  PROVE /\ deciding = {i \in start .. Len(b) : Decision(b, i, side, acquired) \in {"RAISED", "UNKNOWN_PRICE_LIMIT_STATE", "EXECUTABLE"}}
        /\ deciding \in SUBSET Int /\ IsFiniteSet(deciding) /\ deciding # {}
        /\ fill.at = Min(deciding) /\ fill.at \in deciding /\ fill.at \in start .. Len(b)
        /\ fill = FillAt(b, fill.at, side, wanted, acquired, b[fill.at].open)
<1> DEFINE n == Len(b)
<1>1. n \in Nat /\ Min({n, n}) = n
  BY LenProperties, MinOfTwo
<1>2. deciding = {i \in start .. n : Decision(b, i, side, acquired) \in {"RAISED", "UNKNOWN_PRICE_LIMIT_STATE", "EXECUTABLE"}}
  BY <1>1 DEF Deciding
<1>3. fill = IF deciding = {} THEN Refused("NO_EXECUTABLE_SESSION")
             ELSE FillAt(b, Min(deciding), side, wanted, acquired, b[Min(deciding)].open)
  BY DEF NextFill
<1> HIDE DEF n
<1>4. deciding # {} /\ fill = FillAt(b, Min(deciding), side, wanted, acquired, b[Min(deciding)].open)
  BY <1>3 DEF Refused
<1>5. deciding \in SUBSET Int /\ IsFiniteSet(deciding) /\ deciding \subseteq start .. n
  <2>1. IsFiniteSet(start .. n)
    BY <1>1, FS_Interval
  <2> QED
    BY <1>1, <1>2, <2>1, FS_Subset
<1>6. Min(deciding) \in deciding /\ fill.at = Min(deciding)
  BY <1>4, <1>5, MinIs, FilledAt
<1> QED
  BY <1>2, <1>4, <1>5, <1>6 DEF n

\* An order that was filled by a session is filled the same way where the history ends with it.
LEMMA SameEntry ==
  ASSUME NEW S, NEW b \in Seq(S), NEW session \in 0 .. Len(b), NEW start \in Nat \ {0},
         NEW side, NEW wanted, NEW acquired, NEW fill,
         fill = NextFill(b, start, side, wanted, acquired, Len(b)), fill.kind = "FILL", fill.at <= session
  PROVE NextFill(SubSeq(b, 1, session), start, side, wanted, acquired, session) = fill
<1> DEFINE c == SubSeq(b, 1, session)
           n == Len(b)
           deciding == Deciding(b, start, side, acquired, n)
           sooner == Deciding(c, start, side, acquired, session)
           Decides(d, i) == Decision(d, i, side, acquired) \in {"RAISED", "UNKNOWN_PRICE_LIMIT_STATE", "EXECUTABLE"}
<1>1. /\ n \in Nat /\ Len(c) = session /\ session \in Nat /\ session <= n
      /\ \A i \in 1 .. session : c[i] = b[i]
  BY UpTo, LenProperties
<1>2. /\ deciding = {i \in start .. n : Decides(b, i)}
      /\ deciding \in SUBSET Int /\ IsFiniteSet(deciding) /\ deciding # {}
      /\ fill.at = Min(deciding) /\ fill.at \in deciding /\ fill.at \in start .. n
      /\ fill = FillAt(b, fill.at, side, wanted, acquired, b[fill.at].open)
  <2>1. ASSUME NEW several, several = Deciding(b, start, side, acquired, Len(b))
        PROVE /\ several = {i \in start .. Len(b) : Decision(b, i, side, acquired) \in {"RAISED", "UNKNOWN_PRICE_LIMIT_STATE", "EXECUTABLE"}}
              /\ several \in SUBSET Int /\ IsFiniteSet(several) /\ several # {}
              /\ fill.at = Min(several) /\ fill.at \in several /\ fill.at \in start .. Len(b)
              /\ fill = FillAt(b, fill.at, side, wanted, acquired, b[fill.at].open)
    BY <2>1, FilledWithin
  <2> QED
    BY <2>1
<1> HIDE DEF c, n
<1>3. sooner = {i \in start .. session : Decides(c, i)}
  <2>1. Min({session, session}) = session
    BY <1>1, MinOfTwo
  <2> QED
    BY <1>1, <2>1 DEF Deciding
<1>4. \A i \in 1 .. session : Decides(c, i) = Decides(b, i)
  BY <1>1, SameSession
<1> HIDE DEF deciding, sooner, Decides
<1>5. fill.at \in 1 .. session /\ fill.at \in start .. session
  BY <1>1, <1>2
<1>6. sooner \subseteq deciding /\ fill.at \in sooner
  <2>1. \A i \in start .. session : i \in 1 .. session /\ i \in start .. n
    BY <1>1
  <2> QED
    BY <1>2, <1>3, <1>4, <1>5, <2>1
<1>7. Min(sooner) = fill.at
  BY <1>2, <1>6, SameMin, ZenonT(60)
<1>8. NextFill(c, start, side, wanted, acquired, session)
         = FillAt(c, fill.at, side, wanted, acquired, c[fill.at].open)
  BY <1>6, <1>7 DEF NextFill, sooner
<1>9. NextFill(c, start, side, wanted, acquired, session) = fill
  <2>1. PICK k : k = fill.at
    OBVIOUS
  <2>2. b[k] = c[k]
    BY <1>1, <1>5, <2>1
  <2>3. \A w, reference : FillAt(b, k, side, w, acquired, reference) = FillAt(c, k, side, w, acquired, reference)
    BY <2>2, SameSession, SMTT(60)
  <2> QED
    BY <1>2, <1>8, <2>1, <2>2, <2>3
<1> QED
  BY <1>9 DEF c

\* What became of a position by a session is the same where the history ends with it: the barrier that was
\* met first, and the session in which the exit from it was filled, lie before.
LEMMA SameResolved ==
  ASSUME NEW b, Len(b) \in Nat, NEW c, Len(c) \in Nat, Len(c) < Len(b), \A i \in 1 .. Len(c) : c[i] = b[i],
         NEW config \in Configs, NEW entry, entry.at \in 1 .. Len(b),
         Resolved(b, config, entry).outcome # "RAISED", Resolved(b, config, entry).end <= Len(c)
  PROVE /\ entry.at <= Len(c)
        /\ Resolved(c, config, entry) = Resolved(b, config, entry)
<1> DEFINE session == Len(c)
           n == Len(b)
           target == entry.price + config.target
           stop == entry.price - config.stop
           h == entry.at + config.horizon - 1
           End(d) == Min({Len(d), h})
           touched(d, i) == Touch(d[i], target, stop, config)
           met(d) == {i \in entry.at .. End(d) : touched(d, i) # ""}
           first(d) == Min(met(d))
           exit(d, i) == FillAt(d, i, "SELL", entry.quantity, entry.at,
                                Reference(d[i], i = first(d), touched(d, first(d)), target, stop))
           tried(d) == {i \in first(d) .. End(d) :
                          exit(d, i).kind = "FILL" \/ exit(d, i).reason \in {"RAISED", "UNKNOWN_PRICE_LIMIT_STATE"}}
           Won(d) == Result(IF touched(d, first(d)) = "TAKE_PROFIT" THEN "TP_FIRST" ELSE "SL_FIRST", Min(tried(d)))
<1>1. /\ n \in Nat /\ session \in Nat /\ session < n
      /\ \A i \in 1 .. session : c[i] = b[i]
  OBVIOUS
<1>2. h \in Int /\ entry.at \in Int /\ 1 <= entry.at /\ entry.at <= n /\ entry.at <= h
  BY <1>1, LabelsAssumption
<1>3. ASSUME NEW d
      PROVE Resolved(d, config, entry) =
              IF stop <= 0 THEN Result("RAISED", Len(d))
              ELSE IF met(d) = {} THEN Result("TIMEOUT", End(d))
              ELSE IF touched(d, first(d)) \in {"AMBIGUOUS", "RAISED"} THEN Result(touched(d, first(d)), first(d))
              ELSE IF tried(d) = {} THEN Result("BARRIER_BLOCKED_TIMEOUT", End(d))
              ELSE IF exit(d, Min(tried(d))).kind # "FILL" THEN Result("RAISED", Min(tried(d)))
              ELSE Won(d)
  BY DEF Resolved
<1>4. /\ Len(b) = n /\ Len(c) = session
      /\ End(b) \in Int /\ entry.at <= End(b) /\ End(b) <= n /\ End(b) <= h /\ End(b) \in {n, h}
      /\ End(c) = (IF session <= h THEN session ELSE h)
  BY <1>1, <1>2, MinOfTwo, SMTT(60) DEF n
<1>a. entry.at <= session /\ Resolved(c, config, entry) = Resolved(b, config, entry)
      => entry.at <= Len(c) /\ Resolved(c, config, entry) = Resolved(b, config, entry)
  OBVIOUS
<1>b. Resolved(b, config, entry).end <= session
  OBVIOUS
<1> HIDE DEF session, n, h, target, stop
<1> SUFFICES entry.at <= session /\ Resolved(c, config, entry) = Resolved(b, config, entry)
  BY <1>a
<1>5. \A i \in 1 .. session : touched(c, i) = touched(b, i)
  BY <1>1
<1> HIDE DEF touched, End
<1>6. \A i : i \in met(c) <=> i \in met(b) /\ i <= session
  <2>1. \A i \in Int : i \in entry.at .. End(c) <=> i \in entry.at .. End(b) /\ i <= session
    BY <1>1, <1>2, <1>4
  <2>2. \A i \in entry.at .. End(c) : i \in 1 .. session /\ i \in Int
    BY <1>1, <1>2, <1>4
  <2>3. \A i \in entry.at .. End(b) : i \in Int
    BY <1>2, <1>4
  <2> QED
    BY <1>5, <2>1, <2>2, <2>3
<1>7. met(b) \subseteq entry.at .. End(b) /\ met(b) \in SUBSET Int /\ IsFiniteSet(met(b))
  <2>1. IsFiniteSet(entry.at .. End(b)) /\ entry.at .. End(b) \subseteq Int
    <3> PICK from \in Int, to \in Int : from = entry.at /\ to = End(b)
      BY <1>2, <1>4
    <3>1. IsFiniteSet(from .. to)
      BY ONLY FS_Interval
    <3>2. from .. to \subseteq Int
      OBVIOUS
    <3> QED
      BY <3>1, <3>2
  <2>2. met(b) \subseteq entry.at .. End(b)
    OBVIOUS
  <2> HIDE DEF met
  <2> QED
    BY <2>1, <2>2, FS_Subset
<1> HIDE DEF met, first, exit, tried, Won
<1>8. ~(stop <= 0)
  BY <1>3 DEF Result
<1>9. CASE met(b) = {}
  <2>1. Resolved(b, config, entry) = Result("TIMEOUT", End(b))
    BY <1>3, <1>8, <1>9
  <2>2. End(b) <= session
    BY <1>b, <2>1 DEF Result
  <2>3. End(c) = End(b)
    BY <1>1, <1>2, <1>4, <2>2
  <2>4. met(c) = {}
    BY <1>6, <1>9
  <2>5. Resolved(c, config, entry) = Result("TIMEOUT", End(c))
    BY <1>3, <1>8, <2>4
  <2> QED
    BY <1>1, <1>2, <1>4, <2>1, <2>2, <2>3, <2>5
<1>10. CASE met(b) # {}
  <2>1. first(b) \in met(b) /\ first(b) \in entry.at .. End(b)
    BY <1>7, <1>10, MinIs DEF first
  <2>2. \A i \in tried(b) : i \in first(b) .. End(b)
    BY DEF tried
  <2>3. tried(b) \in SUBSET Int /\ IsFiniteSet(tried(b))
    <3>1. IsFiniteSet(first(b) .. End(b)) /\ first(b) .. End(b) \subseteq Int
      BY <1>2, <1>4, <2>1, FS_Interval
    <3> QED
      BY <2>2, <3>1, FS_Subset
  <2>4. tried(b) # {} => Min(tried(b)) \in tried(b) /\ Min(tried(b)) \in first(b) .. End(b)
    BY <2>2, <2>3, MinIs
  <2>5. first(b) <= session
    <3>1. CASE touched(b, first(b)) \in {"AMBIGUOUS", "RAISED"}
      BY <1>b, <1>3, <1>8, <1>10, <3>1 DEF Result
    <3>2. CASE touched(b, first(b)) \notin {"AMBIGUOUS", "RAISED"} /\ tried(b) = {}
      <4>1. Resolved(b, config, entry).end = End(b)
        BY <1>3, <1>8, <1>10, <3>2 DEF Result
      <4> QED
        BY <1>b, <1>1, <1>2, <1>4, <2>1, <4>1
    <3>3. CASE touched(b, first(b)) \notin {"AMBIGUOUS", "RAISED"} /\ tried(b) # {}
      <4>1. Resolved(b, config, entry).end = Min(tried(b))
        BY <1>3, <1>8, <1>10, <3>3 DEF Result, Won
      <4> QED
        BY <1>b, <1>1, <1>2, <1>4, <2>1, <2>4, <3>3, <4>1
    <3> QED
      BY <3>1, <3>2, <3>3
  <2>6. first(b) \in met(c)
    BY <1>6, <2>1, <2>5
  <2>7. first(c) = first(b) /\ met(c) # {}
    <3>1. met(c) \subseteq met(b)
      BY <1>6
    <3> QED
      BY <1>7, <1>10, <2>6, <3>1, SameMin DEF first
  <2>8. first(b) \in 1 .. session /\ touched(c, first(b)) = touched(b, first(b))
    BY <1>1, <1>2, <1>4, <1>5, <2>1, <2>5
  <2>9. \A i \in 1 .. session : exit(c, i) = exit(b, i)
    <3>1. ASSUME NEW i, c[i] = b[i] PROVE exit(c, i) = exit(b, i)
      <4> DEFINE Reached(d) == Reference(d[i], i = first(d), touched(d, first(d)), target, stop)
      <4>1. Reached(c) = Reached(b)
        BY <2>7, <2>8, <3>1
      <4> DEFINE reference == Reached(b)
      <4>2. exit(c, i) = FillAt(c, i, "SELL", entry.quantity, entry.at, reference)
        BY <4>1 DEF exit
      <4>3. exit(b, i) = FillAt(b, i, "SELL", entry.quantity, entry.at, reference)
        BY DEF exit
      <4> HIDE DEF reference
      <4>4. FillAt(c, i, "SELL", entry.quantity, entry.at, reference) = FillAt(b, i, "SELL", entry.quantity, entry.at, reference)
        BY ONLY <3>1, SameSession
      <4> QED
        BY ONLY <4>2, <4>3, <4>4
    <3> QED
      BY <1>1, <3>1
  <2>10. \A i : i \in tried(c) <=> i \in tried(b) /\ i <= session
    <3>1. \A i \in Int : i \in first(c) .. End(c) <=> i \in first(b) .. End(b) /\ i <= session
      BY <1>1, <1>2, <1>4, <2>1, <2>7
    <3>2. \A i \in first(c) .. End(c) : i \in 1 .. session /\ i \in Int
      BY <1>1, <1>2, <1>4, <2>7, <2>8
    <3>3. \A i \in first(b) .. End(b) : i \in Int
      BY <2>8
    <3> QED
      BY <2>9, <3>1, <3>2, <3>3 DEF tried
  <2>11. CASE touched(b, first(b)) \in {"AMBIGUOUS", "RAISED"}
    <3>1. Resolved(b, config, entry) = Result(touched(b, first(b)), first(b))
      BY <1>3, <1>8, <1>10, <2>11
    <3>2. Resolved(c, config, entry) = Result(touched(b, first(b)), first(b))
      BY <1>3, <1>8, <2>7, <2>8, <2>11
    <3> QED
      BY <1>2, <1>4, <2>1, <2>5, <3>1, <3>2
  <2>12. CASE touched(b, first(b)) \notin {"AMBIGUOUS", "RAISED"} /\ tried(b) = {}
    <3>1. Resolved(b, config, entry) = Result("BARRIER_BLOCKED_TIMEOUT", End(b))
      BY <1>3, <1>8, <1>10, <2>12
    <3>2. End(b) <= session
      BY <1>b, <3>1 DEF Result
    <3>3. End(c) = End(b)
      BY <1>1, <1>2, <1>4, <3>2
    <3>4. tried(c) = {}
      BY <2>10, <2>12
    <3>5. Resolved(c, config, entry) = Result("BARRIER_BLOCKED_TIMEOUT", End(c))
      BY <1>3, <1>8, <2>7, <2>8, <2>12, <3>4
    <3> QED
      BY <1>2, <1>4, <2>1, <2>5, <3>1, <3>3, <3>5
  <2>13. CASE touched(b, first(b)) \notin {"AMBIGUOUS", "RAISED"} /\ tried(b) # {}
    <3> DEFINE out == Min(tried(b))
    <3>1. out \in tried(b) /\ out \in first(b) .. End(b)
      BY <2>4, <2>13
    <3>2. Resolved(b, config, entry) = IF exit(b, out).kind # "FILL" THEN Result("RAISED", out) ELSE Won(b)
      BY <1>3, <1>8, <1>10, <2>13
    <3>3. exit(b, out).kind = "FILL" /\ Resolved(b, config, entry) = Won(b) /\ out <= session
      BY <1>b, <3>2 DEF Result, Won
    <3>4. out \in tried(c) /\ Min(tried(c)) = out
      <4>1. out \in tried(c) /\ tried(c) \subseteq tried(b)
        BY <2>10, <3>1, <3>3
      <4> QED
        BY <2>3, <2>13, <4>1, SameMin
    <3>5. out \in 1 .. session
      BY <1>1, <1>4, <2>8, <3>1, <3>3
    <3> HIDE DEF out
    <3>6. exit(c, out).kind = "FILL" /\ tried(c) # {}
      BY <2>9, <3>3, <3>4, <3>5
    <3>7. Resolved(c, config, entry) = Won(c)
      BY <1>3, <1>8, <2>7, <2>8, <2>13, <3>4, <3>6
    <3>8. Won(c) = Won(b)
      BY <2>7, <2>8, <3>4 DEF Won, out
    <3> QED
      BY <1>2, <1>4, <2>1, <2>5, <3>3, <3>7, <3>8
  <2> QED
    BY <2>11, <2>12, <2>13
<1> QED
  BY <1>9, <1>10

\* Whatever became of a position, it did in a session.
LEMMA ResolvedEnds ==
  ASSUME NEW S, NEW b \in Seq(S), NEW config \in Configs, NEW entry, entry.at \in 1 .. Len(b)
  PROVE Resolved(b, config, entry).end \in Int
<1> DEFINE target == entry.price + config.target
           stop == entry.price - config.stop
           h == entry.at + config.horizon - 1
           end == Min({Len(b), h})
           touched(i) == Touch(b[i], target, stop, config)
           met == {i \in entry.at .. end : touched(i) # ""}
           first == Min(met)
           exit(i) == FillAt(b, i, "SELL", entry.quantity, entry.at,
                             Reference(b[i], i = first, touched(first), target, stop))
           tried == {i \in first .. end :
                       exit(i).kind = "FILL" \/ exit(i).reason \in {"RAISED", "UNKNOWN_PRICE_LIMIT_STATE"}}
<1>1. Len(b) \in Int /\ h \in Int /\ entry.at \in Int
  BY LabelsAssumption, LenProperties
<1>2. end \in Int
  <2>1. \A x, y \in Int : Min({x, y}) = x \/ Min({x, y}) = y
    BY ONLY MinOfTwo
  <2>2. Len(b) \in Int /\ h \in Int
    BY ONLY <1>1, Zenon
  <2> QED
    BY ONLY <2>1, <2>2
<1>3. Resolved(b, config, entry).end \in {Len(b), end, first, Min(tried)}
      /\ (Resolved(b, config, entry).end \in {Len(b), end} \/ met # {})
      /\ (Resolved(b, config, entry).end \in {Len(b), end, first} \/ tried # {})
  BY DEF Resolved, Result
<1>4. met \subseteq entry.at .. end /\ tried \subseteq first .. end
  OBVIOUS
<1> HIDE DEF end, met, tried, h
<1>5. met # {} => first \in Int
  <2>1. IsFiniteSet(entry.at .. end) /\ entry.at .. end \subseteq Int
    BY <1>1, <1>2, FS_Interval
  <2>2. met \in SUBSET Int /\ IsFiniteSet(met)
    BY <1>4, <2>1, FS_Subset
  <2> QED
    BY <2>2, MinIs
<1> HIDE DEF first
<1>6. first \in Int /\ tried # {} => Min(tried) \in Int
  <2> SUFFICES ASSUME first \in Int, tried # {} PROVE Min(tried) \in Int
    OBVIOUS
  <2>1. IsFiniteSet(first .. end) /\ first .. end \subseteq Int
    BY <1>2, FS_Interval
  <2>2. tried \in SUBSET Int /\ IsFiniteSet(tried)
    BY <1>4, <2>1, FS_Subset
  <2> QED
    BY <2>2, MinIs
<1> QED
  BY <1>1, <1>2, <1>3, <1>5, <1>6

LEMMA ResolvedIsResult ==
  ASSUME NEW b, NEW config, NEW entry
  PROVE \E outcome, end : Resolved(b, config, entry) = Result(outcome, end)
BY DEF Resolved

LEMMA LabelIsResult ==
  ASSUME NEW b, NEW signal, NEW config
  PROVE \E outcome, end : Label(b, signal, config) = Result(outcome, end)
BY ResolvedIsResult DEF Label

LEMMA LabelEnds ==
  ASSUME NEW S, NEW b \in Seq(S), NEW signal \in Nat \ {0}, NEW config \in Configs
  PROVE Label(b, signal, config).end \in Int
<1> DEFINE entry == NextFill(b, signal + config.delay, "BUY", config.quantity, 0, Len(b))
<1>1. signal + config.delay \in Nat \ {0} /\ Len(b) \in Nat
  BY LabelsAssumption, LenProperties
<1>2. Label(b, signal, config).end = Len(b)
      \/ (entry.kind = "FILL" /\ Label(b, signal, config) = Resolved(b, config, entry))
  BY DEF Label, Result
<1> HIDE DEF entry
<1>3. entry.kind = "FILL" => entry.at \in signal + config.delay .. Len(b)
  BY <1>1, FilledWithin DEF entry
<1>4. entry.kind = "FILL" => Resolved(b, config, entry).end \in Int
  <2> SUFFICES ASSUME entry.kind = "FILL" PROVE Resolved(b, config, entry).end \in Int
    OBVIOUS
  <2>1. entry.at \in 1 .. Len(b)
    BY <1>1, <1>3
  <2> QED
    BY <2>1, ResolvedEnds
<1> QED
  BY <1>1, <1>2, <1>4

\* A label ends with the last session it was read from: the history up to any session from there on gives it.
LEMMA SameLabel ==
  ASSUME NEW S, NEW b \in Seq(S), NEW session \in 0 .. Len(b), NEW signal \in Nat \ {0}, NEW config \in Configs,
         Label(b, signal, config).outcome # "RAISED", Label(b, signal, config).end <= session
  PROVE Label(SubSeq(b, 1, session), signal, config) = Label(b, signal, config)
<1> DEFINE c == SubSeq(b, 1, session)
           Entered(d) == NextFill(d, signal + config.delay, "BUY", config.quantity, 0, Len(d))
<1>1. /\ Len(b) \in Nat /\ session \in Nat /\ session <= Len(b) /\ Len(c) = session
      /\ session = Len(b) => c = b
  BY UpTo, LenProperties
<1>2. signal + config.delay \in Nat \ {0}
  BY LabelsAssumption
<1>3. ASSUME NEW d
      PROVE Label(d, signal, config) =
              IF Entered(d) = Refused("RAISED") THEN Result("RAISED", Len(d))
              ELSE IF Entered(d).kind # "FILL" THEN Result("ENTRY_UNAVAILABLE", Len(d))
              ELSE Resolved(d, config, Entered(d))
  BY DEF Label
<1> HIDE DEF c
<1> SUFFICES ASSUME session # Len(b) PROVE Label(c, signal, config) = Label(b, signal, config)
  BY <1>1 DEF c
<1> HIDE DEF Entered
<1>4. Entered(b) # Refused("RAISED") /\ Entered(b).kind = "FILL"
  BY <1>1, <1>3 DEF Result
<1>5. Label(b, signal, config) = Resolved(b, config, Entered(b))
  BY <1>3, <1>4
<1>6. Entered(b).at \in signal + config.delay .. Len(b)
  BY <1>2, <1>4, FilledWithin DEF Entered
<1>7. Entered(b).at \in 1 .. Len(b)
  BY <1>1, <1>2, <1>6
<1>8. Entered(b).at <= session /\ Resolved(c, config, Entered(b)) = Resolved(b, config, Entered(b))
  <2>1. Resolved(b, config, Entered(b)).outcome # "RAISED" /\ Resolved(b, config, Entered(b)).end <= session
    BY <1>5
  <2> QED
    <3>1. /\ Len(b) \in Nat /\ Len(c) \in Nat /\ Len(c) < Len(b) /\ Len(c) = session
          /\ \A i \in 1 .. Len(c) : c[i] = b[i]
      BY <1>1, UpTo DEF c
    <3> QED
      BY <1>7, <2>1, <3>1, SameResolved
<1>9. Entered(c) = Entered(b)
  <2>1. Entered(b) = NextFill(b, signal + config.delay, "BUY", config.quantity, 0, Len(b))
    BY DEF Entered
  <2>2. NextFill(SubSeq(b, 1, session), signal + config.delay, "BUY", config.quantity, 0, session) = Entered(b)
    BY <1>2, <1>4, <1>8, <2>1, SameEntry
  <2> QED
    BY <1>1, <2>2 DEF Entered, c
<1> QED
  BY <1>3, <1>4, <1>5, <1>8, <1>9

-----------------------------------------------------------------------------
\* What a study is of: the whole history that was closed before it, which no step changes afterwards.
Studied(r) ==
  \E config \in Configs, split \in Splits :
    r = [config |-> config, samples |-> Samples(bars, config), folds |-> Folds(Samples(bars, config), split)]
StudyInv ==
  /\ bars \in Seq(BarShapes)
  /\ \A i \in DOMAIN study : Studied(study[i])

THEOREM StudyInvHolds == LabelSpec => []StudyInv
<1>1. LabelInit => StudyInv
  BY EmptySeq DEF LabelInit, BacktestInit, StudyInv
<1>2. StudyInv /\ [LabelNext]_labelVars => StudyInv'
  <2> SUFFICES ASSUME StudyInv, [LabelNext]_labelVars PROVE StudyInv'
    OBVIOUS
  <2>1. CASE UNCHANGED labelVars
    BY <2>1 DEF StudyInv, Studied, labelVars, backtestVars
  <2>2. CASE BacktestNext /\ study = <<>> /\ UNCHANGED study
    <3>1. bars' \in Seq(BarShapes)
      <4>1. ASSUME NEW shape \in BarShapes, CloseSession(shape) PROVE bars' \in Seq(BarShapes)
        BY <4>1, AppendProperties DEF StudyInv, CloseSession
      <4>2. ASSUME NEW orders, Run(orders) PROVE bars' \in Seq(BarShapes)
        BY <4>2 DEF StudyInv, Run
      <4>3. CASE Reject \/ Buy \/ Sell \/ Abandon
        BY <4>3 DEF StudyInv, Reject, Buy, Sell, Abandon, Settle
      <4> QED
        BY <2>2, <4>1, <4>2, <4>3 DEF BacktestNext
    <3>2. DOMAIN study' = {}
      BY <2>2
    <3> QED
      BY <3>1, <3>2 DEF StudyInv
  <2>3. ASSUME NEW config \in Configs, NEW split \in Splits, Study(config, split) PROVE StudyInv'
    <3>1. bars' = bars
      BY <2>3 DEF Study, backtestVars
    <3> PICK r : r = [config |-> config, samples |-> Samples(bars, config), folds |-> Folds(Samples(bars, config), split)]
      OBVIOUS
    <3>2. study' = <<r>>
      BY <2>3 DEF Study
    <3>3. Studied(r)'
      BY <3>1 DEF Studied
    <3>4. DOMAIN study' = {1} /\ study'[1] = r
      BY <3>2
    <3> QED
      BY <3>1, <3>3, <3>4 DEF StudyInv
  <2> QED
    BY <2>1, <2>2, <2>3 DEF LabelNext
<1> QED
  BY <1>1, <1>2, PTL DEF LabelSpec

-----------------------------------------------------------------------------
\* Every sample is the label of a session of the history that did not raise.
LEMMA SamplesAreLabels ==
  ASSUME NEW S, NEW b \in Seq(S), NEW config, NEW t \in DOMAIN Samples(b, config)
  PROVE \E signal \in 1 .. Len(b) :
          /\ Samples(b, config)[t] = Sample(b, signal, config)
          /\ Sample(b, signal, config).outcome # "RAISED"
<1> DEFINE labelled == {i \in DOMAIN b : Sample(b, i, config).outcome # "RAISED"}
<1>1. DOMAIN b = 1 .. Len(b) /\ Len(b) \in Nat
  BY LenProperties
<1>2. labelled \in SUBSET Int /\ IsFiniteSet(labelled)
  <2>1. IsFiniteSet(1 .. Len(b))
    BY <1>1, FS_Interval
  <2> QED
    BY <1>1, <2>1, FS_Subset
<1>3. labelled \subseteq 1 .. Len(b) /\ \A i \in labelled : Sample(b, i, config).outcome # "RAISED"
  BY <1>1
<1>4. Samples(b, config) = [k \in 1 .. Cardinality(labelled) |-> Sample(b, Nth(labelled, k), config)]
  BY DEF Samples
<1> HIDE DEF labelled
<1>5. t \in 1 .. Cardinality(labelled) /\ Samples(b, config)[t] = Sample(b, Nth(labelled, t), config)
  BY <1>4
<1>6. Nth(labelled, t) \in labelled
  <2>1. \E i \in labelled : Cardinality({j \in labelled : j <= i}) = t
    BY <1>2, <1>5, EveryRank
  <2> QED
    BY <2>1 DEF Nth
<1> QED
  BY <1>3, <1>5, <1>6

\* So what a sample says is known in every session from the one it ends with.
LEMMA SampleKnown ==
  ASSUME bars \in Seq(BarShapes), NEW config \in Configs, NEW t \in DOMAIN Samples(bars, config),
         NEW session \in 0 .. Len(bars), Samples(bars, config)[t].end <= session
  PROVE Known(Samples(bars, config)[t], config, session)
<1>1. PICK signal \in 1 .. Len(bars) :
        /\ Samples(bars, config)[t] = Sample(bars, signal, config)
        /\ Sample(bars, signal, config).outcome # "RAISED"
  BY SamplesAreLabels
<1> DEFINE label == Label(bars, signal, config)
<1>2. /\ Samples(bars, config)[t].signal = signal
      /\ Samples(bars, config)[t].outcome = label.outcome /\ Samples(bars, config)[t].end = label.end
      /\ label.outcome # "RAISED"
  BY <1>1 DEF Sample
<1>3. label = Result(label.outcome, label.end)
  BY LabelIsResult DEF Result
<1>4. signal \in Nat \ {0}
  BY LenProperties
<1>5. Label(SubSeq(bars, 1, session), signal, config) = label
  BY <1>2, <1>4, SameLabel
<1> QED
  BY <1>2, <1>3, <1>5 DEF Known

\* No leak, whatever the history, the labels and the splits: a fold trains on the samples that ended before
\* the signal it validates first, a cutoff selects those that ended by it, and of each of them the history up
\* to there gives the label.
THEOREM FoldsDoNotLeakHolds == LabelSpec => []FoldsDoNotLeak
<1>1. StudyInv => FoldsDoNotLeak
  <2> SUFFICES ASSUME StudyInv, NEW i \in DOMAIN study
               PROVE LET samples == study[i].samples
                     IN /\ \A fold \in study[i].folds : \A t \in fold.train :
                             Known(samples[t], study[i].config, samples[fold.from].signal - 1)
                        /\ \A cutoff \in DOMAIN bars : \A c \in Completed(samples, cutoff) :
                             Known(samples[c], study[i].config, cutoff)
    BY Zenon DEF FoldsDoNotLeak
  <2>1. PICK config \in Configs, split \in Splits :
          study[i] = [config |-> config, samples |-> Samples(bars, config), folds |-> Folds(Samples(bars, config), split)]
    BY DEF StudyInv, Studied
  <2> DEFINE samples == Samples(bars, config)
  <2>2. study[i].config = config /\ study[i].samples = samples /\ study[i].folds = Folds(samples, split)
    BY <2>1
  <2>3. Len(bars) \in Nat /\ DOMAIN bars = 1 .. Len(bars) /\ bars \in Seq(BarShapes)
    BY LenProperties DEF StudyInv
  <2>4. Len(samples) \in Nat /\ DOMAIN samples = 1 .. Len(samples)
    <3>1. Cardinality({s \in DOMAIN bars : Sample(bars, s, config).outcome # "RAISED"}) \in Nat
      <4>1. IsFiniteSet(1 .. Len(bars))
        BY <2>3, FS_Interval
      <4>2. IsFiniteSet({s \in DOMAIN bars : Sample(bars, s, config).outcome # "RAISED"})
        BY <2>3, <4>1, FS_Subset
      <4> QED
        BY <4>2, FS_CardinalityType
    <3> QED
      BY <3>1 DEF Samples
  <2>5. \A t \in DOMAIN samples : samples[t].signal \in 1 .. Len(bars) /\ samples[t].end \in Int
    <3> TAKE t \in DOMAIN samples
    <3>1. PICK signal \in 1 .. Len(bars) : samples[t] = Sample(bars, signal, config)
      BY <2>3, SamplesAreLabels
    <3>2. signal \in Nat \ {0}
      BY <2>3
    <3>3. samples[t].signal = signal /\ samples[t].end = Label(bars, signal, config).end
      BY <3>1 DEF Sample
    <3> QED
      BY <2>3, <3>2, <3>3, LabelEnds
  <2> HIDE DEF samples
  <2>6. ASSUME NEW fold \in Folds(samples, split), NEW t \in fold.train
        PROVE Known(samples[t], config, samples[fold.from].signal - 1)
    <3>1. PICK v \in Starts(samples, split) : fold = [train |-> Train(samples, v, split), from |-> v]
      BY <2>6 DEF Folds
    <3>2. v \in 1 .. Len(samples) /\ t \in Nominal(v, split) /\ samples[t].end < samples[v].signal /\ fold.from = v
      BY <3>1 DEF Starts, Train
    <3>3. t \in DOMAIN samples
      <4> DEFINE end == v - split.gap - 1
                 from == IF split.rolling = Unset THEN 1 ELSE Max({1, end - split.rolling + 1})
      <4>1. split.gap \in Nat /\ (split.rolling # Unset => split.rolling \in Nat)
        BY LabelsAssumption
      <4>2. t \in from .. end
        BY <3>2 DEF Nominal
      <4>3. from \in Int /\ 1 <= from
        <5>1. CASE split.rolling = Unset
          BY <5>1
        <5>2. CASE split.rolling # Unset
          <6>1. end - split.rolling + 1 \in Int
            BY <2>4, <3>2, <4>1, <5>2
          <6> HIDE DEF end
          <6> QED
            BY <5>2, <6>1, MaxOfTwo
        <5> QED
          BY <5>1, <5>2
      <4> QED
        BY <2>4, <3>2, <4>1, <4>2, <4>3
    <3>4. samples[v].signal - 1 \in 0 .. Len(bars) /\ samples[t].end <= samples[v].signal - 1
      BY <2>3, <2>4, <2>5, <3>2, <3>3
    <3> QED
      BY <2>3, <3>2, <3>3, <3>4, SampleKnown DEF samples
  <2>7. ASSUME NEW cutoff \in DOMAIN bars, NEW c \in Completed(samples, cutoff)
        PROVE Known(samples[c], config, cutoff)
    <3>1. c \in DOMAIN samples /\ samples[c].end <= cutoff
      BY DEF Completed
    <3>2. cutoff \in 0 .. Len(bars)
      BY <2>3
    <3> QED
      BY <2>3, <3>1, <3>2, SampleKnown DEF samples
  <2> QED
    BY <2>2, <2>6, <2>7
<1> QED
  BY <1>1, StudyInvHolds, PTL

-----------------------------------------------------------------------------
(* Backtest.                                                               *)

Fills == [kind : {"FILL"}, at : Nat, side : {"BUY", "SELL"}, quantity : Int, price : Int, amount : Int]
Entries ==
  [type : {"BUY", "SELL", "REJECT"}, position : {o.position : o \in Orders},
   fill : Fills \cup {Refused("REJECTED")}, pnl : Int]
Profit == SumFunction([i \in FilledSet |-> events[i].pnl])
Outlay == SumFunction([p \in DOMAIN positions |-> positions[p].amount])

TradesTypes ==
  /\ bars \in Seq(BarShapes)
  /\ intents \in Seq(Orders) /\ (phase = "run" => intents # <<>>)
  /\ cash \in Int
  /\ events \in Seq(Entries) /\ \A i \in FilledSet : events[i].fill \in Fills
  /\ IsFiniteSet(DOMAIN positions) /\ positions \in [DOMAIN positions -> Fills]
\* The fills are appended in the order of their sessions, whatever the orders were.
FillsInTime == \A i, j \in FilledSet : i <= j => events[i].fill.at <= events[j].fill.at
\* The cash is what the fills left of the funds.
CashFlows == cash = Funds + SumFunction([i \in FilledSet |-> Flow(i)])
\* What is open was bought by the last fill of its position.
OpenWereBought ==
  \A p \in DOMAIN positions : \E j \in FilledSet :
    /\ Purchase(j) /\ events[j].position = p /\ events[j].fill = positions[p]
    /\ \A k \in FilledSet : k > j => events[k].position # p
TradesInv == TradesTypes /\ FillsInTime /\ CashFlows /\ OpenWereBought /\ LedgerIsPossible

\* The parts of LedgerIsPossible.
Paid(i) == Funds + Flow(i) + SumFunction([j \in {k \in FilledSet : Before(k, i)} |-> Flow(j)]) >= 0
Backed(i) ==
  \E j \in FilledSet :
    /\ Purchase(j) /\ Before(j, i) /\ events[j].position = events[i].position
    /\ RuleOn(events[i].fill.at).nextDay => events[j].fill.at < events[i].fill.at
    /\ \A k \in FilledSet \ {i, j} :
         events[k].position = events[i].position => ~(Before(j, k) /\ Before(k, i))

-----------------------------------------------------------------------------
LEMMA OneOf ==
  ASSUME NEW S, Cardinality(S) = 1
  PROVE (CHOOSE x \in S : TRUE) \in S
BY FS_EmptySet

LEMMA MinIsInt ==
  ASSUME NEW a \in Int, NEW b \in Int
  PROVE Min({a, b}) \in Int
<1>1. a <= b \/ b <= a
  OBVIOUS
<1> QED
  BY <1>1, MinOfTwo

LEMMA RoundedIsInt ==
  ASSUME NEW i, Covered(Rules, i), NEW quantity \in Int
  PROVE Rounded(i, quantity) \in Int
<1>1. RuleOn(i) \in Rules
  BY OneOf DEF RuleOn, Covered, Versions
<1>2. LotOn(i) \in Nat \ {0}
  BY <1>1, AmountsAreWhole DEF LotOn, Versions
<1> DEFINE lot == LotOn(i)
<1>3. quantity \div lot \in Int
  BY <1>2
<1>4. Rounded(i, quantity) = (quantity \div lot) * lot
  BY DEF Rounded
<1> HIDE DEF lot
<1>5. lot \in Int
  BY <1>2 DEF lot
<1> QED
  BY <1>3, <1>4, <1>5

\* A fill is made of whole amounts.
LEMMA FillType ==
  ASSUME NEW b \in Seq(BarShapes), NEW i \in 1 .. Len(b), NEW side \in {"BUY", "SELL"},
         NEW quantity \in Int, NEW reference \in Int, Covered(Schedules, i)
  PROVE Fill(b, i, side, quantity, reference) \in Fills /\ Fill(b, i, side, quantity, reference).at = i
<1> DEFINE s == ScheduleOn(i)
           aimed == reference + Signed(side, s.slip)
           price == Clipped(b[i], aimed)
           fees == Fees(i, side, quantity)
           amount == price * quantity + Signed(side, fees)
<1>1. s \in Schedules
  BY OneOf DEF ScheduleOn, Covered, Versions
<1>2. s.slip \in Int /\ s.fee \in Int /\ s.least \in Int /\ s.tax \in Int
  <2> HIDE DEF s
  <2> QED
    BY <1>1, AmountsAreWhole
<1>3. b[i].low \in Int /\ b[i].high \in Int
  <2>1. b[i] \in BarShapes
    BY ElementOfSeq
  <2> QED
    BY <2>1, AmountsAreWhole
<1>4. aimed \in Int
  BY <1>2 DEF Signed
<1>5. price \in Int
  <2> HIDE DEF aimed
  <2>1. Min({b[i].high, aimed}) \in Int
    BY <1>3, <1>4, MinIsInt
  <2> QED
    BY <1>3, <2>1, MaxOfTwo DEF Clipped
<1>6. fees \in Int
  <2>1. s.fee * quantity \in Int /\ s.tax * quantity \in Int
    <3> HIDE DEF s
    <3> QED
      BY <1>2
  <2>2. Max({s.least, s.fee * quantity}) \in Int
    <3> HIDE DEF s
    <3> QED
      BY <1>2, <2>1, MaxOfTwo
  <2>3. fees = Max({s.least, s.fee * quantity}) + IF side = "SELL" THEN s.tax * quantity ELSE 0
    BY DEF Fees
  <2> HIDE DEF s, fees
  <2> QED
    BY <2>1, <2>2, <2>3
<1>7. amount \in Int
  <2> HIDE DEF price, fees
  <2>1. price * quantity \in Int /\ Signed(side, fees) \in Int
    BY <1>5, <1>6 DEF Signed
  <2> QED
    BY <2>1
<1>8. Fill(b, i, side, quantity, reference) =
        [kind |-> "FILL", at |-> i, side |-> side, quantity |-> quantity, price |-> price, amount |-> amount]
  BY DEF Fill
<1>9. i \in Nat
  BY LenProperties
<1> HIDE DEF price, amount
<1> QED
  BY <1>5, <1>7, <1>8, <1>9 DEF Fills

\* What an order is filled by, and that it was not too soon.
LEMMA FillIs ==
  ASSUME NEW b \in Seq(BarShapes), NEW start \in Nat \ {0}, NEW side \in {"BUY", "SELL"}, NEW wanted \in Nat,
         NEW acquired, NEW end \in Nat, NEW fill, fill = NextFill(b, start, side, wanted, acquired, end),
         fill.kind = "FILL"
  PROVE fill \in Fills /\ ~TooSoon(fill.at, side, acquired)
<1> DEFINE n == Min({Len(b), end})
           deciding == Deciding(b, start, side, acquired, end)
           i == Min(deciding)
<1>1. Len(b) \in Nat /\ n \in Int /\ n <= Len(b)
  BY LenProperties, MinOfTwo
<1>2. deciding # {} /\ fill = FillAt(b, i, side, wanted, acquired, b[i].open)
  BY DEF NextFill, Refused
<1>3. deciding \subseteq start .. n
  BY DEF Deciding
<1>4. i \in deciding
  <2> HIDE DEF n, deciding
  <2>1. IsFiniteSet(start .. n)
    BY <1>1, FS_Interval
  <2>2. deciding \in SUBSET Int
    BY <1>1, <1>3
  <2>3. IsFiniteSet(deciding)
    BY <1>3, <2>1, FS_Subset
  <2> QED
    BY <1>2, <2>2, <2>3, MinIs
<1> HIDE DEF n, deciding, i
<1>5. i \in 1 .. Len(b)
  BY <1>1, <1>3, <1>4
<1>6. /\ Decision(b, i, side, acquired) = "EXECUTABLE" /\ Covered(Schedules, i)
      /\ fill = Fill(b, i, side, Quantity(b, i, wanted), b[i].open)
  BY <1>2 DEF FillAt, Refused
<1>7. Covered(Rules, i) /\ ~TooSoon(i, side, acquired)
  BY <1>6 DEF Decision
<1>8. b[i].open \in Int /\ b[i].volume \in Int
  <2>1. b[i] \in BarShapes
    BY <1>5, ElementOfSeq
  <2> QED
    BY <2>1, AmountsAreWhole
<1>9. Quantity(b, i, wanted) \in Int
  <2>1. ScheduleOn(i) \in Schedules
    BY <1>6, OneOf DEF ScheduleOn, Covered, Versions
  <2>2. ScheduleOn(i).share \in Nat \ {0}
    BY <2>1, AmountsAreWhole
  <2>3. b[i].volume \div ScheduleOn(i).share \in Int
    BY <1>8, <2>2
  <2>4. Rounded(i, wanted) \in Int /\ Rounded(i, b[i].volume \div ScheduleOn(i).share) \in Int
    BY <1>7, <2>3, RoundedIsInt
  <2> QED
    BY <2>4, MinIsInt DEF Quantity
<1> QED
  BY <1>5, <1>6, <1>7, <1>8, <1>9, FillType

-----------------------------------------------------------------------------
LEMMA FilledAreFinite ==
  ASSUME TradesTypes
  PROVE /\ IsFiniteSet(FilledSet) /\ FilledSet \subseteq 1 .. Len(events) /\ Len(events) \in Nat
        /\ DOMAIN events = 1 .. Len(events)
        /\ \A i \in DOMAIN events : events[i] \in Entries /\ events[i].pnl \in Int
        /\ \A i \in FilledSet : Flow(i) \in Int /\ events[i].fill.at \in Nat
<1>1. Len(events) \in Nat /\ DOMAIN events = 1 .. Len(events)
  BY LenProperties DEF TradesTypes
<1>2. IsFiniteSet(FilledSet) /\ FilledSet \subseteq 1 .. Len(events)
  <2>1. IsFiniteSet(1 .. Len(events))
    BY <1>1, FS_Interval
  <2>2. FilledSet \subseteq 1 .. Len(events)
    BY <1>1 DEF FilledSet
  <2> QED
    BY <2>1, <2>2, FS_Subset
<1>3. \A i \in DOMAIN events : events[i] \in Entries
  BY <1>1, ElementOfSeq DEF TradesTypes
<1>4. \A i \in FilledSet : events[i].fill.amount \in Int /\ events[i].fill.at \in Nat
  BY DEF TradesTypes, Fills
<1>5. \A i \in FilledSet : Flow(i) \in Int
  BY <1>4 DEF Flow, Signed
<1> QED
  BY <1>1, <1>2, <1>3, <1>4, <1>5 DEF Entries

\* What an entry more makes of the ledger.
LEMMA EntryAdded ==
  ASSUME TradesTypes, NEW e \in Entries, events' = Append(events, e), NEW n, n = Len(events) + 1
  PROVE /\ events' \in Seq(Entries) /\ DOMAIN events' = 1 .. n /\ n \in Nat /\ n \notin DOMAIN events
        /\ events'[n] = e /\ \A i \in DOMAIN events : events'[i] = events[i]
        /\ FilledSet' = IF e.type = "REJECT" THEN FilledSet ELSE FilledSet \cup {n}
        /\ \A i \in FilledSet : /\ i \in DOMAIN events /\ i < n
                                /\ Flow(i)' = Flow(i) /\ (Purchase(i)' <=> Purchase(i)) /\ (Sale(i)' <=> Sale(i))
        /\ \A i, j \in FilledSet : Before(i, j)' <=> Before(i, j)
<1>1. Len(events) \in Nat /\ DOMAIN events = 1 .. Len(events) /\ FilledSet \subseteq DOMAIN events
  BY FilledAreFinite DEF FilledSet
<1>2. events \in Seq(Entries)
  BY DEF TradesTypes
<1>3. /\ events' \in Seq(Entries) /\ Len(events') = n
      /\ \A i \in 1 .. n : events'[i] = IF i <= Len(events) THEN events[i] ELSE e
  BY <1>1, <1>2, AppendProperties
<1>4. /\ DOMAIN events' = 1 .. n /\ n \in Nat /\ n \notin DOMAIN events
      /\ events'[n] = e /\ \A i \in DOMAIN events : events'[i] = events[i] /\ i < n
  BY <1>1, <1>3, LenProperties
<1>5. FilledSet' = IF e.type = "REJECT" THEN FilledSet ELSE FilledSet \cup {n}
  <2>1. DOMAIN events' = DOMAIN events \cup {n}
    BY <1>1, <1>4
  <2>2. e.type \in {"BUY", "SELL", "REJECT"}
    BY DEF Entries
  <2>3. FilledSet' = {i \in DOMAIN events' : events'[i].type \in {"BUY", "SELL"}}
    BY DEF FilledSet, Purchase, Sale
  <2>4. FilledSet = {i \in DOMAIN events : events[i].type \in {"BUY", "SELL"}}
    BY DEF FilledSet, Purchase, Sale
  <2> QED
    BY <1>4, <2>1, <2>2, <2>3, <2>4
<1>6. \A i \in FilledSet : /\ i \in DOMAIN events /\ i < n
                           /\ Flow(i)' = Flow(i) /\ (Purchase(i)' <=> Purchase(i)) /\ (Sale(i)' <=> Sale(i))
  BY <1>1, <1>4 DEF Flow, Purchase, Sale
<1>7. \A i, j \in FilledSet : Before(i, j)' <=> Before(i, j)
  BY <1>1, <1>4 DEF Before
<1> QED
  BY <1>3, <1>4, <1>5, <1>6, <1>7

\* A fill that is not late is the last in time.
LEMMA NotLate ==
  ASSUME TradesTypes, FillsInTime, NEW fill \in Fills, ~Late(fill), NEW i \in FilledSet
  PROVE events[i].fill.at <= fill.at
<1>1. /\ IsFiniteSet(FilledSet) /\ FilledSet \subseteq 1 .. Len(events) /\ Len(events) \in Nat
      /\ \A j \in FilledSet : events[j].fill.at \in Nat
  BY FilledAreFinite
<1>2. FilledSet \in SUBSET Int
  BY <1>1
<1>3. Max(FilledSet) \in FilledSet /\ i <= Max(FilledSet)
  BY <1>1, <1>2, MaxIs
<1> DEFINE last == Max(FilledSet)
<1>4. ~(fill.at < events[last].fill.at)
  BY DEF Late
<1>5. fill.at \in Nat
  BY DEF Fills
<1>6. events[i].fill.at <= events[last].fill.at
  BY <1>3 DEF FillsInTime
<1>7. events[last].fill.at \in Nat /\ events[i].fill.at \in Nat
  BY <1>1, <1>3
<1> HIDE DEF last
<1> QED
  BY <1>4, <1>5, <1>6, <1>7

\* What a fill more makes of it: the earlier entries stand, and a purchase was paid for
\* when the cash it leaves is none below zero.
LEMMA FillAdded ==
  ASSUME TradesInv, NEW e \in Entries, e.type \in {"BUY", "SELL"}, e.fill \in Fills, ~Late(e.fill),
         events' = Append(events, e), cash' = cash + Signed(e.type, 0 - e.fill.amount),
         e.type = "BUY" => cash' >= 0, NEW n, n = Len(events) + 1
  PROVE /\ FilledSet' = FilledSet \cup {n} /\ n \notin FilledSet /\ events'[n] = e
        /\ \A i \in FilledSet' : events'[i].fill \in Fills
        /\ FillsInTime' /\ CashFlows' /\ cash' \in Int
        /\ \A i \in FilledSet' : Purchase(i)' => Paid(i)'
        /\ \A i \in FilledSet : (Sale(i)' => Backed(i)') /\ Before(i, n)'
        /\ Profit' = Profit + e.pnl /\ Profit \in Int
<1> DEFINE flows == [i \in FilledSet |-> Flow(i)]
           profits == [i \in FilledSet |-> events[i].pnl]
           amount == 0 - e.fill.amount
           flow == Signed(e.type, amount)
<1>0. TradesTypes /\ FillsInTime /\ CashFlows /\ cash \in Int /\ Funds \in Int
  BY AmountsAreWhole DEF TradesInv, TradesTypes
<1>1. /\ IsFiniteSet(FilledSet) /\ FilledSet \subseteq 1 .. Len(events) /\ Len(events) \in Nat
      /\ DOMAIN events = 1 .. Len(events)
      /\ \A i \in DOMAIN events : events[i] \in Entries /\ events[i].pnl \in Int
      /\ \A i \in FilledSet : Flow(i) \in Int /\ events[i].fill.at \in Nat
  BY <1>0, FilledAreFinite
<1>2. /\ n \in Nat /\ n \notin DOMAIN events /\ events'[n] = e
      /\ \A i \in DOMAIN events : events'[i] = events[i]
      /\ \A i \in FilledSet : /\ i \in DOMAIN events /\ i < n
                              /\ Flow(i)' = Flow(i) /\ (Purchase(i)' <=> Purchase(i)) /\ (Sale(i)' <=> Sale(i))
      /\ \A i, j \in FilledSet : Before(i, j)' <=> Before(i, j)
  BY <1>0, EntryAdded
<1>3. FilledSet' = FilledSet \cup {n} /\ n \notin FilledSet
  <2>1. FilledSet' = IF e.type = "REJECT" THEN FilledSet ELSE FilledSet \cup {n}
    BY <1>0, EntryAdded
  <2> QED
    BY <1>2, <2>1
<1>4. e.fill.at \in Nat /\ flow \in Int /\ Flow(n)' = flow
  <2>1. e.fill.at \in Nat /\ e.fill.amount \in Int
    BY DEF Fills
  <2> QED
    BY <1>2, <2>1 DEF Flow, Signed
<1>5. \A i \in FilledSet : events'[i].fill.at <= e.fill.at /\ events'[i] = events[i]
  BY <1>0, <1>2, NotLate
<1>6. FillsInTime'
  <2> SUFFICES ASSUME NEW i \in FilledSet', NEW j \in FilledSet', i <= j
               PROVE events'[i].fill.at <= events'[j].fill.at
    BY DEF FillsInTime
  <2>1. CASE j = n
    BY <1>2, <1>3, <1>4, <1>5, <2>1
  <2>2. CASE j # n
    <3>1. j \in FilledSet /\ j < n /\ n \in Nat /\ j \in Nat
      BY <1>1, <1>2, <1>3, <2>2
    <3>2. i \in FilledSet
      BY <1>3, <3>1
    <3> QED
      BY <1>0, <1>5, <3>1, <3>2 DEF FillsInTime
  <2> QED
    BY <2>1, <2>2
<1>7. \A i \in FilledSet : Before(i, n)' /\ ~Before(n, i)'
  <2> SUFFICES ASSUME NEW i \in FilledSet PROVE Before(i, n)' /\ ~Before(n, i)'
    OBVIOUS
  <2>1. i \in Nat /\ i < n /\ events'[i].fill.at \in Nat /\ events'[i].fill.at <= e.fill.at
    BY <1>1, <1>2, <1>5
  <2> QED
    BY <1>2, <1>4, <2>1 DEF Before
<1>8. ~Before(n, n)'
  BY <1>2, <1>4 DEF Before
<1>9. SumFunction(flows) \in Int /\ SumFunction([i \in FilledSet' |-> Flow(i)']) = flow + SumFunction(flows)
  <2> DEFINE more == [i \in FilledSet' |-> Flow(i)']
  <2>1. /\ DOMAIN more = FilledSet \cup {n} /\ DOMAIN flows = DOMAIN more \ {n} /\ n \in DOMAIN more
        /\ \A x \in DOMAIN flows : flows[x] = more[x]
        /\ \A x \in DOMAIN more : more[x] \in Int
        /\ more[n] = flow
    BY <1>1, <1>2, <1>3, <1>4
  <2>2. IsFiniteSet(DOMAIN more)
    BY <1>1, <2>1, FS_AddElement
  <2> HIDE DEF more, flows, flow
  <2>3. /\ n \in DOMAIN more /\ DOMAIN flows = DOMAIN more \ {n}
        /\ \A x \in DOMAIN more : more[x] \in Int
        /\ \A x \in DOMAIN flows : flows[x] = more[x]
    BY <2>1
  <2>4. SumFunction(more) = more[n] + SumFunction(flows) /\ SumFunction(flows) \in Int
    BY <2>2, <2>3, SumOfMore, ZenonT(60)
  <2> QED
    BY <2>1, <2>4 DEF more
<1>10. cash' = Funds + (flow + SumFunction(flows)) /\ cash' \in Int
  <2>1. cash = Funds + SumFunction(flows)
    BY <1>0 DEF CashFlows
  <2> HIDE DEF flow, flows
  <2>2. cash' = cash + flow
    BY DEF flow
  <2> QED
    BY <1>0, <1>4, <1>9, <2>1, <2>2
<1>11. CashFlows'
  BY <1>9, <1>10, AmountsAreWhole DEF CashFlows
<1>12. ASSUME NEW i \in FilledSet', Purchase(i)' PROVE Paid(i)'
  <2> DEFINE earlier == {k \in FilledSet' : Before(k, i)'}
  <2>1. CASE i = n
    <3>1. earlier = FilledSet
      BY <1>3, <1>7, <1>8, <2>1
    <3>2. [j \in earlier |-> Flow(j)'] = flows
      BY <1>2, <3>1
    <3>3. e.type = "BUY" /\ cash' >= 0
      BY <1>2, <1>12, <2>1 DEF Purchase
    <3> HIDE DEF earlier, flows, flow
    <3>4. Funds + flow + SumFunction(flows) >= 0
      BY <1>0, <1>4, <1>9, <1>10, <3>3
    <3> QED
      BY <1>4, <2>1, <3>2, <3>4 DEF Paid, earlier
  <2>2. CASE i # n
    <3>1. i \in FilledSet /\ Purchase(i) /\ Flow(i)' = Flow(i)
      BY <1>2, <1>3, <1>12, <2>2
    <3>2. earlier = {k \in FilledSet : Before(k, i)}
      BY <1>2, <1>3, <1>7, <3>1
    <3>3. [j \in earlier |-> Flow(j)'] = [j \in {k \in FilledSet : Before(k, i)} |-> Flow(j)]
      BY <1>2, <3>2
    <3>4. Paid(i)
      BY <3>1 DEF TradesInv, LedgerIsPossible, Paid
    <3> HIDE DEF earlier
    <3> QED
      BY <3>1, <3>3, <3>4 DEF Paid, earlier
  <2> QED
    BY <2>1, <2>2
<1>13. ASSUME NEW i \in FilledSet, Sale(i)' PROVE Backed(i)'
  <2>1. PICK j \in FilledSet :
          /\ Purchase(j) /\ Before(j, i) /\ events[j].position = events[i].position
          /\ RuleOn(events[i].fill.at).nextDay => events[j].fill.at < events[i].fill.at
          /\ \A k \in FilledSet \ {i, j} :
               events[k].position = events[i].position => ~(Before(j, k) /\ Before(k, i))
    BY <1>2, <1>13 DEF TradesInv, LedgerIsPossible
  <2>2. events'[i] = events[i] /\ events'[j] = events[j] /\ Purchase(j)' /\ Before(j, i)'
    BY <1>2, <2>1
  <2>3. \A k \in FilledSet' \ {i, j} :
          events'[k].position = events'[i].position => ~(Before(j, k)' /\ Before(k, i)')
    BY <1>2, <1>3, <1>5, <1>7, <2>1, <2>2
  <2>4. j \in FilledSet'
    BY <1>3
  <2>5. RuleOn(events'[i].fill.at).nextDay => events'[j].fill.at < events'[i].fill.at
    BY <2>1, <2>2
  <2> QED
    BY <2>1, <2>2, <2>3, <2>4, <2>5 DEF Backed
<1>14. Profit' = Profit + e.pnl /\ Profit \in Int
  <2> DEFINE more == [i \in FilledSet' |-> events'[i].pnl]
  <2>1. /\ DOMAIN more = FilledSet \cup {n} /\ DOMAIN profits = DOMAIN more \ {n} /\ n \in DOMAIN more
        /\ \A x \in DOMAIN profits : profits[x] = more[x]
        /\ more[n] = e.pnl
    BY <1>2, <1>3
  <2>2. e.pnl \in Int /\ \A x \in DOMAIN more : more[x] \in Int
    BY <1>1, <1>2, <1>3, ZenonT(60) DEF Entries
  <2>3. IsFiniteSet(DOMAIN more)
    BY <1>1, <2>1, FS_AddElement
  <2>4. Profit = SumFunction(profits) /\ Profit' = SumFunction(more)
    BY DEF Profit
  <2> HIDE DEF more, profits
  <2>5. /\ n \in DOMAIN more /\ DOMAIN profits = DOMAIN more \ {n}
        /\ \A x \in DOMAIN more : more[x] \in Int
        /\ \A x \in DOMAIN profits : profits[x] = more[x]
    BY <2>1, <2>2
  <2>6. SumFunction(more) = more[n] + SumFunction(profits) /\ SumFunction(profits) \in Int
    BY <2>3, <2>5, SumOfMore, ZenonT(60)
  <2> QED
    BY <2>1, <2>2, <2>4, <2>6
<1>15. \A i \in FilledSet' : events'[i].fill \in Fills
  BY <1>0, <1>2, <1>3 DEF TradesTypes
<1> QED
  BY <1>2, <1>3, <1>6, <1>7, <1>10, <1>11, <1>12, <1>13, <1>14, <1>15

LEMMA ProfitAndOutlay ==
  LedgerIsPossible <=>
    /\ \A i \in FilledSet : Purchase(i) => Paid(i)
    /\ \A i \in FilledSet : Sale(i) => Backed(i)
    /\ cash = Funds + Profit - Outlay
BY DEF LedgerIsPossible, Paid, Backed, Profit, Outlay

\* A step that fills nothing.
LEMMA NothingFilled ==
  ASSUME TradesInv, TradesTypes', FilledSet' = FilledSet, cash' = cash, positions' = positions,
         \A i \in FilledSet : events'[i] = events[i]
  PROVE TradesInv'
<1>1. /\ \A i \in FilledSet : Flow(i)' = Flow(i) /\ (Purchase(i)' <=> Purchase(i)) /\ (Sale(i)' <=> Sale(i))
      /\ \A i, j \in FilledSet : Before(i, j)' <=> Before(i, j)
  BY DEF Flow, Purchase, Sale, Before
<1>2. FillsInTime'
  BY DEF TradesInv, FillsInTime
<1>3. CashFlows'
  <2>1. [i \in FilledSet' |-> Flow(i)'] = [i \in FilledSet |-> Flow(i)]
    BY <1>1
  <2> QED
    BY <2>1 DEF TradesInv, CashFlows
<1>4. OpenWereBought'
  BY <1>1 DEF TradesInv, OpenWereBought
<1>5. Profit' = Profit /\ Outlay' = Outlay
  <2>1. [i \in FilledSet' |-> events'[i].pnl] = [i \in FilledSet |-> events[i].pnl]
    OBVIOUS
  <2> QED
    BY <2>1 DEF Profit, Outlay
<1>6. ASSUME NEW i \in FilledSet, Purchase(i) PROVE Paid(i)'
  <2>1. {k \in FilledSet' : Before(k, i)'} = {k \in FilledSet : Before(k, i)}
    BY <1>1
  <2>2. [j \in {k \in FilledSet' : Before(k, i)'} |-> Flow(j)'] = [j \in {k \in FilledSet : Before(k, i)} |-> Flow(j)]
    BY <1>1, <2>1
  <2>3. Paid(i)
    BY <1>6, ProfitAndOutlay DEF TradesInv
  <2> QED
    BY <1>1, <2>2, <2>3 DEF Paid
<1>7. ASSUME NEW i \in FilledSet, Sale(i) PROVE Backed(i)'
  <2>1. Backed(i)
    BY <1>7, ProfitAndOutlay DEF TradesInv
  <2> QED
    BY <1>1, <2>1 DEF Backed
<1>8. cash = Funds + Profit - Outlay
  BY ProfitAndOutlay DEF TradesInv
<1>9. LedgerIsPossible'
  <2>1. /\ \A i \in FilledSet' : Purchase(i)' => Paid(i)'
        /\ \A i \in FilledSet' : Sale(i)' => Backed(i)'
        /\ cash' = Funds + Profit' - Outlay'
    BY <1>1, <1>5, <1>6, <1>7, <1>8
  <2> QED
    BY <2>1 DEF LedgerIsPossible, Paid, Backed, Profit, Outlay
<1> QED
  BY <1>2, <1>3, <1>4, <1>9 DEF TradesInv

LEMMA IntentIs ==
  ASSUME TradesTypes, phase = "run"
  PROVE /\ intents # <<>> /\ intents \in Seq(Orders) /\ Intent \in Orders
        /\ Intent.side \in {"BUY", "SELL"} /\ Intent.start \in Nat \ {0}
        /\ Intent.quantity \in Nat /\ Intent.end \in Nat
<1>1. intents # <<>> /\ intents \in Seq(Orders)
  BY DEF TradesTypes
<1>2. Intent \in Orders
  BY <1>1, HeadTailProperties DEF Intent
<1> HIDE DEF Intent
<1> QED
  BY <1>1, <1>2, AmountsAreWhole

LEMMA OrdersLeft ==
  ASSUME TradesTypes, phase = "run", NEW type, NEW fill, NEW pnl, Settle(type, fill, pnl)
  PROVE intents' \in Seq(Orders) /\ (phase' = "run" => intents' # <<>>) /\ bars' = bars
<1>1. intents # <<>> /\ intents \in Seq(Orders)
  BY IntentIs
<1>2. /\ intents' \in Seq(Orders) /\ Len(intents') = Len(intents) - 1
      /\ phase' = IF Len(intents) = 1 THEN "over" ELSE "run"
  BY <1>1, HeadTailProperties DEF Settle
<1>3. Len(intents) \in Nat /\ Len(intents') \in Nat
  BY <1>1, <1>2, LenProperties
<1>4. phase' = "run" => intents' # <<>>
  BY <1>2, <1>3, EmptySeq
<1> QED
  BY <1>2, <1>4 DEF Settle

LEMMA RejectInv ==
  ASSUME TradesInv, phase = "run", Reject
  PROVE TradesInv'
<1> DEFINE e == [type |-> "REJECT", position |-> Intent.position, fill |-> Refused("REJECTED"), pnl |-> 0]
<1>1. TradesTypes /\ Intent \in Orders
  BY IntentIs DEF TradesInv
<1>2. e \in Entries /\ e.type = "REJECT" /\ events' = Append(events, e) /\ UNCHANGED <<cash, positions>>
  BY <1>1 DEF Entries, Reject, Settle
<1> HIDE DEF e
<1>3. /\ events' \in Seq(Entries) /\ FilledSet' = FilledSet
      /\ \A i \in FilledSet : i \in DOMAIN events /\ events'[i] = events[i]
  <2>1. PICK n : n = Len(events) + 1
    OBVIOUS
  <2>2. /\ events' \in Seq(Entries) /\ \A i \in DOMAIN events : events'[i] = events[i]
        /\ FilledSet' = IF e.type = "REJECT" THEN FilledSet ELSE FilledSet \cup {n}
        /\ \A i \in FilledSet : i \in DOMAIN events
    BY <1>1, <1>2, <2>1, EntryAdded
  <2> QED
    BY <1>2, <2>2
<1>4. intents' \in Seq(Orders) /\ (phase' = "run" => intents' # <<>>) /\ bars' = bars
  BY <1>1, OrdersLeft DEF Reject
<1>5. TradesTypes'
  BY <1>1, <1>2, <1>3, <1>4 DEF TradesTypes
<1> QED
  BY <1>2, <1>3, <1>5, NothingFilled

\* A purchase is paid from the cash there is.
LEMMA BuyInv ==
  ASSUME TradesInv, phase = "run", Buy
  PROVE TradesInv'
<1> DEFINE e == [type |-> "BUY", position |-> Intent.position, fill |-> Attempt, pnl |-> 0]
           p == Intent.position
<1>1. /\ TradesTypes /\ Intent \in Orders /\ Intent.start \in Nat \ {0}
      /\ Intent.quantity \in Nat /\ Intent.end \in Nat
  BY IntentIs DEF TradesInv
<1>2. /\ Intent.side = "BUY" /\ Attempt.kind = "FILL" /\ ~Late(Attempt) /\ Attempt.amount <= cash
      /\ p \notin DOMAIN positions
  BY DEF Buy, Accepted, Tried, IsOpen, Affordable
<1>3. Attempt \in Fills
  <2>1. Attempt = NextFill(bars, Intent.start, "BUY", Intent.quantity, 0, Intent.end)
    BY <1>2 DEF Attempt
  <2>2. bars \in Seq(BarShapes)
    BY <1>1 DEF TradesTypes
  <2> QED
    BY <1>1, <1>2, <2>1, <2>2, FillIs
<1> HIDE DEF Attempt, Intent
<1>4. /\ e \in Entries /\ e.type = "BUY" /\ e.fill = Attempt /\ e.pnl = 0 /\ e.position = p
      /\ events' = Append(events, e) /\ cash' = cash - Attempt.amount
      /\ positions' = [q \in DOMAIN positions \cup {p} |-> IF q = p THEN Attempt ELSE positions[q]]
  BY <1>1, <1>3 DEF Entries, Buy, Settle
<1> HIDE DEF e, p
<1>5. cash \in Int /\ Attempt.amount \in Int
  BY <1>1, <1>3 DEF TradesTypes, Fills
<1>6. cash' = cash + Signed(e.type, 0 - e.fill.amount) /\ cash' >= 0
  BY <1>2, <1>4, <1>5 DEF Signed
<1>7. PICK n : n = Len(events) + 1
  OBVIOUS
<1>8. /\ FilledSet' = FilledSet \cup {n} /\ n \notin FilledSet /\ events'[n] = e
      /\ \A i \in FilledSet' : events'[i].fill \in Fills
      /\ FillsInTime' /\ CashFlows' /\ cash' \in Int
      /\ \A i \in FilledSet' : Purchase(i)' => Paid(i)'
      /\ \A i \in FilledSet : (Sale(i)' => Backed(i)') /\ Before(i, n)'
      /\ Profit' = Profit + e.pnl /\ Profit \in Int
  BY <1>2, <1>3, <1>4, <1>6, <1>7, FillAdded
<1>9. events' \in Seq(Entries) /\ \A i \in FilledSet : events'[i] = events[i] /\ i < n /\ (Purchase(i)' <=> Purchase(i))
  <2>1. /\ events' \in Seq(Entries) /\ \A i \in DOMAIN events : events'[i] = events[i]
        /\ \A i \in FilledSet : i \in DOMAIN events /\ i < n /\ (Purchase(i)' <=> Purchase(i))
    BY <1>1, <1>4, <1>7, EntryAdded
  <2> QED
    BY <2>1
<1>10. /\ DOMAIN positions' = DOMAIN positions \cup {p} /\ positions'[p] = Attempt
       /\ \A q \in DOMAIN positions : positions'[q] = positions[q]
       /\ positions' = [q \in DOMAIN positions' |-> positions'[q]]
  BY <1>2, <1>4
<1>11. positions' \in [DOMAIN positions' -> Fills] /\ IsFiniteSet(DOMAIN positions')
  <2>1. \A q \in DOMAIN positions : positions[q] \in Fills
    BY <1>1 DEF TradesTypes
  <2>2. IsFiniteSet(DOMAIN positions)
    BY <1>1 DEF TradesTypes
  <2>3. IsFiniteSet(DOMAIN positions')
    BY <1>10, <2>2, FS_AddElement
  <2> QED
    BY <1>3, <1>10, <2>1, <2>3
<1>12. TradesTypes'
  <2>1. intents' \in Seq(Orders) /\ (phase' = "run" => intents' # <<>>) /\ bars' = bars
    BY <1>1, OrdersLeft DEF Buy
  <2> QED
    BY <1>1, <1>8, <1>9, <1>11, <2>1 DEF TradesTypes
<1>13. OpenWereBought'
  <2> SUFFICES ASSUME NEW q \in DOMAIN positions'
               PROVE \E j \in FilledSet' :
                       /\ Purchase(j)' /\ events'[j].position = q /\ events'[j].fill = positions'[q]
                       /\ \A k \in FilledSet' : k > j => events'[k].position # q
    BY DEF OpenWereBought
  <2>1. n \in Nat /\ FilledSet \subseteq Nat
    BY <1>1, <1>7, FilledAreFinite
  <2>2. CASE q = p
    <3>1. Purchase(n)' /\ events'[n].position = q /\ events'[n].fill = positions'[q] /\ n \in FilledSet'
      BY <1>4, <1>8, <1>10, <2>2 DEF Purchase
    <3>2. ASSUME NEW k \in FilledSet' PROVE ~(k > n)
      <4>1. CASE k = n
        BY <2>1, <4>1
      <4>2. CASE k # n
        <5>1. k \in FilledSet /\ k < n /\ k \in Nat
          BY <1>8, <1>9, <2>1, <4>2
        <5> QED
          BY <2>1, <5>1
      <4> QED
        BY <4>1, <4>2
    <3> QED
      BY <3>1, <3>2
  <2>3. CASE q # p
    <3>1. q \in DOMAIN positions
      BY <1>10, <2>3
    <3>2. PICK j \in FilledSet :
            /\ Purchase(j) /\ events[j].position = q /\ events[j].fill = positions[q]
            /\ \A k \in FilledSet : k > j => events[k].position # q
      BY <3>1 DEF TradesInv, OpenWereBought
    <3>3. /\ j \in FilledSet' /\ Purchase(j)' /\ events'[j].position = q /\ events'[j].fill = positions'[q]
          /\ \A k \in FilledSet' : k > j => events'[k].position # q
      BY <1>4, <1>8, <1>9, <1>10, <2>3, <3>1, <3>2, ZenonT(60)
    <3> QED
      BY <3>3
  <2> QED
    BY <2>2, <2>3
<1>14. Outlay' = Outlay + Attempt.amount /\ Outlay \in Int
  <2> DEFINE more == [q \in DOMAIN positions' |-> positions'[q].amount]
             outlays == [q \in DOMAIN positions |-> positions[q].amount]
  <2>1. /\ p \in DOMAIN more /\ DOMAIN outlays = DOMAIN more \ {p} /\ more[p] = Attempt.amount
        /\ \A x \in DOMAIN outlays : outlays[x] = more[x]
    BY <1>2, <1>10
  <2>2. \A x \in DOMAIN more : more[x] \in Int
    BY <1>11 DEF Fills
  <2>3. IsFiniteSet(DOMAIN more)
    BY <1>11
  <2>4. Outlay = SumFunction(outlays) /\ Outlay' = SumFunction(more)
    BY DEF Outlay
  <2> HIDE DEF more, outlays
  <2>5. SumFunction(more) = more[p] + SumFunction(outlays) /\ SumFunction(outlays) \in Int
    BY <2>1, <2>2, <2>3, SumOfMore
  <2> QED
    BY <1>5, <2>1, <2>4, <2>5
<1>15. cash' = Funds + Profit' - Outlay'
  <2>1. cash = Funds + Profit - Outlay /\ Funds \in Int
    BY ProfitAndOutlay, AmountsAreWhole DEF TradesInv
  <2>2. Profit' = Profit
    BY <1>4, <1>8
  <2> QED
    BY <1>4, <1>5, <1>8, <1>14, <2>1, <2>2, SMTT(60)
<1>16. \A i \in FilledSet' : Sale(i)' => Backed(i)'
  BY <1>4, <1>8 DEF Sale
<1>17. LedgerIsPossible'
  BY <1>8, <1>15, <1>16 DEF LedgerIsPossible, Paid, Backed, Profit, Outlay
<1> QED
  BY <1>8, <1>12, <1>13, <1>17 DEF TradesInv

\* What is sold was bought by the last fill of its position.
LEMMA SellInv ==
  ASSUME TradesInv, phase = "run", Sell
  PROVE TradesInv'
<1> DEFINE p == Intent.position
           bought == positions[p]
           e == [type |-> "SELL", position |-> p, fill |-> Attempt, pnl |-> Attempt.amount - bought.amount]
<1>1. /\ TradesTypes /\ Intent \in Orders /\ Intent.start \in Nat \ {0}
      /\ Intent.quantity \in Nat /\ Intent.end \in Nat
  BY IntentIs DEF TradesInv
<1>2. /\ Intent.side = "SELL" /\ Attempt.kind = "FILL" /\ ~Late(Attempt) /\ p \in DOMAIN positions
  BY DEF Sell, Accepted, Tried, IsOpen
<1>3. Attempt \in Fills /\ ~TooSoon(Attempt.at, "SELL", bought.at)
  <2>1. Attempt = NextFill(bars, Intent.start, "SELL", Intent.quantity, bought.at, Intent.end)
    BY <1>2 DEF Attempt
  <2>2. bars \in Seq(BarShapes)
    BY <1>1 DEF TradesTypes
  <2> HIDE DEF bought
  <2> QED
    BY <1>1, <1>2, <2>1, <2>2, FillIs
<1> HIDE DEF Attempt, Intent
<1>4. bought \in Fills /\ bought.amount \in Int /\ bought.at \in Nat /\ Attempt.amount \in Int /\ Attempt.at \in Nat
  <2>1. bought \in Fills
    BY <1>1, <1>2 DEF TradesTypes
  <2> QED
    BY <1>3, <2>1 DEF Fills
<1>5. /\ e \in Entries /\ e.type = "SELL" /\ e.fill = Attempt /\ e.pnl = Attempt.amount - bought.amount
      /\ e.position = p /\ events' = Append(events, e) /\ cash' = cash + Attempt.amount
      /\ positions' = [q \in DOMAIN positions \ {p} |-> positions[q]]
  <2>1. Attempt.amount - bought.amount \in Int
    BY <1>4
  <2> QED
    BY <1>1, <1>3, <2>1 DEF Entries, Sell, Settle
<1> HIDE DEF e, p
<1>6. cash \in Int /\ cash' = cash + Signed(e.type, 0 - e.fill.amount)
  BY <1>1, <1>4, <1>5 DEF Signed, TradesTypes
<1>7. PICK n : n = Len(events) + 1
  OBVIOUS
<1>8. /\ FilledSet' = FilledSet \cup {n} /\ n \notin FilledSet /\ events'[n] = e
      /\ \A i \in FilledSet' : events'[i].fill \in Fills
      /\ FillsInTime' /\ CashFlows' /\ cash' \in Int
      /\ \A i \in FilledSet' : Purchase(i)' => Paid(i)'
      /\ \A i \in FilledSet : (Sale(i)' => Backed(i)') /\ Before(i, n)'
      /\ Profit' = Profit + e.pnl /\ Profit \in Int
  BY <1>2, <1>3, <1>5, <1>6, <1>7, FillAdded
<1>9. /\ events' \in Seq(Entries)
      /\ \A i \in FilledSet : events'[i] = events[i] /\ i < n /\ (Purchase(i)' <=> Purchase(i))
      /\ \A i, j \in FilledSet : Before(i, j)' <=> Before(i, j)
  <2>1. /\ events' \in Seq(Entries) /\ \A i \in DOMAIN events : events'[i] = events[i]
        /\ \A i \in FilledSet : i \in DOMAIN events /\ i < n /\ (Purchase(i)' <=> Purchase(i))
        /\ \A i, j \in FilledSet : Before(i, j)' <=> Before(i, j)
    BY <1>1, <1>5, <1>7, EntryAdded
  <2> QED
    BY <2>1
<1>10. /\ DOMAIN positions' = DOMAIN positions \ {p}
       /\ \A q \in DOMAIN positions' : q # p /\ q \in DOMAIN positions /\ positions'[q] = positions[q]
       /\ positions' = [q \in DOMAIN positions' |-> positions'[q]]
  BY <1>5
<1>11. positions' \in [DOMAIN positions' -> Fills] /\ IsFiniteSet(DOMAIN positions')
  <2>1. \A q \in DOMAIN positions : positions[q] \in Fills
    BY <1>1 DEF TradesTypes
  <2>2. IsFiniteSet(DOMAIN positions)
    BY <1>1 DEF TradesTypes
  <2>3. IsFiniteSet(DOMAIN positions')
    BY <1>10, <2>2, FS_Subset
  <2> QED
    BY <1>10, <2>1, <2>3
<1>12. TradesTypes'
  <2>1. intents' \in Seq(Orders) /\ (phase' = "run" => intents' # <<>>) /\ bars' = bars
    BY <1>1, OrdersLeft DEF Sell
  <2> QED
    BY <1>1, <1>8, <1>9, <1>11, <2>1 DEF TradesTypes
<1>13. OpenWereBought'
  <2> SUFFICES ASSUME NEW q \in DOMAIN positions'
               PROVE \E j \in FilledSet' :
                       /\ Purchase(j)' /\ events'[j].position = q /\ events'[j].fill = positions'[q]
                       /\ \A k \in FilledSet' : k > j => events'[k].position # q
    BY DEF OpenWereBought
  <2>1. q \in DOMAIN positions /\ q # p /\ positions'[q] = positions[q]
    BY <1>10
  <2>2. PICK j \in FilledSet :
          /\ Purchase(j) /\ events[j].position = q /\ events[j].fill = positions[q]
          /\ \A k \in FilledSet : k > j => events[k].position # q
    BY <2>1 DEF TradesInv, OpenWereBought
  <2>3. /\ j \in FilledSet' /\ Purchase(j)' /\ events'[j].position = q /\ events'[j].fill = positions'[q]
        /\ \A k \in FilledSet' : k > j => events'[k].position # q
    BY <1>5, <1>8, <1>9, <2>1, <2>2
  <2> QED
    BY <2>3
<1>14. Backed(n)'
  <2>1. PICK j \in FilledSet :
          /\ Purchase(j) /\ events[j].position = p /\ events[j].fill = bought
          /\ \A k \in FilledSet : k > j => events[k].position # p
    BY <1>2 DEF TradesInv, OpenWereBought
  <2>2. /\ j \in FilledSet' /\ Purchase(j)' /\ Before(j, n)' /\ events'[j] = events[j]
        /\ events'[j].position = events'[n].position
    BY <1>5, <1>8, <1>9, <2>1
  <2>3. RuleOn(events'[n].fill.at).nextDay => events'[j].fill.at < events'[n].fill.at
    <3>1. events'[n].fill.at = Attempt.at /\ events'[j].fill.at = bought.at
      BY <1>5, <1>8, <2>1, <2>2
    <3>2. RuleOn(Attempt.at).nextDay => ~(Attempt.at <= bought.at)
      BY <1>3 DEF TooSoon
    <3> QED
      BY <1>4, <3>1, <3>2
  <2>4. ASSUME NEW k \in FilledSet' \ {n, j}, events'[k].position = events'[n].position
        PROVE ~Before(j, k)'
    <3>1. k \in FilledSet /\ events[k].position = p /\ events'[k] = events[k]
      BY <1>5, <1>8, <1>9, <2>4
    <3>2. k \in Nat /\ j \in Nat /\ events[k].fill.at \in Nat /\ events[j].fill.at \in Nat
      BY <1>1, <3>1, FilledAreFinite
    <3>3. k < j
      BY <2>1, <3>1, <3>2, <2>4
    <3>4. events[k].fill.at <= events[j].fill.at
      BY <3>1, <3>2, <3>3 DEF TradesInv, FillsInTime
    <3>5. ~Before(j, k)
      BY <3>2, <3>3, <3>4 DEF Before
    <3> QED
      BY <1>9, <3>1, <3>5
  <2> QED
    BY <2>2, <2>3, <2>4 DEF Backed
<1>15. Outlay = bought.amount + Outlay' /\ Outlay' \in Int
  <2> DEFINE outlays == [q \in DOMAIN positions |-> positions[q].amount]
             fewer == [q \in DOMAIN positions' |-> positions'[q].amount]
  <2>1. /\ p \in DOMAIN outlays /\ DOMAIN fewer = DOMAIN outlays \ {p} /\ outlays[p] = bought.amount
        /\ \A x \in DOMAIN fewer : fewer[x] = outlays[x]
    BY <1>2, <1>10
  <2>2. \A x \in DOMAIN outlays : outlays[x] \in Int
    <3>1. \A q \in DOMAIN positions : positions[q] \in Fills
      BY <1>1 DEF TradesTypes
    <3> QED
      BY <3>1 DEF Fills
  <2>3. IsFiniteSet(DOMAIN outlays)
    BY <1>1 DEF TradesTypes
  <2>4. Outlay = SumFunction(outlays) /\ Outlay' = SumFunction(fewer)
    BY DEF Outlay
  <2> HIDE DEF fewer, outlays
  <2>5. SumFunction(outlays) = outlays[p] + SumFunction(fewer) /\ SumFunction(fewer) \in Int
    BY <2>1, <2>2, <2>3, SumOfMore
  <2> QED
    BY <2>1, <2>4, <2>5
<1>16. cash' = Funds + Profit' - Outlay'
  <2>1. cash = Funds + Profit - Outlay /\ Funds \in Int
    BY ProfitAndOutlay, AmountsAreWhole DEF TradesInv
  <2>2. Profit' = Profit + (Attempt.amount - bought.amount)
    BY <1>5, <1>8
  <2>3. cash' = cash + Attempt.amount /\ Profit \in Int /\ Attempt.amount \in Int /\ bought.amount \in Int
    BY <1>4, <1>5, <1>8
  <2> HIDE DEF bought
  <2> QED
    BY <1>6, <1>15, <2>1, <2>2, <2>3
<1>17. \A i \in FilledSet' : Sale(i)' => Backed(i)'
  BY <1>8, <1>14
<1>18. LedgerIsPossible'
  BY <1>8, <1>16, <1>17 DEF LedgerIsPossible, Paid, Backed, Profit, Outlay
<1> QED
  BY <1>8, <1>12, <1>13, <1>18 DEF TradesInv

\* The orders of a run are as many as were chosen, each of them once.
LEMMA OrdersOfARun ==
  ASSUME NEW n \in Nat \ {0}, NEW orders \in kSubset(n, Orders), NEW s \in Sorted(orders)
  PROVE s \in Seq(Orders) /\ s # <<>>
<1>1. orders \subseteq Orders /\ Cardinality(orders) = n
  BY DEF kSubset
<1>2. s \in [1 .. n -> Orders]
  BY <1>1 DEF Sorted
<1>3. s \in Seq(Orders) /\ Len(s) = n
  BY <1>2 DEF Seq
<1> QED
  BY <1>3, EmptySeq

LEMMA BesidesTheRun ==
  ASSUME TradesInv, UNCHANGED <<cash, positions, events>>, bars' \in Seq(BarShapes),
         intents' \in Seq(Orders), phase' = "run" => intents' # <<>>
  PROVE TradesInv'
<1>1. FilledSet' = FilledSet
  BY DEF FilledSet, Purchase, Sale
<1>2. TradesTypes'
  BY <1>1 DEF TradesInv, TradesTypes
<1> QED
  BY <1>1, <1>2, NothingFilled

LEMMA TradesInit ==
  ASSUME BacktestInit
  PROVE TradesInv
<1>1. events = <<>> /\ DOMAIN events = {} /\ FilledSet = {} /\ DOMAIN positions = {}
  BY DEF BacktestInit, FilledSet
<1>2. TradesTypes
  <2>1. positions \in [DOMAIN positions -> Fills] /\ IsFiniteSet(DOMAIN positions)
    BY <1>1, FS_EmptySet DEF BacktestInit
  <2>2. bars \in Seq(BarShapes) /\ intents \in Seq(Orders) /\ events \in Seq(Entries)
    BY DEF BacktestInit
  <2> QED
    BY <1>1, <2>1, <2>2, AmountsAreWhole DEF TradesTypes, BacktestInit
<1>3. SumFunction([i \in FilledSet |-> Flow(i)]) = 0 /\ Profit = 0 /\ Outlay = 0
  BY <1>1, SumOfNone DEF SumFunction, Profit, Outlay
<1>4. cash = Funds /\ Funds \in Nat
  BY AmountsAreWhole DEF BacktestInit
<1>5. FillsInTime /\ OpenWereBought
  BY <1>1 DEF FillsInTime, OpenWereBought
<1>6. CashFlows /\ LedgerIsPossible
  BY <1>1, <1>3, <1>4, ProfitAndOutlay DEF CashFlows
<1> QED
  BY <1>2, <1>5, <1>6 DEF TradesInv

LEMMA TradesNext ==
  ASSUME TradesInv, [LabelNext]_labelVars
  PROVE TradesInv'
<1>0. TradesTypes
  BY DEF TradesInv
<1>1. ASSUME NEW shape \in BarShapes, CloseSession(shape) PROVE TradesInv'
  <2>1. bars' \in Seq(BarShapes)
    BY <1>0, <1>1, AppendProperties DEF CloseSession, TradesTypes
  <2>2. UNCHANGED <<cash, positions, events>> /\ intents' \in Seq(Orders) /\ phase' # "run"
    BY <1>0, <1>1 DEF CloseSession, TradesTypes
  <2> QED
    BY <2>1, <2>2, BesidesTheRun
<1>2. ASSUME NEW n \in 1 .. MaxOrders, NEW orders \in kSubset(n, Orders), Run(orders) PROVE TradesInv'
  <2>1. intents' \in Seq(Orders) /\ intents' # <<>>
    <3>1. n \in Nat \ {0} /\ intents' \in Sorted(orders)
      BY <1>2 DEF Run
    <3> QED
      BY <3>1, OrdersOfARun
  <2>2. UNCHANGED <<cash, positions, events>> /\ bars' \in Seq(BarShapes)
    BY <1>0, <1>2 DEF Run, TradesTypes
  <2> QED
    BY <2>1, <2>2, BesidesTheRun
<1>3. ASSUME phase = "run", Abandon PROVE TradesInv'
  <2>1. /\ UNCHANGED <<cash, positions, events>> /\ bars' \in Seq(BarShapes)
        /\ intents' \in Seq(Orders) /\ phase' # "run"
    BY <1>0, <1>3 DEF Abandon, TradesTypes
  <2> QED
    BY <2>1, BesidesTheRun
<1>4. ASSUME UNCHANGED backtestVars PROVE TradesInv'
  <2>1. /\ UNCHANGED <<cash, positions, events>> /\ bars' \in Seq(BarShapes)
        /\ intents' \in Seq(Orders) /\ (phase' = "run" => intents' # <<>>)
    BY <1>0, <1>4 DEF backtestVars, TradesTypes
  <2> QED
    BY <2>1, BesidesTheRun
<1>5. CASE BacktestNext
  BY <1>1, <1>2, <1>3, <1>5, RejectInv, BuyInv, SellInv DEF BacktestNext
<1>6. CASE UNCHANGED backtestVars
  BY <1>4, <1>6
<1> QED
  BY <1>5, <1>6 DEF LabelNext, Study, labelVars

\* What a run of orders leaves could have happened, whatever the rules, costs and orders:
\* every purchase is paid for in the order of the sessions, every sale backed by the purchase
\* of its position, and the cash accounted for (ExecutionBacktester.run()).
THEOREM LedgerIsPossibleHolds == LabelSpec => []LedgerIsPossible
<1>1. LabelInit => TradesInv
  BY TradesInit DEF LabelInit
<1>2. TradesInv /\ [LabelNext]_labelVars => TradesInv'
  BY TradesNext
<1>3. TradesInv => LedgerIsPossible
  BY DEF TradesInv
<1> QED
  BY <1>1, <1>2, <1>3, PTL DEF LabelSpec
=============================================================================
