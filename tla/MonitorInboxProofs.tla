-------------------------- MODULE MonitorInboxProofs --------------------------
(* Proofs about MonitorInbox, for any number of processes, observers, rules  *)
(* and events.                                                               *)
EXTENDS MonitorInbox, FiniteSetTheorems, FunctionTheorems, SequenceTheorems, TLAPS

Rules == [version : Nat, enabled : BOOLEAN, expires : Expiries, channels : (SUBSET Channels) \ {{}}]
Triggers == [at : Nat, rule : Rules]
Events == [version : Nat, state : InboxStates, first : Nat, last : Nat, count : Nat, until : Nat \cup {None}]
Notices == [inbox : Nat, channel : Channels, state : {"PENDING"}, attempts : {0}, next : Nat, created : Nat]
Reasons == {"user", "snooze elapsed", "monitor rule expired"}
Entries == [inbox : Nat, from : InboxStates, to : InboxStates, why : Reasons]
Works == [from : UNION {[rows -> InboxStates] : rows \in SUBSET Nat}, to : InboxStates,
          until : Nat \cup {None}, why : Reasons]

InboxTypeOK ==
  /\ processOf \in [Observers -> Processes]
  /\ outbox \in Seq(Notices)
  /\ rule \in Rules \cup {None}
  /\ inbox \in Seq(Events)
  /\ log \in Seq(Entries)
  /\ task \in [Observers -> Triggers \cup {None}]
  /\ pending \in [Processes -> Works \cup {None}]
  /\ clock \in Nat

\* Work and log are about events that are there.
RefersOK ==
  /\ \A p \in Processes : pending[p] # None => DOMAIN pending[p].from \subseteq DOMAIN inbox
  /\ \A k \in DOMAIN log : log[k].inbox \in DOMAIN inbox

InboxInv == InboxTypeOK /\ RefersOK

-----------------------------------------------------------------------------
(* Sequences and enumerations.                                              *)

\* An enumeration of a finite set meets every element once.
LEMMA Enumeration ==
  ASSUME NEW S, IsFiniteSet(S), NEW s \in [1..Cardinality(S) -> S]
  PROVE  /\ Cardinality(S) \in Nat
         /\ IsInjective(s) <=> \A x \in S : \E k \in 1..Cardinality(S) : s[k] = x
<1> DEFINE n == Cardinality(S)
<1>1. n \in Nat /\ IsFiniteSet(1..n) /\ Cardinality(1..n) = n
  BY FS_CardinalityType, FS_Interval
<1>2. IsInjective(s) => s \in Surjection(1..n, S)
  BY <1>1, FS_Injection DEF Injection
<1>3. s \in Surjection(1..n, S) => IsInjective(s)
  BY <1>1, FS_Surjection DEF Injection
<1> QED
  BY <1>1, <1>2, <1>3 DEF Surjection

LEMMA SetToSeqEnumerates ==
  ASSUME NEW S, IsFiniteSet(S)
  PROVE  SetToSeq(S) \in [1..Cardinality(S) -> S] /\ IsInjective(SetToSeq(S))
<1>1. PICK f \in Bijection(1..Cardinality(S), S) : TRUE
  BY FS_CardinalityType DEF ExistsBijection
<1>2. f \in [1..Cardinality(S) -> S] /\ IsInjective(f)
  BY <1>1 DEF Bijection, Injection
<1> QED
  BY <1>2 DEF SetToSeq

\* Where the items of two sequences are in their concatenation.
Extends(c, a, b) ==
  /\ Len(a) \in Nat /\ Len(c) >= Len(a)
  /\ \A k \in 1..Len(a) : c[k] = a[k]
  /\ \A k \in 1..Len(c) : k > Len(a) => k - Len(a) \in 1..Len(b) /\ c[k] = b[k - Len(a)]
  /\ \A m \in 1..Len(b) : m + Len(a) \in 1..Len(c) /\ m + Len(a) > Len(a) /\ c[m + Len(a)] = b[m]

LEMMA Extension ==
  ASSUME NEW T, NEW a \in Seq(T), NEW b \in Seq(T), NEW c, c = a \o b
  PROVE  c \in Seq(T) /\ Extends(c, a, b)
<1>1. Len(a) \in Nat /\ Len(b) \in Nat
  BY LenProperties
<1>2. c \in Seq(T) /\ Len(c) = Len(a) + Len(b)
  BY ConcatProperties
<1>3. \A k \in 1..(Len(a) + Len(b)) : c[k] = IF k <= Len(a) THEN a[k] ELSE b[k - Len(a)]
  BY ConcatProperties
<1>4. \A k \in 1..Len(a) : c[k] = a[k]
  BY <1>1, <1>3
<1>5. ASSUME NEW k \in 1..Len(c), k > Len(a) PROVE k - Len(a) \in 1..Len(b) /\ c[k] = b[k - Len(a)]
  BY <1>1, <1>2, <1>3, <1>5
<1>6. ASSUME NEW m \in 1..Len(b) PROVE m + Len(a) \in 1..Len(c) /\ m + Len(a) > Len(a) /\ c[m + Len(a)] = b[m]
  <2>1. m + Len(a) \in 1..(Len(a) + Len(b)) /\ m + Len(a) > Len(a) /\ (m + Len(a)) - Len(a) = m
    BY <1>1
  <2> QED
    BY <1>1, <1>2, <1>3, <2>1
<1> QED
  BY <1>1, <1>2, <1>4, <1>5, <1>6 DEF Extends

\* What a trigger at time at, of event i, makes of the outbox: one row more for each
\* channel, and the rows there are stay.
Noticed(old, new, i, at) ==
  /\ new \in Seq(Notices) /\ Len(new) > Len(old)
  /\ \A k \in 1..Len(old) : new[k] = old[k]
  /\ \A k \in 1..Len(new) : k > Len(old) => new[k].inbox = i /\ new[k].created = at
  /\ \A j, k \in 1..Len(new) : j > Len(old) /\ k > Len(old) /\ new[j].channel = new[k].channel => j = k

LEMMA WithRowsAppends ==
  ASSUME outbox \in Seq(Notices), NEW channels \in (SUBSET Channels) \ {{}}, NEW i \in Nat, NEW at \in Nat,
         NEW w, w = WithRows(i, channels, at)
  PROVE  Noticed(outbox, w, i, at)
<1> DEFINE n == Cardinality(channels)
           Lists(s) == \A c \in channels : \E k \in DOMAIN s : s[k] = c
           new == CHOOSE s \in [1..n -> channels] : Lists(s)
           added == [k \in 1..n |-> Row(i, new[k], at)]
<1>1. IsFiniteSet(channels)
  <2>1. IsFiniteSet({"BROWSER"} \cup {"WEBHOOK"})
    BY FS_Singleton, FS_AddElement, ZenonT(60)
  <2>2. channels \in SUBSET ({"BROWSER"} \cup {"WEBHOOK"})
    BY OutboxAssumption
  <2> QED
    BY <2>1, <2>2, FS_Subset
<1>2. n \in Nat /\ n > 0
  BY <1>1, FS_CardinalityType, FS_EmptySet
<1>3. new \in [1..n -> channels] /\ IsInjective(new)
  <2>1. SetToSeq(channels) \in [1..n -> channels] /\ IsInjective(SetToSeq(channels))
    BY <1>1, SetToSeqEnumerates
  <2>2. Lists(SetToSeq(channels))
    BY <1>1, <2>1, Enumeration, SMTT(60)
  <2>3. new \in [1..n -> channels] /\ Lists(new)
    BY <2>1, <2>2
  <2> HIDE DEF new
  <2> QED
    BY <1>1, <2>3, Enumeration
<1> HIDE DEF new
<1>4. \A k \in 1..n : /\ added[k] \in Notices
                      /\ added[k].inbox = i /\ added[k].created = at /\ added[k].channel = new[k]
  BY <1>3 DEF Row, Notices
<1>5. added \in Seq(Notices) /\ Len(added) = n
  <2>1. added \in [1..n -> Notices]
    BY <1>4
  <2> QED
    BY <1>2, <2>1
<1> HIDE DEF added
<1>6. w = outbox \o added
  BY DEF WithRows, added, new
<1>7. w \in Seq(Notices) /\ Extends(w, outbox, added)
  BY <1>5, <1>6, Extension
<1>8. /\ Len(outbox) \in Nat /\ Len(w) >= Len(outbox)
      /\ \A k \in 1..Len(outbox) : w[k] = outbox[k]
      /\ \A k \in 1..Len(w) : k > Len(outbox) => k - Len(outbox) \in 1..n /\ w[k] = added[k - Len(outbox)]
      /\ \A m \in 1..n : m + Len(outbox) \in 1..Len(w) /\ m + Len(outbox) > Len(outbox)
  BY <1>5, <1>7 DEF Extends
<1>9. Len(w) > Len(outbox)
  BY <1>2, <1>8
<1>10. \A k \in 1..Len(w) : k > Len(outbox) => w[k].inbox = i /\ w[k].created = at
  BY <1>4, <1>8
<1>11. ASSUME NEW j \in 1..Len(w), NEW k \in 1..Len(w), j > Len(outbox), k > Len(outbox), w[j].channel = w[k].channel
       PROVE  j = k
  <2>1. j - Len(outbox) \in 1..n /\ k - Len(outbox) \in 1..n /\ new[j - Len(outbox)] = new[k - Len(outbox)]
    BY <1>4, <1>8, <1>11
  <2>2. j - Len(outbox) = k - Len(outbox)
    BY <1>3, <2>1 DEF IsInjective
  <2> QED
    BY <1>8, <2>2
<1> QED
  BY <1>7, <1>8, <1>9, <1>10, <1>11 DEF Noticed

-----------------------------------------------------------------------------
(* What the steps do to the tables.                                         *)

LEMMA InboxType ==
  ASSUME InboxTypeOK
  PROVE  /\ inbox \in Seq(Events) /\ DOMAIN inbox = 1..Len(inbox) /\ Len(inbox) \in Nat
         /\ \A i \in DOMAIN inbox : inbox[i] \in Events
         /\ log \in Seq(Entries) /\ DOMAIN log = 1..Len(log) /\ Len(log) \in Nat
         /\ \A k \in DOMAIN log : log[k] \in Entries
         /\ outbox \in Seq(Notices) /\ DOMAIN outbox = 1..Len(outbox) /\ Len(outbox) \in Nat
         /\ \A k \in DOMAIN outbox : outbox[k] \in Notices
<1>1. inbox \in Seq(Events) /\ log \in Seq(Entries) /\ outbox \in Seq(Notices)
  BY DEF InboxTypeOK
<1>2. /\ DOMAIN inbox = 1..Len(inbox) /\ Len(inbox) \in Nat
      /\ DOMAIN log = 1..Len(log) /\ Len(log) \in Nat
      /\ DOMAIN outbox = 1..Len(outbox) /\ Len(outbox) \in Nat
  BY <1>1, LenProperties
<1>3. \A i \in 1..Len(inbox) : inbox[i] \in Events
  BY <1>1, ElementOfSeq
<1>4. \A i \in 1..Len(log) : log[i] \in Entries
  BY <1>1, ElementOfSeq
<1>5. \A i \in 1..Len(outbox) : outbox[i] \in Notices
  BY <1>1, ElementOfSeq
<1> QED
  BY <1>1, <1>2, <1>3, <1>4, <1>5

LEMMA NoticedByRows ==
  ASSUME InboxTypeOK, NEW t \in Triggers, NEW i \in Nat, outbox' = WithRows(i, t.rule.channels, t.at)
  PROVE  Noticed(outbox, outbox', i, t.at)
<1>1. outbox \in Seq(Notices)
  BY DEF InboxTypeOK
<1>2. PICK channels \in (SUBSET Channels) \ {{}}, at \in Nat : channels = t.rule.channels /\ at = t.at
  BY DEF Triggers, Rules
<1>3. PICK w : w = outbox'
  OBVIOUS
<1>4. w = WithRows(i, channels, at)
  BY <1>2, <1>3
<1>5. Noticed(outbox, w, i, at)
  BY <1>1, <1>4, WithRowsAppends
<1> QED
  BY <1>2, <1>3, <1>5

\* A first trigger adds an event.
Inserted(at) ==
  /\ inbox' \in Seq(Events) /\ Len(inbox') = Len(inbox) + 1
  /\ \A i \in 1..Len(inbox) : inbox'[i] = inbox[i]
  /\ inbox'[Len(inbox) + 1].state = "NEW"
  /\ inbox'[Len(inbox) + 1].last = at
  /\ inbox'[Len(inbox) + 1].count = 1

LEMMA InsertEffect ==
  ASSUME InboxTypeOK, NEW t \in Triggers, Insert(t)
  PROVE  Inserted(t.at) /\ Noticed(outbox, outbox', Len(inbox) + 1, t.at)
<1> DEFINE e == [version |-> t.rule.version, state |-> "NEW", first |-> t.at, last |-> t.at, count |-> 1, until |-> None]
<1>1. inbox \in Seq(Events) /\ Len(inbox) \in Nat
  BY InboxType
<1>2. e \in Events /\ e.state = "NEW" /\ e.last = t.at /\ e.count = 1
  BY DEF Events, InboxStates, Triggers, Rules
<1>3. inbox' = Append(inbox, e)
  BY DEF Insert
<1> HIDE DEF e
<1>4. /\ inbox' \in Seq(Events) /\ Len(inbox') = Len(inbox) + 1
      /\ \A i \in 1..Len(inbox) : inbox'[i] = inbox[i]
      /\ inbox'[Len(inbox) + 1] = e
  BY <1>1, <1>2, <1>3, AppendProperties
<1>5. outbox' = WithRows(Len(inbox) + 1, t.rule.channels, t.at)
  BY <1>4 DEF Insert
<1>6. Len(inbox) + 1 \in Nat
  BY <1>1
<1>7. Noticed(outbox, outbox', Len(inbox) + 1, t.at)
  BY <1>5, <1>6, NoticedByRows
<1> QED
  BY <1>2, <1>4, <1>7 DEF Inserted

\* A later one is counted at its event, which it may wake.
Counted(i, at) ==
  /\ inbox' \in Seq(Events) /\ Len(inbox') = Len(inbox)
  /\ \A j \in 1..Len(inbox) : j # i => inbox'[j] = inbox[j]
  /\ inbox'[i].last = at
  /\ inbox'[i].count = inbox[i].count + 1
  /\ inbox'[i].state = inbox[i].state \/ (inbox[i].state = "SNOOZED" /\ inbox'[i].state = "NEW")

LEMMA MergeEffect ==
  ASSUME InboxTypeOK, NEW t \in Triggers, NEW i \in DOMAIN inbox, Merge(t, i)
  PROVE  Counted(i, t.at) /\ Noticed(outbox, outbox', i, t.at)
<1>1. /\ inbox \in Seq(Events) /\ DOMAIN inbox = 1..Len(inbox) /\ inbox[i] \in Events /\ t.at \in Nat /\ i \in Nat
  BY InboxType DEF Triggers
<1>2. PICK row \in Events, at \in Nat : row = inbox[i] /\ at = t.at
  BY <1>1
<1>3. PICK count \in Nat, state \in InboxStates, until \in Nat \cup {None} :
        /\ count = row.count + 1
        /\ state = IF Wakes(row, at) THEN "NEW" ELSE row.state
        /\ until = IF Wakes(row, at) THEN None ELSE row.until
  <2>1. /\ row.count + 1 \in Nat
        /\ (IF Wakes(row, at) THEN "NEW" ELSE row.state) \in InboxStates
        /\ (IF Wakes(row, at) THEN None ELSE row.until) \in Nat \cup {None}
    BY DEF Events, InboxStates
  <2> QED
    BY <2>1
<1> DEFINE r == [[[[row EXCEPT !.last = at] EXCEPT !.count = count] EXCEPT !.state = state] EXCEPT !.until = until]
<1>4. inbox' = [inbox EXCEPT ![i] = r]
  BY <1>2, <1>3 DEF Merge, Merged
<1>5. /\ r \in Events /\ r.last = at /\ r.count = row.count + 1
      /\ r.state = row.state \/ (row.state = "SNOOZED" /\ r.state = "NEW")
  <2>1. state = row.state \/ (row.state = "SNOOZED" /\ state = "NEW")
    BY <1>3 DEF Wakes
  <2>2. r \in Events /\ r.last = at /\ r.count = count /\ r.state = state
    BY DEF Events
  <2> QED
    BY <1>3, <2>1, <2>2
<1> HIDE DEF r
<1>6. /\ inbox' \in Seq(Events) /\ Len(inbox') = Len(inbox)
      /\ \A j \in 1..Len(inbox) : inbox'[j] = IF j = i THEN r ELSE inbox[j]
  BY <1>1, <1>4, <1>5, ExceptSeq
<1>7. Noticed(outbox, outbox', i, t.at)
  BY <1>1, NoticedByRows DEF Merge
<1> QED
  BY <1>1, <1>2, <1>5, <1>6, <1>7 DEF Counted

\* What one trigger does.
LEMMA TriggerEffect ==
  ASSUME InboxTypeOK, NEW o \in Observers, RecordTrigger(o)
  PROVE  /\ task[o] \in Triggers
         /\ \/ UNCHANGED <<inbox, outbox>>
            \/ Inserted(task[o].at) /\ Noticed(outbox, outbox', Len(inbox) + 1, task[o].at)
            \/ \E i \in DOMAIN inbox :
                 /\ inbox[i].state \notin Terminal
                 /\ ~Suppressed(inbox[i], task[o].at)
                 /\ Counted(i, task[o].at) /\ Noticed(outbox, outbox', i, task[o].at)
<1>1. task[o] \in Triggers
  BY DEF RecordTrigger, InboxTypeOK
<1> PICK t \in Triggers : t = task[o]
  BY <1>1
<1>2. Latest(t.rule.version) \subseteq DOMAIN inbox
  BY DEF Latest, SameKey
<1>3. \/ UNCHANGED <<inbox, outbox>>
      \/ Insert(t)
      \/ \E i \in Latest(t.rule.version) :
           inbox[i].state \notin Terminal /\ ~Suppressed(inbox[i], t.at) /\ Merge(t, i)
  BY DEF RecordTrigger
<1>4. CASE UNCHANGED <<inbox, outbox>>
  BY <1>1, <1>4
<1>5. CASE Insert(t)
  BY <1>1, <1>5, InsertEffect
<1>6. ASSUME NEW i \in Latest(t.rule.version), inbox[i].state \notin Terminal, ~Suppressed(inbox[i], t.at), Merge(t, i)
      PROVE  \E j \in DOMAIN inbox :
               /\ inbox[j].state \notin Terminal
               /\ ~Suppressed(inbox[j], t.at)
               /\ Counted(j, t.at) /\ Noticed(outbox, outbox', j, t.at)
  BY <1>2, <1>6, MergeEffect
<1> QED
  BY <1>1, <1>3, <1>4, <1>5, <1>6

\* The entries a finished work adds to the log: one for each of its events.
Recorded(old, new, work) ==
  /\ new \in Seq(Entries) /\ Len(new) >= Len(old)
  /\ \A k \in 1..Len(old) : new[k] = old[k]
  /\ \A k \in 1..Len(new) : k > Len(old) => \E i \in DOMAIN work.from : new[k] = Entry(work, i)
  /\ \A j, k \in 1..Len(new) : j > Len(old) /\ k > Len(old) /\ new[j].inbox = new[k].inbox => j = k
  /\ \A i \in DOMAIN work.from : \E k \in 1..Len(new) : k > Len(old) /\ new[k].inbox = i

LEMMA EntriesRecord ==
  ASSUME NEW old \in Seq(Entries), NEW work \in Works, IsFiniteSet(DOMAIN work.from),
         NEW new, new = old \o [k \in 1..Cardinality(DOMAIN work.from) |-> Entry(work, SetToSeq(DOMAIN work.from)[k])]
  PROVE  Recorded(old, new, work)
<1>1. PICK rows \in SUBSET Nat : work.from \in [rows -> InboxStates]
  BY DEF Works
<1>2. /\ DOMAIN work.from = rows /\ \A i \in rows : work.from[i] \in InboxStates /\ i \in Nat
      /\ work.to \in InboxStates /\ work.why \in Reasons
  BY <1>1 DEF Works
<1> DEFINE n == Cardinality(rows)
           s == SetToSeq(rows)
           added == [k \in 1..n |-> Entry(work, s[k])]
<1>3. n \in Nat
  BY <1>2, FS_CardinalityType
<1>4. s \in [1..n -> rows] /\ IsInjective(s)
  BY <1>2, SetToSeqEnumerates
<1>5. \A i \in rows : \E k \in 1..n : s[k] = i
  BY <1>2, <1>4, Enumeration
<1> HIDE DEF s
<1>6. \A i \in rows : Entry(work, i) \in Entries /\ Entry(work, i).inbox = i
  BY <1>2 DEF Entry, Entries
<1>7. \A k \in 1..n : added[k] = Entry(work, s[k]) /\ added[k] \in Entries /\ added[k].inbox = s[k]
  BY <1>4, <1>6
<1>8. added \in Seq(Entries) /\ Len(added) = n
  <2>1. added \in [1..n -> Entries]
    BY <1>7
  <2> QED
    BY <1>3, <2>1
<1>9. new = old \o added
  BY <1>2 DEF s
<1> HIDE DEF added
<1>10. new \in Seq(Entries) /\ Extends(new, old, added)
  BY <1>8, <1>9, Extension
<1>11. /\ Len(old) \in Nat /\ Len(new) >= Len(old)
       /\ \A k \in 1..Len(old) : new[k] = old[k]
       /\ \A k \in 1..Len(new) : k > Len(old) => k - Len(old) \in 1..n /\ new[k] = added[k - Len(old)]
       /\ \A m \in 1..n : m + Len(old) \in 1..Len(new) /\ m + Len(old) > Len(old) /\ new[m + Len(old)] = added[m]
  BY <1>8, <1>10 DEF Extends
<1>12. ASSUME NEW k \in 1..Len(new), k > Len(old) PROVE \E i \in rows : new[k] = Entry(work, i)
  <2>1. k - Len(old) \in 1..n /\ new[k] = added[k - Len(old)]
    BY <1>12, <1>11
  <2> QED
    BY <1>4, <1>7, <2>1
<1>13. ASSUME NEW j \in 1..Len(new), NEW k \in 1..Len(new), j > Len(old), k > Len(old), new[j].inbox = new[k].inbox
       PROVE  j = k
  <2>1. j - Len(old) \in 1..n /\ k - Len(old) \in 1..n /\ s[j - Len(old)] = s[k - Len(old)]
    <3>1. /\ j - Len(old) \in 1..n /\ new[j] = added[j - Len(old)]
          /\ k - Len(old) \in 1..n /\ new[k] = added[k - Len(old)]
      BY <1>11, <1>13
    <3>2. added[j - Len(old)].inbox = s[j - Len(old)] /\ added[k - Len(old)].inbox = s[k - Len(old)]
      BY ONLY <1>7, <3>1
    <3> QED
      BY ONLY <1>13, <3>1, <3>2
  <2>2. j - Len(old) = k - Len(old)
    BY <1>4, <2>1 DEF IsInjective
  <2> QED
    BY <1>11, <2>2
<1>14. ASSUME NEW i \in rows PROVE \E k \in 1..Len(new) : k > Len(old) /\ new[k].inbox = i
  <2>1. PICK m \in 1..n : s[m] = i
    BY <1>5
  <2> QED
    BY <1>7, <1>11, <2>1, ZenonT(60)
<1> QED
  BY <1>2, <1>10, <1>11, <1>12, <1>13, <1>14 DEF Recorded

\* The end of a work: its events are in the state it set.
LEMMA UpdateEffect ==
  ASSUME InboxInv, NEW p \in Processes, Update(p)
  PROVE  /\ pending[p] \in Works /\ DOMAIN pending[p].from \subseteq DOMAIN inbox
         /\ inbox' \in Seq(Events) /\ Len(inbox') = Len(inbox)
         /\ \A i \in DOMAIN inbox :
              /\ inbox'[i].last = inbox[i].last /\ inbox'[i].count = inbox[i].count
              /\ i \in DOMAIN pending[p].from => inbox'[i].state = pending[p].to
              /\ i \notin DOMAIN pending[p].from => inbox'[i] = inbox[i]
         /\ Recorded(log, log', pending[p])
<1>1. /\ inbox \in Seq(Events) /\ DOMAIN inbox = 1..Len(inbox) /\ Len(inbox) \in Nat
      /\ \A i \in DOMAIN inbox : inbox[i] \in Events
      /\ log \in Seq(Entries)
  BY InboxType DEF InboxInv
<1>2. pending[p] \in Works /\ DOMAIN pending[p].from \subseteq DOMAIN inbox
  BY DEF Update, InboxInv, InboxTypeOK, RefersOK
<1>3. PICK work \in Works : work = pending[p]
  BY <1>2
<1>4. work.to \in InboxStates /\ work.until \in Nat \cup {None}
  BY DEF Works
<1>5. ASSUME NEW i \in DOMAIN inbox
      PROVE  /\ inbox'[i] \in Events
             /\ inbox'[i].last = inbox[i].last /\ inbox'[i].count = inbox[i].count
             /\ i \in DOMAIN work.from => inbox'[i].state = work.to
             /\ i \notin DOMAIN work.from => inbox'[i] = inbox[i]
  <2>1. CASE i \notin DOMAIN work.from
    <3>1. inbox'[i] = inbox[i]
      BY <1>3, <2>1 DEF Update
    <3> QED
      BY <1>1, <2>1, <3>1
  <2>2. CASE i \in DOMAIN work.from
    <3>1. PICK row \in Events, to \in InboxStates, until \in Nat \cup {None} :
            row = inbox[i] /\ to = work.to /\ until = work.until
      BY <1>1, <1>4
    <3> DEFINE r == [[row EXCEPT !.state = to] EXCEPT !.until = until]
    <3>2. inbox'[i] = r
      BY <1>3, <2>2, <3>1 DEF Update, Written
    <3>3. r \in Events /\ r.last = row.last /\ r.count = row.count /\ r.state = to
      BY DEF Events
    <3> HIDE DEF r
    <3> QED
      BY <2>2, <3>1, <3>2, <3>3
  <2> QED
    BY <2>1, <2>2
<1>6. inbox' \in Seq(Events) /\ Len(inbox') = Len(inbox)
  <2>1. DOMAIN inbox' = DOMAIN inbox /\ inbox' = [i \in DOMAIN inbox |-> inbox'[i]]
    BY DEF Update
  <2>2. inbox' \in [1..Len(inbox) -> Events]
    BY <1>1, <1>5, <2>1
  <2> QED
    BY <1>1, <2>2
<1>7. IsFiniteSet(DOMAIN work.from)
  <2>1. Len(inbox) \in Int /\ 1 \in Int /\ DOMAIN work.from \in SUBSET (1..Len(inbox))
    BY <1>1, <1>2, <1>3
  <2>2. IsFiniteSet(1..Len(inbox))
    BY <2>1, FS_Interval
  <2> QED
    BY <2>1, <2>2, FS_Subset
<1>8. Recorded(log, log', work)
  <2>1. PICK new : new = log'
    OBVIOUS
  <2>2. new = log \o [k \in 1..Cardinality(DOMAIN work.from) |-> Entry(work, SetToSeq(DOMAIN work.from)[k])]
    BY <1>3, <2>1 DEF Update
  <2>3. Recorded(log, new, work)
    BY <1>1, <1>7, <2>2, EntriesRecord
  <2> QED
    BY <2>1, <2>3
<1> QED
  BY <1>2, <1>3, <1>5, <1>6, <1>8

\* A work begins with the events it has selected, in the states they are in.
LEMMA SelectEffect ==
  ASSUME InboxTypeOK, NEW p \in Processes, NEW rows \in SUBSET DOMAIN inbox, NEW to \in InboxStates,
         NEW until \in Nat \cup {None}, NEW why \in Reasons, Select(p, rows, to, until, why)
  PROVE  /\ pending' \in [Processes -> Works \cup {None}]
         /\ pending[p] = None
         /\ \A q \in Processes : q # p => pending'[q] = pending[q]
         /\ pending'[p].from = Selected(rows) /\ DOMAIN Selected(rows) = rows
         /\ \A i \in rows : Selected(rows)[i] = inbox[i].state
         /\ pending'[p].to = to /\ pending'[p].why = why
<1>1. \A i \in rows : inbox[i].state \in InboxStates /\ i \in Nat
  BY InboxType, SMTT(60) DEF Events
<1>2. /\ Selected(rows) \in [rows -> InboxStates] /\ rows \in SUBSET Nat
      /\ \A i \in rows : Selected(rows)[i] = inbox[i].state
  BY <1>1 DEF Selected
<1> DEFINE w == [from |-> Selected(rows), to |-> to, until |-> until, why |-> why]
<1>3. w \in Works /\ w.from = Selected(rows) /\ w.to = to /\ w.why = why
  BY <1>2 DEF Works
<1>4. pending' = [pending EXCEPT ![p] = w] /\ pending \in [Processes -> Works \cup {None}]
  BY DEF Select, InboxTypeOK
<1> HIDE DEF w
<1> QED
  BY <1>2, <1>3, <1>4 DEF Select, LockFree

-----------------------------------------------------------------------------
(* Types, and what work and log refer to.                                   *)

LEMMA InboxInit == Init => InboxInv
<1> SUFFICES ASSUME Init PROVE InboxInv
  OBVIOUS
<1>1. inbox = <<>> /\ log = <<>> /\ outbox = <<>> /\ DOMAIN log = {}
  BY LenProperties DEF Init
<1>2. inbox \in Seq(Events) /\ log \in Seq(Entries) /\ outbox \in Seq(Notices)
  BY <1>1
<1>3. processOf \in [Observers -> Processes]
  BY InboxAssumption DEF Init
<1>4. InboxTypeOK
  BY <1>2, <1>3 DEF Init, InboxTypeOK
<1> QED
  BY <1>1, <1>4 DEF Init, InboxInv, RefersOK

\* A step that leaves the tables of events and transitions alone, or adds an event.
LEMMA RefersKept ==
  ASSUME InboxInv, InboxTypeOK', log' = log, DOMAIN inbox \subseteq DOMAIN inbox',
         \A p \in Processes : pending'[p] = pending[p] \/ DOMAIN pending'[p].from \subseteq DOMAIN inbox
  PROVE  InboxInv'
  BY DEF InboxInv, RefersOK

\* The methods that select: only events that are still open, and a user's transition
\* only where it is allowed.
Selects(p) ==
  \E rows \in SUBSET DOMAIN inbox, to \in InboxStates, until \in Nat \cup {None}, why \in Reasons :
    /\ Select(p, rows, to, until, why)
    /\ \A i \in rows : /\ inbox[i].state \notin Terminal
                       /\ why = "user" => Allowed(inbox[i].state, to)

LEMMA SelectInv ==
  ASSUME InboxInv, NEW p \in Processes, Selects(p), task' \in [Observers -> Triggers \cup {None}], UNCHANGED processOf
  PROVE  InboxInv'
<1>1. PICK rows \in SUBSET DOMAIN inbox, to \in InboxStates, until \in Nat \cup {None}, why \in Reasons :
        Select(p, rows, to, until, why)
  BY DEF Selects
<1>2. InboxTypeOK
  BY DEF InboxInv
<1>3. /\ pending' \in [Processes -> Works \cup {None}]
      /\ \A q \in Processes : q # p => pending'[q] = pending[q]
      /\ pending'[p].from = Selected(rows) /\ DOMAIN Selected(rows) = rows
  BY <1>1, <1>2, SelectEffect
<1>4. UNCHANGED <<outbox, rule, inbox, log, clock>>
  BY <1>1 DEF Select
<1>5. InboxTypeOK'
  BY <1>2, <1>3, <1>4 DEF InboxTypeOK
<1> QED
  BY <1>3, <1>4, <1>5, RefersKept

\* Which steps select, and for whom.
LEMMA SelectSteps ==
  ASSUME InboxTypeOK
  PROVE  /\ \A i \in DOMAIN inbox, target \in InboxStates, until \in {None} \cup clock + 1..clock + 2 :
              Transition(i, target, until) => Selects(Server) /\ UNCHANGED task
         /\ \A o \in Pollers : ExpireDue(o) => Selects(processOf[o]) /\ UNCHANGED task
         /\ \A o \in Observers : ExpireRule(o) =>
              /\ Selects(processOf[o]) \/ UNCHANGED <<outbox, rule, inbox, log, pending, clock>>
              /\ task' = [task EXCEPT ![o] = None]
<1>1. ASSUME NEW i \in DOMAIN inbox, NEW target \in InboxStates, NEW until \in {None} \cup clock + 1..clock + 2,
             Transition(i, target, until)
      PROVE  Selects(Server) /\ UNCHANGED task
  <2>1. {i} \in SUBSET DOMAIN inbox /\ until \in Nat \cup {None} /\ "user" \in Reasons
    BY DEF InboxTypeOK, Reasons
  <2>2. inbox[i].state \notin Terminal /\ Allowed(inbox[i].state, target)
    BY <1>1 DEF Transition, Allowed
  <2> QED
    BY <1>1, <2>1, <2>2 DEF Transition, Selects
<1>2. ASSUME NEW o \in Pollers, ExpireDue(o)
      PROVE  Selects(processOf[o]) /\ UNCHANGED task
  <2>1. DueSnoozes \in SUBSET DOMAIN inbox /\ "NEW" \in InboxStates /\ "snooze elapsed" \in Reasons
    BY DEF DueSnoozes, InboxStates, Reasons
  <2>2. \A i \in DueSnoozes : inbox[i].state \notin Terminal
    BY DEF DueSnoozes, Wakes, Terminal
  <2> QED
    BY <1>2, <2>1, <2>2 DEF ExpireDue, Selects
<1>3. ASSUME NEW o \in Observers, ExpireRule(o)
      PROVE  /\ Selects(processOf[o]) \/ UNCHANGED <<outbox, rule, inbox, log, pending, clock>>
             /\ task' = [task EXCEPT ![o] = None]
  <2>1. Active \in SUBSET DOMAIN inbox /\ "EXPIRED" \in InboxStates /\ "monitor rule expired" \in Reasons
    BY DEF Active, InboxStates, Terminal, Reasons
  <2>2. \A i \in Active : inbox[i].state \notin Terminal
    BY DEF Active
  <2> QED
    BY <1>3, <2>1, <2>2 DEF ExpireRule, Selects
<1> QED
  BY <1>1, <1>2, <1>3

\* Every step is a trigger, a selection or its update, or leaves events, notifications
\* and transitions alone.
LEMMA StepKinds ==
  ASSUME InboxTypeOK, [Next]_vars
  PROVE  /\ UNCHANGED processOf
         /\ \/ UNCHANGED <<outbox, inbox, log, pending>>
            \/ \E p \in {Server} \cup {processOf[o] : o \in Observers} : Selects(p)
            \/ \E o \in Observers : RecordTrigger(o)
            \/ \E p \in Processes : Update(p)
<1>1. CASE UNCHANGED vars
  BY <1>1 DEF vars
<1>2. CASE Next
  <2>1. UNCHANGED processOf
    BY <1>2 DEF Next
  <2>2. CASE \E enabled \in BOOLEAN, expires \in Expiries, channels \in (SUBSET Channels) \ {{}} :
               UpsertRule(enabled, expires, channels)
    BY <2>1, <2>2 DEF UpsertRule
  <2>3. CASE DeleteRule \/ Tick \/ \E o \in Observers : Observe(o)
    BY <2>1, <2>3 DEF DeleteRule, Tick, Observe
  <2>4. CASE \E o \in Observers : RecordTrigger(o)
    BY <2>1, <2>4
  <2>5. CASE \E o \in Observers : ExpireRule(o)
    BY <2>1, <2>5, SelectSteps
  <2>6. CASE \E o \in Pollers : ExpireDue(o)
    BY <2>1, <2>6, SelectSteps, InboxAssumption
  <2>7. CASE \E i \in DOMAIN inbox, target \in InboxStates, until \in {None} \cup clock + 1..clock + 2 :
               Transition(i, target, until)
    BY <2>1, <2>7, SelectSteps
  <2>8. CASE \E p \in Processes : Update(p)
    BY <2>1, <2>8
  <2> QED
    BY <1>2, <2>2, <2>3, <2>4, <2>5, <2>6, <2>7, <2>8 DEF Next, Step
<1> QED
  BY <1>1, <1>2

\* The tables of rules and observers, and the clock.
LEMMA RuleAndTaskType ==
  ASSUME InboxTypeOK, [Next]_vars
  PROVE  rule' \in Rules \cup {None} /\ task' \in [Observers -> Triggers \cup {None}] /\ clock' \in Nat
<1>1. rule \in Rules \cup {None} /\ task \in [Observers -> Triggers \cup {None}] /\ clock \in Nat
  BY DEF InboxTypeOK
<1>2. CASE UNCHANGED <<rule, task, clock>>
  BY <1>1, <1>2
<1>3. ASSUME NEW enabled \in BOOLEAN, NEW expires \in Expiries, NEW channels \in (SUBSET Channels) \ {{}},
             UpsertRule(enabled, expires, channels)
      PROVE  rule' \in Rules /\ UNCHANGED <<task, clock>>
  <2>1. NextVersion \in Nat
    BY <1>1 DEF NextVersion, Rules
  <2> QED
    BY <1>3, <2>1 DEF UpsertRule, Rules
<1>4. CASE DeleteRule \/ Tick
  BY <1>1, <1>4 DEF DeleteRule, Tick
<1>5. ASSUME NEW o \in Observers, Observe(o)
      PROVE  task' \in [Observers -> Triggers \cup {None}] /\ UNCHANGED <<rule, clock>>
  <2>1. (IF o \in Pollers THEN 0..clock ELSE {clock}) \subseteq 0..clock
    BY <1>1
  <2>2. PICK at \in 0..clock : task' = [task EXCEPT ![o] = [at |-> at, rule |-> rule]]
    BY <1>5, <2>1, Zenon DEF Observe
  <2>3. [at |-> at, rule |-> rule] \in Triggers
    BY <1>1, <1>5 DEF Observe, Triggers
  <2> QED
    BY <1>1, <1>5, <2>2, <2>3 DEF Observe
<1>6. ASSUME NEW o \in Observers, RecordTrigger(o) \/ ExpireRule(o)
      PROVE  task' \in [Observers -> Triggers \cup {None}] /\ UNCHANGED <<rule, clock>>
  BY <1>1, <1>6 DEF RecordTrigger, ExpireRule, Select
<1>7. ASSUME NEW o \in Pollers, ExpireDue(o) PROVE UNCHANGED <<rule, task, clock>>
  BY <1>7 DEF ExpireDue, Select
<1>8. ASSUME NEW i \in DOMAIN inbox, NEW target \in InboxStates, NEW until \in {None} \cup clock + 1..clock + 2,
             Transition(i, target, until)
      PROVE  UNCHANGED <<rule, task, clock>>
  BY <1>8 DEF Transition, Select
<1>9. ASSUME NEW p \in Processes, Update(p) PROVE UNCHANGED <<rule, task, clock>>
  BY <1>9 DEF Update
<1>10. CASE UNCHANGED vars
  BY <1>2, <1>10 DEF vars
<1>11. CASE Step
  BY <1>1, <1>2, <1>3, <1>4, <1>5, <1>6, <1>7, <1>8, <1>9, <1>11 DEF Step
<1> QED
  BY <1>10, <1>11 DEF Next

LEMMA InboxStep == InboxInv /\ [Next]_vars => InboxInv'
<1> SUFFICES ASSUME InboxInv, [Next]_vars PROVE InboxInv'
  OBVIOUS
<1>1. InboxTypeOK /\ RefersOK
  BY DEF InboxInv
<1>2. rule' \in Rules \cup {None} /\ task' \in [Observers -> Triggers \cup {None}] /\ clock' \in Nat
  BY <1>1, RuleAndTaskType
<1>3. UNCHANGED processOf /\ processOf \in [Observers -> Processes]
  BY <1>1, StepKinds DEF InboxTypeOK
<1>4. CASE UNCHANGED <<outbox, inbox, log, pending>>
  <2>1. InboxTypeOK'
    BY <1>1, <1>2, <1>3, <1>4 DEF InboxTypeOK
  <2> QED
    BY <1>4, <2>1, RefersKept
<1>5. ASSUME NEW p \in {Server} \cup {processOf[o] : o \in Observers}, Selects(p) PROVE InboxInv'
  <2>1. p \in Processes
    BY <1>3, InboxAssumption
  <2> QED
    BY <1>2, <1>3, <1>5, <2>1, SelectInv
<1>6. ASSUME NEW o \in Observers, RecordTrigger(o) PROVE InboxInv'
  <2>1. UNCHANGED <<log, pending>>
    BY <1>6 DEF RecordTrigger
  <2>2. inbox' \in Seq(Events) /\ outbox' \in Seq(Notices) /\ Len(inbox') >= Len(inbox)
    BY <1>1, <1>6, TriggerEffect, InboxType DEF Inserted, Counted, Noticed
  <2>3. InboxTypeOK'
    BY <1>1, <1>2, <1>3, <2>1, <2>2 DEF InboxTypeOK
  <2>4. DOMAIN inbox \subseteq DOMAIN inbox'
    BY <1>1, <2>2, InboxType, LenProperties
  <2> QED
    BY <2>1, <2>3, <2>4, RefersKept
<1>7. ASSUME NEW p \in Processes, Update(p) PROVE InboxInv'
  <2>1. PICK work : work = pending[p]
    OBVIOUS
  <2>2. /\ DOMAIN work.from \subseteq DOMAIN inbox
        /\ inbox' \in Seq(Events) /\ Len(inbox') = Len(inbox)
        /\ Recorded(log, log', work)
    BY <1>7, <2>1, UpdateEffect
  <2>3. /\ pending' = [pending EXCEPT ![p] = None] /\ pending \in [Processes -> Works \cup {None}]
        /\ outbox \in Seq(Notices) /\ UNCHANGED outbox
    BY <1>1, <1>7 DEF Update, InboxTypeOK
  <2>4. InboxTypeOK'
    BY <1>2, <1>3, <2>2, <2>3 DEF InboxTypeOK, Recorded
  <2>5. DOMAIN inbox' = DOMAIN inbox
    BY <1>1, <2>2, InboxType, LenProperties
  <2>6. ASSUME NEW q \in Processes, pending'[q] # None PROVE DOMAIN pending'[q].from \subseteq DOMAIN inbox'
    BY <1>1, <2>3, <2>5, <2>6 DEF RefersOK
  <2>7. ASSUME NEW k \in DOMAIN log' PROVE log'[k].inbox \in DOMAIN inbox'
    <3>1. k \in 1..Len(log') /\ DOMAIN log = 1..Len(log) /\ Len(log) \in Nat
      BY <1>1, <2>2, <2>7, InboxType, LenProperties DEF Recorded
    <3>2. CASE k > Len(log)
      <4>1. PICK i \in DOMAIN work.from : log'[k] = Entry(work, i)
        BY <2>2, <3>1, <3>2 DEF Recorded
      <4>2. log'[k].inbox = i
        BY <4>1 DEF Entry
      <4> QED
        BY <2>2, <2>5, <4>2
    <3>3. CASE ~(k > Len(log))
      <4>1. k \in 1..Len(log)
        BY <3>1, <3>3
      <4> QED
        BY <1>1, <2>2, <2>5, <3>1, <4>1 DEF Recorded, RefersOK
    <3> QED
      BY <3>2, <3>3
  <2> QED
    BY <2>4, <2>6, <2>7 DEF InboxInv, RefersOK
<1> QED
  BY <1>1, <1>4, <1>5, <1>6, <1>7, StepKinds

\* Types, and that selected work and recorded transitions are about events there are.
THEOREM InboxInvariant == Spec => []InboxInv
<1> QED
  BY InboxInit, InboxStep, PTL DEF Spec

-----------------------------------------------------------------------------
(* One process: the lock covers a selection and its update.                 *)

\* What the process has selected is as it was when it was selected.
Current(work) ==
  \A i \in DOMAIN work.from :
    /\ inbox[i].state = work.from[i] /\ work.from[i] \notin Terminal
    /\ work.why = "user" => Allowed(work.from[i], work.to)
SoloInv == OneProcess =>
  /\ \A p \in Processes : p # Server => pending[p] = None
  /\ pending[Server] # None => Current(pending[Server])

LEMMA SoloStep == InboxInv /\ SoloInv /\ [Next]_vars => SoloInv'
<1> SUFFICES ASSUME InboxInv, SoloInv, [Next]_vars, OneProcess' PROVE SoloInv'
  BY DEF SoloInv
<1>1. InboxTypeOK /\ pending \in [Processes -> Works \cup {None}] /\ Server \in Processes
  BY InboxAssumption DEF InboxInv, InboxTypeOK
<1>2. OneProcess
  BY <1>1, StepKinds DEF OneProcess
<1>3. /\ \A p \in Processes : p # Server => pending[p] = None
      /\ pending[Server] # None => Current(pending[Server])
  BY <1>2 DEF SoloInv
<1>4. CASE UNCHANGED <<outbox, inbox, log, pending>>
  BY <1>3, <1>4 DEF SoloInv, Current
<1>5. ASSUME NEW p \in {Server} \cup {processOf[o] : o \in Observers}, Selects(p) PROVE SoloInv'
  <2>1. p = Server
    BY <1>2 DEF OneProcess
  <2>2. PICK rows \in SUBSET DOMAIN inbox, to \in InboxStates, until \in Nat \cup {None}, why \in Reasons :
          /\ Select(Server, rows, to, until, why)
          /\ \A i \in rows : /\ inbox[i].state \notin Terminal
                             /\ why = "user" => Allowed(inbox[i].state, to)
    BY <1>5, <2>1 DEF Selects
  <2>3. /\ \A q \in Processes : q # Server => pending'[q] = pending[q]
        /\ pending'[Server].from = Selected(rows) /\ DOMAIN Selected(rows) = rows
        /\ \A i \in rows : Selected(rows)[i] = inbox[i].state
        /\ pending'[Server].to = to /\ pending'[Server].why = why
    BY <1>1, <2>2, SelectEffect
  <2>4. UNCHANGED inbox
    BY <2>2 DEF Select
  <2>5. Current(pending[Server])'
    BY <2>2, <2>3, <2>4 DEF Current
  <2> QED
    BY <1>3, <2>3, <2>5 DEF SoloInv
<1>6. ASSUME NEW o \in Observers, RecordTrigger(o) PROVE SoloInv'
  BY <1>2, <1>3, <1>6 DEF RecordTrigger, OneProcess, LockFree, SoloInv
<1>7. ASSUME NEW p \in Processes, Update(p) PROVE SoloInv'
  BY <1>1, <1>3, <1>7 DEF Update, SoloInv
<1> QED
  BY <1>1, <1>4, <1>5, <1>6, <1>7, StepKinds

THEOREM SoloInvariant == Spec => [](InboxInv /\ SoloInv)
<1>1. Init => SoloInv
  BY InboxAssumption DEF Init, SoloInv
<1> QED
  BY <1>1, InboxInit, InboxStep, SoloStep, PTL DEF Spec

LEMMA TerminalStep ==
  ASSUME InboxInv, SoloInv, [Next]_vars, OneProcess, NEW i \in DOMAIN inbox, inbox[i].state \in Terminal
  PROVE  inbox'[i] = inbox[i]
<1>1. InboxTypeOK /\ i \in 1..Len(inbox)
  BY InboxType DEF InboxInv
<1>2. CASE UNCHANGED inbox
  BY <1>2
<1>3. ASSUME NEW p \in {Server} \cup {processOf[o] : o \in Observers}, Selects(p) PROVE UNCHANGED inbox
  BY <1>3 DEF Selects, Select
<1>4. ASSUME NEW o \in Observers, RecordTrigger(o) PROVE inbox'[i] = inbox[i]
  BY <1>1, <1>4, TriggerEffect DEF Inserted, Counted
<1>5. ASSUME NEW p \in Processes, Update(p) PROVE inbox'[i] = inbox[i]
  <2>1. p = Server /\ Current(pending[Server])
    BY <1>5 DEF Update, SoloInv
  <2>2. i \notin DOMAIN pending[p].from
    BY <2>1 DEF Current
  <2> QED
    BY <1>5, <2>2, UpdateEffect
<1> QED
  BY <1>1, <1>2, <1>3, <1>4, <1>5, StepKinds

\* In one process an event that is resolved, invalidated or expired never changes
\* again: a transition and an expiry write only what their lock has kept as it was
\* selected, and a trigger opens a new event (transition(), record_trigger()).
THEOREM TerminalIsFinalHolds == Spec => TerminalIsFinal
<1>1. InboxInv /\ SoloInv /\ [Next]_vars
        => [OneProcess => \A i \in DOMAIN inbox : inbox[i].state \in Terminal => inbox'[i] = inbox[i]]_vars
  BY TerminalStep
<1> QED
  BY <1>1, SoloInvariant, PTL DEF Spec, TerminalIsFinal

-----------------------------------------------------------------------------
(* The recorded transitions.                                                *)

\* Continues, of any log.
Goes(l, i, n, state) ==
  LET trail == {k \in 1..n : l[k].inbox = i}
  IN /\ trail = {} => Follows("NEW", state)
     /\ \A k \in trail : (\A j \in trail : j <= k) => Follows(l[k].to, state)

\* What others record does not change where an event may be.
LEMMA GoesOn ==
  ASSUME NEW l, NEW m, NEW i, NEW state, NEW n \in Nat, NEW o \in Nat, n <= o,
         \A k \in 1..n : m[k] = l[k], \A k \in 1..o : k > n => m[k].inbox # i, Goes(l, i, n, state)
  PROVE  Goes(m, i, o, state)
<1>1. {k \in 1..o : m[k].inbox = i} = {k \in 1..n : l[k].inbox = i}
  OBVIOUS
<1> QED
  BY <1>1 DEF Goes

HistoryOf(l, states) ==
  /\ \A i \in DOMAIN states : Goes(l, i, Len(l), states[i].state)
  /\ \A k \in DOMAIN l :
       /\ Goes(l, l[k].inbox, k - 1, l[k].from)
       /\ l[k].why = "user" => Allowed(l[k].from, l[k].to)

LEMMA HistoryIsOf ==
  /\ HistoryExplainsState <=> (OneProcess => HistoryOf(log, inbox))
  /\ HistoryExplainsState' <=> (OneProcess' => HistoryOf(log', inbox'))
  BY DEF HistoryExplainsState, HistoryOf, Continues, Goes

\* A trigger adds an event without history, or wakes one that slept.
LEMMA TriggerHistory ==
  ASSUME InboxInv, HistoryOf(log, inbox), NEW o \in Observers, RecordTrigger(o)
  PROVE  HistoryOf(log', inbox')
<1>1. log' = log
  BY DEF RecordTrigger
<1>2. /\ InboxTypeOK /\ DOMAIN inbox = 1..Len(inbox) /\ Len(inbox) \in Nat
      /\ DOMAIN log = 1..Len(log) /\ Len(log) \in Nat
      /\ \A k \in DOMAIN log : log[k].inbox \in DOMAIN inbox
  BY InboxType DEF InboxInv, RefersOK
<1>3. CASE UNCHANGED <<inbox, outbox>>
  BY <1>1, <1>3 DEF HistoryOf
<1>4. CASE Inserted(task[o].at)
  <2>1. DOMAIN inbox' = 1..(Len(inbox) + 1)
    BY <1>4, LenProperties DEF Inserted
  <2>2. ASSUME NEW i \in DOMAIN inbox' PROVE Goes(log, i, Len(log), inbox'[i].state)
    <3>1. CASE i \in DOMAIN inbox
      BY <1>2, <1>4, <3>1 DEF HistoryOf, Inserted
    <3>2. CASE i \notin DOMAIN inbox
      <4>1. i = Len(inbox) + 1 /\ inbox'[i].state = "NEW"
        BY <1>2, <1>4, <2>1, <2>2, <3>2 DEF Inserted
      <4>2. {k \in 1..Len(log) : log[k].inbox = i} = {}
        BY <1>2, <3>2
      <4> QED
        BY <4>1, <4>2 DEF Goes, Follows
    <3> QED
      BY <3>1, <3>2
  <2> QED
    BY <1>1, <2>2 DEF HistoryOf
<1>5. ASSUME NEW i \in DOMAIN inbox, Counted(i, task[o].at) PROVE HistoryOf(log', inbox')
  <2>1. DOMAIN inbox' = DOMAIN inbox
    BY <1>2, <1>5, LenProperties DEF Counted
  <2>2. ASSUME NEW j \in DOMAIN inbox PROVE Goes(log, j, Len(log), inbox'[j].state)
    <3>1. Goes(log, j, Len(log), inbox[j].state)
      BY DEF HistoryOf
    <3>2. CASE inbox'[j].state = inbox[j].state
      BY <3>1, <3>2
    <3>3. CASE inbox[j].state = "SNOOZED" /\ inbox'[j].state = "NEW"
      BY <3>1, <3>3 DEF Goes, Follows
    <3> QED
      BY <1>2, <1>5, <3>2, <3>3 DEF Counted
  <2> QED
    BY <1>1, <2>1, <2>2 DEF HistoryOf
<1> QED
  BY <1>2, <1>3, <1>4, <1>5, TriggerEffect

\* An update records the step of each of its events, from the state it had.
LEMMA UpdateHistory ==
  ASSUME InboxInv, HistoryOf(log, inbox), NEW p \in Processes, Update(p), Current(pending[p])
  PROVE  HistoryOf(log', inbox')
<1>1. /\ InboxTypeOK /\ DOMAIN inbox = 1..Len(inbox) /\ Len(inbox) \in Nat
      /\ log \in Seq(Entries) /\ DOMAIN log = 1..Len(log) /\ Len(log) \in Nat
  BY InboxType DEF InboxInv
<1>2. PICK work, l, m : work = pending[p] /\ l = log /\ m = log'
  OBVIOUS
<1>3. /\ DOMAIN work.from \subseteq DOMAIN inbox
      /\ inbox' \in Seq(Events) /\ Len(inbox') = Len(inbox)
      /\ \A i \in DOMAIN inbox :
           /\ i \in DOMAIN work.from => inbox'[i].state = work.to
           /\ i \notin DOMAIN work.from => inbox'[i] = inbox[i]
      /\ Recorded(l, m, work)
  BY <1>2, UpdateEffect
<1>4. /\ m \in Seq(Entries) /\ Len(m) \in Nat /\ DOMAIN m = 1..Len(m) /\ Len(m) >= Len(l) /\ Len(l) \in Nat
      /\ \A k \in 1..Len(l) : m[k] = l[k]
      /\ \A k \in 1..Len(m) : k > Len(l) => \E i \in DOMAIN work.from : m[k] = Entry(work, i)
      /\ \A j, k \in 1..Len(m) : j > Len(l) /\ k > Len(l) /\ m[j].inbox = m[k].inbox => j = k
      /\ \A i \in DOMAIN work.from : \E k \in 1..Len(m) : k > Len(l) /\ m[k].inbox = i
  BY <1>1, <1>2, <1>3, LenProperties DEF Recorded
<1>5. DOMAIN inbox' = DOMAIN inbox
  BY <1>1, <1>3, LenProperties
<1>6. ASSUME NEW k \in 1..Len(m), k > Len(l)
      PROVE  /\ m[k].inbox \in DOMAIN work.from /\ m[k].from = work.from[m[k].inbox]
             /\ m[k].to = work.to /\ m[k].why = work.why
  <2>1. PICK i \in DOMAIN work.from : m[k] = Entry(work, i)
    BY <1>4, <1>6
  <2> QED
    BY <2>1 DEF Entry
<1>7. ASSUME NEW i \in DOMAIN inbox PROVE Goes(m, i, Len(m), inbox'[i].state)
  <2>1. CASE i \in DOMAIN work.from
    <3>1. PICK k \in 1..Len(m) : k > Len(l) /\ m[k].inbox = i
      BY <1>4, <2>1
    <3>2. ASSUME NEW j \in 1..Len(m), m[j].inbox = i, j >= k PROVE j = k
      BY <1>4, <3>1, <3>2
    <3>3. m[k].to = inbox'[i].state
      BY <1>3, <1>6, <2>1, <3>1
    <3> QED
      BY <3>1, <3>2, <3>3 DEF Goes, Follows
  <2>2. CASE i \notin DOMAIN work.from
    <3>1. PICK state : state = inbox[i].state /\ state = inbox'[i].state
      BY <1>3, <2>2
    <3>2. Goes(l, i, Len(l), state)
      BY <1>2, <3>1 DEF HistoryOf
    <3>3. \A k \in 1..Len(m) : k > Len(l) => m[k].inbox # i
      BY <1>6, <2>2
    <3>4. Goes(m, i, Len(m), state)
      BY <1>4, <3>2, <3>3, GoesOn
    <3> QED
      BY <3>1, <3>4
  <2> QED
    BY <2>1, <2>2
<1>8. ASSUME NEW k \in 1..Len(m)
      PROVE  Goes(m, m[k].inbox, k - 1, m[k].from) /\ (m[k].why = "user" => Allowed(m[k].from, m[k].to))
  <2>1. CASE k <= Len(l)
    <3>1. m[k] = l[k] /\ k \in DOMAIN l /\ k - 1 \in Nat /\ \A j \in 1..(k - 1) : m[j] = l[j]
      BY <1>1, <1>2, <1>4, <2>1
    <3>2. Goes(l, m[k].inbox, k - 1, m[k].from) /\ (m[k].why = "user" => Allowed(m[k].from, m[k].to))
      BY <1>2, <3>1 DEF HistoryOf
    <3>3. \A j \in 1..(k - 1) : j > k - 1 => m[j].inbox # m[k].inbox
      BY <3>1
    <3>4. Goes(m, m[k].inbox, k - 1, m[k].from)
      BY <3>1, <3>2, <3>3, GoesOn
    <3> QED
      BY <3>2, <3>4
  <2>2. CASE ~(k <= Len(l))
    <3>1. k > Len(l)
      BY <1>4, <2>2
    <3>2. PICK i \in DOMAIN work.from :
            i = m[k].inbox /\ m[k].from = work.from[i] /\ m[k].to = work.to /\ m[k].why = work.why
      BY <1>6, <3>1
    <3>3. /\ m[k].from = inbox[i].state /\ m[k].from = work.from[i]
          /\ m[k].why = "user" => Allowed(m[k].from, m[k].to)
      BY <1>2, <3>2 DEF Current
    <3>4. PICK state : state = m[k].from /\ Goes(l, i, Len(l), state)
      BY <1>2, <1>3, <3>3 DEF HistoryOf
    <3>5. \A j \in 1..(k - 1) : j > Len(l) => m[j].inbox # i
      BY <1>4, <3>1, <3>2, SMTT(60)
    <3>6. k - 1 \in Nat /\ Len(l) \in Nat /\ Len(l) <= k - 1 /\ \A j \in 1..Len(l) : m[j] = l[j]
      BY <1>4, <3>1
    <3>7. Goes(m, i, k - 1, state)
      BY <3>4, <3>5, <3>6, GoesOn
    <3> QED
      BY <3>2, <3>3, <3>4, <3>7
  <2> QED
    BY <2>1, <2>2
<1> QED
  BY <1>2, <1>4, <1>5, <1>7, <1>8 DEF HistoryOf

LEMMA HistoryStep == InboxInv /\ SoloInv /\ HistoryExplainsState /\ [Next]_vars => HistoryExplainsState'
<1> SUFFICES ASSUME InboxInv, SoloInv, HistoryExplainsState, [Next]_vars, OneProcess' PROVE HistoryOf(log', inbox')
  BY HistoryIsOf
<1>1. InboxTypeOK
  BY DEF InboxInv
<1>2. OneProcess
  BY <1>1, StepKinds DEF OneProcess
<1>3. HistoryOf(log, inbox)
  BY <1>2, HistoryIsOf
<1>4. CASE UNCHANGED <<inbox, log>>
  BY <1>3, <1>4
<1>5. ASSUME NEW p \in {Server} \cup {processOf[o] : o \in Observers}, Selects(p) PROVE UNCHANGED <<inbox, log>>
  BY <1>5 DEF Selects, Select
<1>6. ASSUME NEW o \in Observers, RecordTrigger(o) PROVE HistoryOf(log', inbox')
  BY <1>3, <1>6, TriggerHistory
<1>7. ASSUME NEW p \in Processes, Update(p) PROVE HistoryOf(log', inbox')
  <2>1. Current(pending[p])
    BY <1>2, <1>7 DEF Update, SoloInv
  <2> QED
    BY <1>3, <1>7, <2>1, UpdateHistory
<1> QED
  BY <1>1, <1>4, <1>5, <1>6, <1>7, StepKinds

\* In one process the recorded transitions explain the state of every event, and each
\* of them was allowed where it started (monitor_transitions, transition(),
\* expire_due(), expire_rule_events()).
THEOREM HistoryExplainsStateHolds == Spec => []HistoryExplainsState
<1>1. Init => HistoryExplainsState
  <2> SUFFICES ASSUME Init PROVE HistoryOf(log, inbox)
    BY HistoryIsOf
  <2>1. DOMAIN inbox = {} /\ DOMAIN log = {}
    BY LenProperties DEF Init
  <2> QED
    BY <2>1 DEF HistoryOf
<1> QED
  BY <1>1, SoloInvariant, HistoryStep, PTL DEF Spec

-----------------------------------------------------------------------------
(* The cooldown.                                                            *)

\* The times at which the rows of an event were made.
Times(l, i) == {l[k].created : k \in {j \in DOMAIN l : l[j].inbox = i}}

Spaced ==
  \A j, k \in DOMAIN outbox :
    (j < k /\ outbox[j].inbox = outbox[k].inbox /\ outbox[j].channel = outbox[k].channel)
      => outbox[k].created >= outbox[j].created + Window
Tallied == \A i \in DOMAIN inbox : inbox[i].count = Cardinality(Times(outbox, i))

LEMMA CooldownParts == CooldownKept <=> Spaced /\ Tallied
  BY DEF CooldownKept, Spaced, Tallied, Times

\* No row is newer than the last trigger of its event.
Dated ==
  \A k \in DOMAIN outbox : outbox[k].inbox \in DOMAIN inbox /\ outbox[k].created <= inbox[outbox[k].inbox].last

LEMMA TimesFinite ==
  ASSUME NEW l \in Seq(Notices), NEW i
  PROVE  IsFiniteSet(Times(l, i)) /\ Cardinality(Times(l, i)) \in Nat
<1> DEFINE S == {j \in DOMAIN l : l[j].inbox = i}
           f == [k \in S |-> l[k].created]
<1>1. DOMAIN l = 1..Len(l) /\ Len(l) \in Int /\ 1 \in Int
  BY LenProperties
<1>2. IsFiniteSet(1..Len(l)) /\ S \in SUBSET (1..Len(l))
  BY <1>1, FS_Interval
<1>3. IsFiniteSet(S)
  BY <1>2, FS_Subset
<1>4. f \in Surjection(S, Times(l, i))
  BY DEF Surjection, Times
<1>5. IsFiniteSet(Times(l, i))
  BY <1>3, <1>4, FS_Surjection
<1> QED
  BY <1>5, FS_CardinalityType

\* What a trigger that is not suppressed finds, and leaves: the rows of its event are at
\* least a window older.
Met(i, at) ==
  /\ Noticed(outbox, outbox', i, at)
  /\ inbox' \in Seq(Events) /\ DOMAIN inbox' = DOMAIN inbox \cup {i} /\ inbox'[i].last = at
  /\ \A j \in DOMAIN inbox : j # i => inbox'[j] = inbox[j]
  /\ \A k \in DOMAIN outbox : outbox[k].inbox = i => at >= outbox[k].created + Window
  /\ inbox'[i].count = (IF i \in DOMAIN inbox THEN inbox[i].count ELSE 0) + 1

LEMMA TriggerMeets ==
  ASSUME InboxInv, Dated, NEW o \in Observers, RecordTrigger(o)
  PROVE  \/ UNCHANGED <<inbox, outbox>>
         \/ \E i \in Nat, at \in Nat : Met(i, at)
<1>1. /\ InboxTypeOK /\ DOMAIN inbox = 1..Len(inbox) /\ Len(inbox) \in Nat
      /\ \A i \in DOMAIN inbox : inbox[i] \in Events
      /\ \A k \in DOMAIN outbox : outbox[k] \in Notices
  BY InboxType DEF InboxInv
<1>2. PICK at \in Nat : at = task[o].at
  BY <1>1, TriggerEffect DEF Triggers
<1>3. CASE Inserted(at) /\ Noticed(outbox, outbox', Len(inbox) + 1, at)
  <2>1. PICK i \in Nat : i = Len(inbox) + 1 /\ i \notin DOMAIN inbox
    BY <1>1
  <2>2. DOMAIN inbox' = DOMAIN inbox \cup {i}
    BY <1>1, <1>3, <2>1, LenProperties DEF Inserted
  <2>3. \A k \in DOMAIN outbox : outbox[k].inbox # i
    BY <2>1 DEF Dated
  <2> QED
    BY <1>1, <1>3, <2>1, <2>2, <2>3 DEF Met, Inserted
<1>4. ASSUME NEW i \in DOMAIN inbox, ~Suppressed(inbox[i], at), Counted(i, at), Noticed(outbox, outbox', i, at)
      PROVE  Met(i, at)
  <2>1. DOMAIN inbox' = DOMAIN inbox /\ DOMAIN inbox = DOMAIN inbox \cup {i}
    BY <1>1, <1>4, LenProperties DEF Counted
  <2>2. inbox[i].last \in Nat /\ at >= inbox[i].last + Window
    BY <1>1, <1>4, InboxAssumption DEF Suppressed, Events
  <2>3. ASSUME NEW k \in DOMAIN outbox, outbox[k].inbox = i PROVE at >= outbox[k].created + Window
    <3>1. outbox[k].created \in Nat /\ outbox[k].created <= inbox[i].last
      BY <1>1, <2>3 DEF Dated, Notices
    <3> QED
      BY <2>2, <3>1, InboxAssumption
  <2> QED
    BY <1>1, <1>4, <2>1, <2>3 DEF Met, Counted
<1> QED
  BY <1>1, <1>2, <1>3, <1>4, TriggerEffect

\* A trigger keeps the distances, and its event's count goes with the new time.
LEMMA TriggerCooldown ==
  ASSUME InboxInv, Dated, Spaced, NEW i \in Nat, NEW at \in Nat, Met(i, at)
  PROVE  Dated' /\ Spaced' /\ (Tallied /\ Window > 0 => Tallied')
<1>1. /\ InboxTypeOK /\ outbox \in Seq(Notices) /\ DOMAIN outbox = 1..Len(outbox) /\ Len(outbox) \in Nat
      /\ \A k \in DOMAIN outbox : outbox[k] \in Notices
  BY InboxType DEF InboxInv
<1>2. PICK l, m : l = outbox /\ m = outbox'
  OBVIOUS
<1>3. /\ m \in Seq(Notices) /\ DOMAIN m = 1..Len(m) /\ Len(m) > Len(l) /\ Len(m) \in Nat
      /\ \A k \in 1..Len(l) : m[k] = l[k]
      /\ \A k \in 1..Len(m) : k > Len(l) => m[k].inbox = i /\ m[k].created = at
      /\ \A j, k \in 1..Len(m) : j > Len(l) /\ k > Len(l) /\ m[j].channel = m[k].channel => j = k
  BY <1>2, LenProperties DEF Met, Noticed
<1>4. /\ l \in Seq(Notices) /\ DOMAIN l = 1..Len(l) /\ Len(l) \in Nat
      /\ \A k \in 1..Len(l) : l[k].inbox = i => at >= l[k].created + Window
      /\ \A k \in 1..Len(l) : l[k].created \in Nat
  BY <1>1, <1>2 DEF Met, Notices
<1>5. Window \in Nat
  BY InboxAssumption
<1>6. Dated'
  <2> SUFFICES ASSUME NEW k \in 1..Len(m)
               PROVE  m[k].inbox \in DOMAIN inbox' /\ m[k].created <= inbox'[m[k].inbox].last
    BY <1>2, <1>3 DEF Dated
  <2>1. CASE k > Len(l)
    BY <1>3, <2>1 DEF Met
  <2>2. CASE ~(k > Len(l))
    <3>1. m[k] = l[k] /\ k \in DOMAIN outbox
      BY <1>1, <1>2, <1>3, <1>4, <2>2
    <3>2. m[k].inbox \in DOMAIN inbox /\ m[k].created <= inbox[m[k].inbox].last
      BY <1>2, <3>1 DEF Dated
    <3>3. CASE m[k].inbox = i
      <4>1. k \in 1..Len(l) /\ l[k].inbox = i
        BY <1>3, <1>4, <2>2, <3>1, <3>3
      <4>2. at >= l[k].created + Window /\ l[k].created \in Nat
        BY <1>4, <4>1
      <4>3. l[k].created <= at
        BY <1>5, <4>2
      <4>4. i \in DOMAIN inbox' /\ inbox'[i].last = at
        BY DEF Met
      <4> QED
        BY <3>1, <3>3, <4>3, <4>4
    <3>4. CASE m[k].inbox # i
      BY <3>2, <3>4 DEF Met
    <3> QED
      BY <3>3, <3>4
  <2> QED
    BY <2>1, <2>2
<1>7. Spaced'
  <2> SUFFICES ASSUME NEW j \in 1..Len(m), NEW k \in 1..Len(m), j < k, m[j].inbox = m[k].inbox, m[j].channel = m[k].channel
               PROVE  m[k].created >= m[j].created + Window
    BY <1>2, <1>3 DEF Spaced
  <2>1. CASE k <= Len(l)
    <3>1. j \in DOMAIN outbox /\ k \in DOMAIN outbox /\ m[j] = outbox[j] /\ m[k] = outbox[k]
      BY <1>1, <1>2, <1>3, <1>4, <2>1, SMTT(60)
    <3> QED
      BY <3>1 DEF Spaced
  <2>2. CASE k > Len(l) /\ j <= Len(l)
    <3>1. m[j] = l[j] /\ j \in 1..Len(l) /\ m[k].inbox = i /\ m[k].created = at
      BY <1>3, <1>4, <2>2
    <3> QED
      BY <1>4, <3>1
  <2>3. CASE k > Len(l) /\ j > Len(l)
    BY <1>3, <2>3
  <2> QED
    BY <1>4, <2>1, <2>2, <2>3
<1>8. ASSUME Tallied, Window > 0 PROVE Tallied'
  <2>1. ASSUME NEW e, e # i PROVE Times(m, e) = Times(l, e)
    <3>1. ASSUME NEW k \in 1..Len(m), m[k].inbox = e PROVE k \in 1..Len(l) /\ m[k] = l[k]
      BY <1>3, <1>4, <2>1, <3>1
    <3>2. \A k \in 1..Len(l) : k \in 1..Len(m) /\ m[k] = l[k]
      BY <1>3, <1>4
    <3>3. {k \in DOMAIN m : m[k].inbox = e} = {k \in DOMAIN l : l[k].inbox = e}
      BY <1>3, <1>4, <3>1, <3>2
    <3> QED
      BY <1>4, <3>2, <3>3 DEF Times
  <2>2. Times(m, i) = Times(l, i) \cup {at} /\ at \notin Times(l, i)
    <3>1. \A k \in 1..Len(l) : k \in 1..Len(m) /\ m[k] = l[k]
      BY <1>3, <1>4
    <3>2. Times(l, i) \subseteq Times(m, i)
      BY <1>3, <1>4, <3>1 DEF Times
    <3>3. at \in Times(m, i)
      <4>1. Len(m) \in 1..Len(m) /\ m[Len(m)].inbox = i /\ m[Len(m)].created = at
        BY <1>3, <1>4
      <4> QED
        BY <1>3, <4>1 DEF Times
    <3>4. ASSUME NEW k \in 1..Len(m), m[k].inbox = i PROVE m[k].created = at \/ m[k].created \in Times(l, i)
      <4>1. CASE k > Len(l)
        BY <1>3, <4>1
      <4>2. CASE ~(k > Len(l))
        <5>1. k \in DOMAIN l /\ m[k] = l[k]
          BY <1>3, <1>4, <4>2
        <5> QED
          BY <3>4, <5>1 DEF Times
      <4> QED
        BY <4>1, <4>2
    <3>5. Times(m, i) \subseteq Times(l, i) \cup {at}
      BY <1>3, <3>4 DEF Times
    <3>6. ASSUME NEW k \in 1..Len(l), l[k].inbox = i PROVE l[k].created # at
      <4>1. at >= l[k].created + Window /\ l[k].created \in Nat
        BY <1>4, <3>6
      <4> QED
        BY <1>5, <1>8, <4>1
    <3>7. at \notin Times(l, i)
      BY <1>4, <3>6 DEF Times
    <3> QED
      BY <3>2, <3>3, <3>5, <3>7
  <2>3. Cardinality(Times(m, i)) = Cardinality(Times(l, i)) + 1
    BY <1>4, <2>2, TimesFinite, FS_AddElement
  <2>4. i \notin DOMAIN inbox => Cardinality(Times(l, i)) = 0
    <3>1. i \notin DOMAIN inbox => Times(l, i) = {}
      BY <1>2 DEF Dated, Times
    <3> QED
      BY <3>1, FS_EmptySet
  <2> SUFFICES ASSUME NEW e \in DOMAIN inbox' PROVE inbox'[e].count = Cardinality(Times(m, e))
    BY <1>2 DEF Tallied
  <2>5. CASE e = i
    BY <1>2, <1>8, <2>3, <2>4, <2>5 DEF Met, Tallied
  <2>6. CASE e # i
    BY <1>2, <1>8, <2>1, <2>6 DEF Met, Tallied
  <2> QED
    BY <2>5, <2>6
<1> QED
  BY <1>6, <1>7, <1>8

\* An update changes neither the times nor the counts.
LEMMA UpdateCooldown ==
  ASSUME InboxInv, Dated, NEW p \in Processes, Update(p)
  PROVE  Dated' /\ (Spaced => Spaced') /\ (Tallied => Tallied')
<1>1. DOMAIN inbox = 1..Len(inbox) /\ Len(inbox) \in Nat
  BY InboxType DEF InboxInv
<1>2. /\ inbox' \in Seq(Events) /\ Len(inbox') = Len(inbox)
      /\ \A i \in DOMAIN inbox : inbox'[i].last = inbox[i].last /\ inbox'[i].count = inbox[i].count
  BY UpdateEffect
<1>3. outbox' = outbox
  BY DEF Update
<1>4. DOMAIN inbox' = DOMAIN inbox
  BY <1>1, <1>2, LenProperties
<1>5. Dated'
  BY <1>2, <1>3, <1>4 DEF Dated
<1>6. Spaced => Spaced'
  BY <1>3 DEF Spaced
<1>7. Tallied => Tallied'
  BY <1>2, <1>3, <1>4 DEF Tallied
<1> QED
  BY <1>5, <1>6, <1>7

LEMMA CooldownStep ==
  ASSUME InboxInv, Dated, Spaced, [Next]_vars
  PROVE  Dated' /\ Spaced' /\ (Tallied /\ Window > 0 => Tallied')
<1>1. InboxTypeOK
  BY DEF InboxInv
<1>2. ASSUME UNCHANGED <<inbox, outbox>> PROVE Dated' /\ Spaced' /\ (Tallied => Tallied')
  BY <1>2 DEF Dated, Spaced, Tallied
<1>3. ASSUME NEW p \in {Server} \cup {processOf[o] : o \in Observers}, Selects(p) PROVE UNCHANGED <<inbox, outbox>>
  BY <1>3 DEF Selects, Select
<1>4. ASSUME NEW o \in Observers, RecordTrigger(o) PROVE Dated' /\ Spaced' /\ (Tallied /\ Window > 0 => Tallied')
  <2>1. \/ UNCHANGED <<inbox, outbox>>
        \/ \E i \in Nat, at \in Nat : Met(i, at)
    BY <1>4, TriggerMeets
  <2>2. ASSUME NEW i \in Nat, NEW at \in Nat, Met(i, at)
        PROVE  Dated' /\ Spaced' /\ (Tallied /\ Window > 0 => Tallied')
    BY <2>2, TriggerCooldown
  <2> QED
    BY <1>2, <2>1, <2>2
<1>5. ASSUME NEW p \in Processes, Update(p) PROVE Dated' /\ Spaced' /\ (Tallied => Tallied')
  BY <1>5, UpdateCooldown
<1> QED
  BY <1>1, <1>2, <1>3, <1>4, <1>5, StepKinds

LEMMA CooldownInit == Init => Dated /\ Spaced /\ Tallied
<1> SUFFICES ASSUME Init PROVE Dated /\ Spaced /\ Tallied
  OBVIOUS
<1>1. DOMAIN inbox = {} /\ DOMAIN outbox = {}
  BY LenProperties DEF Init
<1> QED
  BY <1>1 DEF Dated, Spaced, Tallied

\* Two notifications of one event on one channel are a cooldown apart, whatever the
\* cooldown (record_trigger(), the test of suppress_window_sec).
THEOREM SpacedHolds == Spec => [](InboxInv /\ Dated /\ Spaced)
  BY InboxInvariant, CooldownInit, CooldownStep, PTL DEF Spec

\* With a cooldown, every trigger that was counted was also notified, once
\* (record_trigger(): the count and the rows of the outbox in one transaction).  The
\* model tells two triggers apart by their times, which differ only if there is a
\* cooldown: the default is 300 s (contracts.py), and a rule may set it to 0.
THEOREM CooldownKeptHolds ==
  ASSUME Window > 0
  PROVE  Spec => []CooldownKept
<1>1. InboxInv /\ Dated /\ Spaced /\ Tallied /\ [Next]_vars => Dated' /\ Spaced' /\ Tallied'
  BY CooldownStep
<1>2. Spaced /\ Tallied => CooldownKept
  BY CooldownParts
<1> QED
  BY <1>1, <1>2, InboxInvariant, CooldownInit, PTL DEF Spec
=============================================================================
