--------------------------- MODULE OutboundProofs ----------------------------
(* Proofs about what leaves the server: NotificationDispatch, for any set  *)
(* of dispatchers, any limit of a claim and any lease that is no longer    *)
(* than the delay of a retry; LiveUpdates, for any size of the queues and  *)
(* any number of events and streams; TodayBrief, for any boards, quotes,   *)
(* accounts and lots.                                                      *)
EXTENDS NotificationDispatch, LiveUpdates, TodayBrief, FiniteSums, FunctionTheorems, SequenceTheorems,
        NaturalsInduction, TLAPS

-----------------------------------------------------------------------------
(* NotificationDispatch.                                                   *)

States == {"PENDING", "SENDING"} \cup Final
Rows == [inbox : Nat, channel : Channels, state : States, attempts : Nat, next : Nat \cup {None}, created : Nat]
Items == [row : Nat, attempts : Nat, until : Nat]
Sending == {"send", "disable", "sent", "failed"}

DispatchTypeOK ==
  /\ outbox \in Seq(Rows)
  /\ pc \in [Dispatchers -> {"idle", "next"} \cup Sending]
  /\ batch \in [Dispatchers -> SUBSET Items]
  /\ item \in [Dispatchers -> Items \cup {None}]
  /\ clock \in Nat

\* A leased row says until when.
LeasesDated == \A k \in DOMAIN outbox : outbox[k].state = "SENDING" => outbox[k].next \in Nat

\* As long as the lease of a claimed item runs, its row is settled, or is not due before
\* the end of the lease, whoever has marked it meanwhile.
NotDueBefore(i) ==
  clock < i.until =>
    outbox[i.row].state \in Final \/ (outbox[i.row].next \in Nat /\ outbox[i.row].next >= i.until)
ItemInv(i) ==
  /\ i.row \in DOMAIN outbox
  /\ i.until <= clock + LeaseTime
  /\ NotDueBefore(i)
BatchesHeld == \A d \in Dispatchers : \A i \in batch[d] : ItemInv(i)

\* A dispatcher settles an item of its own batch.
OwnItem == \A d \in Dispatchers : pc[d] \in Sending => item[d] \in batch[d]

DispatchInv == DispatchTypeOK /\ LeasesDated /\ BatchesHeld /\ OwnItem /\ LeaseIsExclusive

-----------------------------------------------------------------------------
(* The outbox.                                                              *)

LEMMA RowType ==
  ASSUME DispatchTypeOK, NEW k \in DOMAIN outbox
  PROVE  outbox[k] \in Rows /\ k \in Nat
<1>1. outbox \in Seq(Rows) /\ DOMAIN outbox = 1..Len(outbox) /\ Len(outbox) \in Nat
  BY LenProperties DEF DispatchTypeOK
<1> QED
  BY <1>1, ElementOfSeq

\* A trigger adds one pending row for each channel; the rows there are stay.
LEMMA WithRowsAppends ==
  ASSUME DispatchTypeOK, NEW channels \in SUBSET Channels, NEW inbox \in Nat, NEW at \in Nat,
         NEW w, w = WithRows(inbox, channels, at)
  PROVE  /\ w \in Seq(Rows)
         /\ DOMAIN outbox \subseteq DOMAIN w
         /\ \A k \in DOMAIN outbox : w[k] = outbox[k]
         /\ \A k \in DOMAIN w \ DOMAIN outbox : w[k].state = "PENDING"
<1> DEFINE n == Cardinality(channels)
           Lists(s) == \A c \in channels : \E k \in DOMAIN s : s[k] = c
           new == CHOOSE s \in [1..n -> channels] : Lists(s)
           added == [k \in 1..n |-> Row(inbox, new[k], at)]
<1>1. IsFiniteSet(channels)
  <2>1. IsFiniteSet({"BROWSER"} \cup {"WEBHOOK"})
    BY FS_Singleton, FS_AddElement
  <2>2. channels \in SUBSET ({"BROWSER"} \cup {"WEBHOOK"})
    BY OutboxAssumption
  <2> QED
    BY <2>1, <2>2, FS_Subset
<1>2. n \in Nat /\ \E s \in [1..n -> channels] : Lists(s)
  <2>1. n \in Nat /\ ExistsBijection(1..n, channels)
    BY <1>1, FS_CardinalityType
  <2>2. PICK s \in Bijection(1..n, channels) : TRUE
    BY <2>1 DEF ExistsBijection
  <2>3. s \in [1..n -> channels] /\ Lists(s)
    BY <2>2 DEF Bijection, Surjection
  <2> QED
    BY <2>1, <2>3
<1>3. new \in [1..n -> channels]
  BY <1>2
<1> HIDE DEF new
<1>4. \A k \in 1..n : added[k] \in Rows /\ added[k].state = "PENDING"
  BY <1>3 DEF Row, Rows, States
<1>5. added \in Seq(Rows) /\ Len(added) = n
  <2>1. added \in [1..n -> Rows]
    BY <1>4
  <2> QED
    BY <1>2, <2>1
<1> HIDE DEF added
<1>6. outbox \in Seq(Rows) /\ DOMAIN outbox = 1..Len(outbox) /\ Len(outbox) \in Nat
  BY LenProperties DEF DispatchTypeOK
<1>7. /\ w \in Seq(Rows) /\ DOMAIN w = 1..(Len(outbox) + n)
      /\ \A k \in 1..(Len(outbox) + n) :
           w[k] = IF k <= Len(outbox) THEN outbox[k] ELSE added[k - Len(outbox)]
  <2>1. w = outbox \o added
    BY DEF WithRows, added, new
  <2> QED
    BY <1>2, <1>5, <1>6, <2>1, ConcatProperties, LenProperties
<1>8. DOMAIN outbox \subseteq DOMAIN w /\ \A k \in DOMAIN outbox : w[k] = outbox[k]
  BY <1>2, <1>6, <1>7
<1>9. ASSUME NEW k \in DOMAIN w \ DOMAIN outbox
       PROVE  w[k].state = "PENDING"
  <2>1. k \in 1..(Len(outbox) + n) /\ k - Len(outbox) \in 1..n /\ ~(k <= Len(outbox))
    BY <1>2, <1>6, <1>7, <1>9
  <2> QED
    BY <1>4, <1>7, <2>1
<1> QED
  BY <1>7, <1>8, <1>9

\* What a mark leaves: the row is settled, or not due before any lease that runs ends.
LEMMA MarkHolds ==
  ASSUME DispatchInv, NEW k \in DOMAIN outbox, NEW state \in Final \cup {"PENDING"},
         NEW attempts \in Nat, NEW next \in Nat \cup {None},
         state = "PENDING" => next \in Nat /\ next >= clock + LeaseTime,
         Mark(k, state, attempts, next), clock' = clock
  PROVE  /\ outbox' \in Seq(Rows) /\ DOMAIN outbox' = DOMAIN outbox /\ LeasesDated'
         /\ \A i \in Items : ItemInv(i) => ItemInv(i)'
<1> DEFINE r == [[[outbox[k] EXCEPT !.state = state] EXCEPT !.attempts = attempts] EXCEPT !.next = next]
<1>1. outbox[k] \in Rows /\ outbox \in Seq(Rows) /\ DOMAIN outbox = 1..Len(outbox) /\ clock \in Nat
  BY RowType, LenProperties DEF DispatchInv, DispatchTypeOK
<1>2. outbox' = [outbox EXCEPT ![k] = r]
  BY DEF Mark
<1>3. r \in Rows /\ r.state = state /\ r.next = next
  BY <1>1 DEF Rows, States
<1> HIDE DEF r
<1>4. /\ outbox' \in Seq(Rows) /\ DOMAIN outbox' = DOMAIN outbox
      /\ \A j \in DOMAIN outbox : outbox'[j] = IF j = k THEN r ELSE outbox[j]
  <2>1. /\ outbox' \in Seq(Rows) /\ Len(outbox') = Len(outbox)
        /\ \A j \in 1..Len(outbox) : outbox'[j] = IF j = k THEN r ELSE outbox[j]
    BY <1>1, <1>2, <1>3, ExceptSeq
  <2>2. DOMAIN outbox' = 1..Len(outbox')
    BY <2>1, LenProperties
  <2> QED
    BY <1>1, <2>1, <2>2
<1>5. LeasesDated'
  BY <1>3, <1>4 DEF DispatchInv, LeasesDated, Final
<1>6. ASSUME NEW i \in Items, ItemInv(i) PROVE ItemInv(i)'
  <2>1. i.until \in Nat /\ i.until <= clock + LeaseTime
    BY <1>6 DEF Items, ItemInv
  <2>2. CASE i.row = k
    <3>1. state \in Final \/ (next \in Nat /\ next >= i.until)
      BY <1>1, <2>1, OutboxAssumption
    <3> QED
      BY <1>3, <1>4, <1>6, <2>2, <3>1 DEF ItemInv, NotDueBefore
  <2>3. CASE i.row # k
    BY <1>4, <1>6, <2>3 DEF ItemInv, NotDueBefore
  <2> QED
    BY <2>2, <2>3
<1> QED
  BY <1>4, <1>5, <1>6

\* A row whose lease runs for somebody is not due, and a claim leaves it as it is.
LEMMA HeldIsNotDue ==
  ASSUME DispatchInv, NEW i \in Items, ItemInv(i), clock < i.until
  PROVE  i.row \notin Due(clock) /\ Recovered(outbox[i.row], clock) = outbox[i.row]
<1> DEFINE k == i.row
           row == outbox[k]
<1>1. k \in DOMAIN outbox /\ row \in Rows /\ clock \in Nat /\ i.until \in Nat
  BY RowType DEF ItemInv, Items, DispatchInv, DispatchTypeOK
<1>2. row.state \in Final \/ (row.next \in Nat /\ row.next > clock)
  BY <1>1 DEF ItemInv, NotDueBefore
<1>3. Recovered(row, clock) = row
  BY <1>1, <1>2 DEF Recovered, Final
<1>4. ~(row.state = "PENDING" /\ (row.next = None \/ row.next <= clock))
  BY <1>1, <1>2, OutboxAssumption DEF Final
<1> QED
  BY <1>3, <1>4 DEF Due

-----------------------------------------------------------------------------
(* Steps that give up items, or none, and let no running lease be overtaken. *)

LEMMA Kept ==
  ASSUME DispatchInv, LeasesDated', OwnItem',
         outbox' \in Seq(Rows),
         pc' \in [Dispatchers -> {"idle", "next"} \cup Sending],
         batch' \in [Dispatchers -> SUBSET Items],
         item' \in [Dispatchers -> Items \cup {None}],
         clock' \in Nat, clock' >= clock,
         \A d \in Dispatchers : batch'[d] \subseteq batch[d],
         \A i \in Items : ItemInv(i) => ItemInv(i)'
  PROVE  DispatchInv'
<1>1. DispatchTypeOK'
  BY DEF DispatchTypeOK
<1>2. BatchesHeld'
  BY DEF DispatchInv, DispatchTypeOK, BatchesHeld
<1>3. LeaseIsExclusive'
  <2> SUFFICES ASSUME NEW d \in Dispatchers, NEW e \in Dispatchers, NEW i \in batch'[d], NEW j \in batch'[e],
                      d # e, i.row = j.row, clock' < i.until, clock' < j.until
               PROVE  FALSE
    BY DEF LeaseIsExclusive
  <2>1. i \in batch[d] /\ j \in batch[e] /\ i \in Items /\ j \in Items
    BY DEF DispatchInv, DispatchTypeOK
  <2>2. clock < i.until /\ clock < j.until
    BY <2>1 DEF DispatchInv, DispatchTypeOK, Items
  <2> QED
    BY <2>1, <2>2 DEF DispatchInv, LeaseIsExclusive
<1> QED
  BY <1>1, <1>2, <1>3 DEF DispatchInv

\* The end of an item, or of the whole batch.
LEMMA BatchShrinks ==
  ASSUME DispatchInv, NEW d \in Dispatchers, Continue(d) \/ Stop(d)
  PROVE  /\ pc' \in [Dispatchers -> {"idle", "next"} \cup Sending]
         /\ batch' \in [Dispatchers -> SUBSET Items]
         /\ item' \in [Dispatchers -> Items \cup {None}]
         /\ \A e \in Dispatchers : batch'[e] \subseteq batch[e]
         /\ OwnItem'
<1>1. /\ pc \in [Dispatchers -> {"idle", "next"} \cup Sending]
      /\ batch \in [Dispatchers -> SUBSET Items]
      /\ item \in [Dispatchers -> Items \cup {None}]
      /\ OwnItem
  BY DEF DispatchInv, DispatchTypeOK
<1>2. PICK where \in {"idle", "next"}, rest \in SUBSET batch[d] :
        /\ pc' = [pc EXCEPT ![d] = where]
        /\ batch' = [batch EXCEPT ![d] = rest]
        /\ item' = [item EXCEPT ![d] = None]
  BY DEF Continue, Stop, Goto
<1>3. \A e \in Dispatchers : batch'[e] \subseteq batch[e]
  BY <1>1, <1>2
<1>4. OwnItem'
  <2> SUFFICES ASSUME NEW e \in Dispatchers, pc'[e] \in Sending PROVE item'[e] \in batch'[e]
    BY DEF OwnItem
  <2>1. e # d
    BY <1>1, <1>2 DEF Sending
  <2> QED
    BY <1>1, <1>2, <2>1 DEF OwnItem
<1> QED
  BY <1>1, <1>2, <1>3, <1>4

\* A step from one item's stage to the next, in the dispatcher alone.
LEMMA Moves ==
  ASSUME DispatchInv, NEW d \in Dispatchers, NEW where \in Sending, Goto(d, where),
         (item' = item /\ pc[d] \in Sending) \/ (\E i \in batch[d] : item' = [item EXCEPT ![d] = i]),
         UNCHANGED <<outbox, batch, clock>>
  PROVE  DispatchInv'
<1>1. /\ pc \in [Dispatchers -> {"idle", "next"} \cup Sending]
      /\ batch \in [Dispatchers -> SUBSET Items]
      /\ item \in [Dispatchers -> Items \cup {None}]
      /\ OwnItem /\ clock \in Nat /\ outbox \in Seq(Rows) /\ LeasesDated
  BY DEF DispatchInv, DispatchTypeOK
<1>2. /\ pc' \in [Dispatchers -> {"idle", "next"} \cup Sending]
      /\ item' \in [Dispatchers -> Items \cup {None}]
  BY <1>1 DEF Goto
<1>3. OwnItem'
  <2> SUFFICES ASSUME NEW e \in Dispatchers, pc'[e] \in Sending PROVE item'[e] \in batch[e]
    BY DEF OwnItem
  <2>1. CASE e = d
    BY <1>1, <2>1 DEF OwnItem
  <2>2. CASE e # d
    BY <1>1, <2>2 DEF OwnItem, Goto
  <2> QED
    BY <2>1, <2>2
<1>4. LeasesDated' /\ \A i \in Items : ItemInv(i) => ItemInv(i)'
  BY <1>1 DEF LeasesDated, ItemInv, NotDueBefore
<1> QED
  BY <1>1, <1>2, <1>3, <1>4, Kept

-----------------------------------------------------------------------------
(* The initial state and the steps.                                         *)

LEMMA InitInv == Init => DispatchInv
<1> SUFFICES ASSUME Init PROVE DispatchInv
  OBVIOUS
<1>1. outbox = <<>> /\ DOMAIN outbox = {} /\ outbox \in Seq(Rows)
  BY LenProperties DEF Init
<1>2. DispatchTypeOK
  BY <1>1 DEF Init, DispatchTypeOK
<1> QED
  BY <1>1, <1>2 DEF Init, DispatchInv, LeasesDated, BatchesHeld, OwnItem, LeaseIsExclusive, Sending

LEMMA EnqueueInv ==
  ASSUME DispatchInv, NEW channels \in SUBSET Channels, Enqueue(channels)
  PROVE  DispatchInv'
<1>1. /\ outbox \in Seq(Rows) /\ clock \in Nat
      /\ LeasesDated /\ OwnItem /\ DispatchTypeOK
  BY DEF DispatchInv, DispatchTypeOK
<1>2. /\ outbox' \in Seq(Rows) /\ DOMAIN outbox \subseteq DOMAIN outbox'
      /\ \A k \in DOMAIN outbox : outbox'[k] = outbox[k]
      /\ \A k \in DOMAIN outbox' \ DOMAIN outbox : outbox'[k].state = "PENDING"
  <2>1. DispatchTypeOK /\ 1 \in Nat /\ clock \in Nat /\ channels \in SUBSET Channels
    BY <1>1
  <2>2. PICK w : w = outbox'
    OBVIOUS
  <2>3. w = WithRows(1, channels, clock)
    BY <2>2 DEF Enqueue
  <2>4. w \in Seq(Rows) /\ DOMAIN outbox \subseteq DOMAIN w
    BY <2>1, <2>3, WithRowsAppends
  <2>5. \A k \in DOMAIN outbox : w[k] = outbox[k]
    BY ONLY <2>1, <2>3, WithRowsAppends, ZenonT(60)
  <2>6. \A k \in DOMAIN w \ DOMAIN outbox : w[k].state = "PENDING"
    BY <2>1, <2>3, WithRowsAppends
  <2> QED
    BY <2>2, <2>4, <2>5, <2>6
<1>3. LeasesDated'
  BY <1>1, <1>2 DEF LeasesDated
<1>4. \A i \in Items : ItemInv(i) => ItemInv(i)'
  BY <1>2 DEF ItemInv, NotDueBefore, Enqueue
<1> QED
  BY <1>1, <1>2, <1>3, <1>4, Kept DEF Enqueue, local, DispatchTypeOK, OwnItem

LEMMA ClaimInv ==
  ASSUME DispatchInv, NEW d \in Dispatchers, Claim(d)
  PROVE  DispatchInv'
<1>1. PICK S \in SUBSET Due(clock) :
        /\ Lease(S, clock)
        /\ batch' = [batch EXCEPT ![d] = {[row |-> k, attempts |-> outbox[k].attempts,
                                           until |-> clock + LeaseTime] : k \in S}]
  BY DEF Claim, Claimable
<1> DEFINE Claimed == {[row |-> k, attempts |-> outbox[k].attempts, until |-> clock + LeaseTime] : k \in S}
<1>2. /\ outbox \in Seq(Rows) /\ DOMAIN outbox = 1..Len(outbox) /\ Len(outbox) \in Nat
      /\ clock \in Nat /\ LeaseTime \in Nat \ {0} /\ S \subseteq DOMAIN outbox
      /\ batch \in [Dispatchers -> SUBSET Items]
  BY <1>1, LenProperties, OutboxAssumption DEF DispatchInv, DispatchTypeOK, Due
<1>3. \A k \in DOMAIN outbox :
        /\ outbox'[k] \in Rows
        /\ outbox'[k].state = "SENDING" => outbox'[k].next \in Nat
        /\ k \in S => outbox'[k].state = "SENDING" /\ outbox'[k].next = clock + LeaseTime
        /\ k \notin S => outbox'[k] = Recovered(outbox[k], clock)
  <2> SUFFICES ASSUME NEW k \in DOMAIN outbox
               PROVE  /\ outbox'[k] \in Rows
                      /\ outbox'[k].state = "SENDING" => outbox'[k].next \in Nat
                      /\ k \in S => outbox'[k].state = "SENDING" /\ outbox'[k].next = clock + LeaseTime
                      /\ k \notin S => outbox'[k] = Recovered(outbox[k], clock)
    OBVIOUS
  <2>1. outbox[k] \in Rows /\ (outbox[k].state = "SENDING" => outbox[k].next \in Nat)
    BY RowType DEF DispatchInv, LeasesDated
  <2>2. CASE k \in S
    <3> PICK old \in Rows, until \in Nat : old = outbox[k] /\ until = clock + LeaseTime
      BY <1>2, <2>1
    <3> DEFINE r == [[old EXCEPT !.state = "SENDING"] EXCEPT !.next = until]
    <3>1. outbox'[k] = r
      BY <1>1, <2>2 DEF Lease
    <3>2. r \in Rows /\ r.state = "SENDING" /\ r.next = until
      BY DEF Rows, States
    <3> HIDE DEF r
    <3> QED
      BY <1>2, <2>2, <3>1, <3>2
  <2>3. CASE k \notin S
    <3>1. outbox'[k] = Recovered(outbox[k], clock)
      BY <1>1, <2>3 DEF Lease
    <3> QED
      BY <2>1, <2>3, <3>1 DEF Recovered, Rows, States
  <2> QED
    BY <2>2, <2>3
<1>4. outbox' \in Seq(Rows) /\ DOMAIN outbox' = DOMAIN outbox
  <2>1. outbox' \in [1..Len(outbox) -> Rows]
    BY <1>1, <1>2, <1>3 DEF Lease
  <2> QED
    BY <1>2, <2>1
<1>5. Claimed \in SUBSET Items
  BY <1>2, RowType, SMTT(60) DEF Items, Rows, DispatchInv
<1>6. /\ batch' \in [Dispatchers -> SUBSET Items] /\ batch'[d] = Claimed
      /\ \A e \in Dispatchers : e # d => batch'[e] = batch[e]
  BY <1>1, <1>2, <1>5
<1>7. ASSUME NEW i \in Items, ItemInv(i) PROVE ItemInv(i)'
  <2>1. i.until <= clock' + LeaseTime /\ i.row \in DOMAIN outbox' /\ clock' = clock
    BY <1>4, <1>7 DEF ItemInv, Claim
  <2>2. CASE clock < i.until
    <3>1. outbox'[i.row] = outbox[i.row]
      BY <1>1, <1>3, <1>7, <2>2, HeldIsNotDue DEF ItemInv
    <3> QED
      BY <1>7, <2>1, <2>2, <3>1 DEF ItemInv, NotDueBefore
  <2>3. CASE ~(clock < i.until)
    BY <2>1, <2>3 DEF ItemInv, NotDueBefore
  <2> QED
    BY <2>2, <2>3
<1>8. \A i \in Claimed : ItemInv(i)'
  <2> SUFFICES ASSUME NEW k \in S, NEW i, i = [row |-> k, attempts |-> outbox[k].attempts, until |-> clock + LeaseTime]
               PROVE  ItemInv(i)'
    OBVIOUS
  <2>1. i.row = k /\ i.until = clock + LeaseTime /\ clock' = clock
    BY DEF Claim
  <2>2. i.row \in DOMAIN outbox' /\ outbox'[i.row].next = clock + LeaseTime
    BY <1>2, <1>3, <1>4, <2>1
  <2> QED
    BY <1>2, <2>1, <2>2 DEF ItemInv, NotDueBefore
<1>9. DispatchTypeOK'
  <2>1. item' \in [Dispatchers -> Items \cup {None}] /\ clock' \in Nat
    BY DEF Claim, DispatchInv, DispatchTypeOK
  <2>2. pc' \in [Dispatchers -> {"idle", "next"} \cup Sending]
    BY DEF Claim, Goto, DispatchInv, DispatchTypeOK
  <2> QED
    BY <1>4, <1>6, <2>1, <2>2 DEF DispatchTypeOK
<1>10. LeasesDated'
  BY <1>3, <1>4 DEF LeasesDated
<1>11. BatchesHeld'
  <2> SUFFICES ASSUME NEW e \in Dispatchers, NEW i \in batch'[e] PROVE ItemInv(i)'
    BY DEF BatchesHeld
  <2>1. CASE e = d
    BY <1>6, <1>8, <2>1
  <2>2. CASE e # d
    BY <1>2, <1>6, <1>7, <2>2 DEF DispatchInv, BatchesHeld
  <2> QED
    BY <2>1, <2>2
<1>12. OwnItem'
  <2> SUFFICES ASSUME NEW e \in Dispatchers, pc'[e] \in Sending PROVE item'[e] \in batch'[e]
    BY DEF OwnItem
  <2>1. e # d /\ pc[e] \in Sending
    BY DEF Claim, Goto, Sending, DispatchInv, DispatchTypeOK
  <2> QED
    BY <1>6, <2>1 DEF Claim, DispatchInv, OwnItem
<1>13. LeaseIsExclusive'
  <2>1. ASSUME NEW i \in Claimed, NEW e \in Dispatchers, e # d, NEW j \in batch[e], i.row = j.row
        PROVE  ~(clock < j.until)
    <3>1. i.row \in Due(clock) /\ j \in Items /\ ItemInv(j)
      BY <1>1, <1>2, <2>1 DEF DispatchInv, BatchesHeld
    <3> QED
      BY <2>1, <3>1, HeldIsNotDue
  <2> SUFFICES ASSUME NEW e \in Dispatchers, NEW g \in Dispatchers, NEW i \in batch'[e], NEW j \in batch'[g],
                      e # g, i.row = j.row, clock < i.until, clock < j.until
               PROVE  FALSE
    BY DEF LeaseIsExclusive, Claim
  <2>2. CASE e = d
    BY <1>6, <2>1, <2>2
  <2>3. CASE g = d
    BY <1>6, <2>1, <2>3
  <2>4. CASE e # d /\ g # d
    BY <1>6, <2>4 DEF DispatchInv, LeaseIsExclusive
  <2> QED
    BY <2>2, <2>3, <2>4
<1> QED
  BY <1>9, <1>10, <1>11, <1>12, <1>13 DEF DispatchInv

LEMMA TakeInv ==
  ASSUME DispatchInv, NEW d \in Dispatchers, Take(d)
  PROVE  DispatchInv'
<1>1. PICK i \in batch[d], where \in Sending : item' = [item EXCEPT ![d] = i] /\ Goto(d, where)
  BY Zenon DEF Take, Sending
<1> QED
  BY <1>1, Moves DEF Take, DispatchInv, DispatchTypeOK

LEMMA SendInv ==
  ASSUME DispatchInv, NEW d \in Dispatchers, Send(d)
  PROVE  DispatchInv'
<1>1. PICK where \in Sending : Goto(d, where)
  BY DEF Send, Sending
<1>2. pc[d] \in Sending
  BY DEF Send, Sending
<1> QED
  BY <1>1, <1>2, Moves DEF Send, DispatchInv, DispatchTypeOK

LEMMA DisableInv ==
  ASSUME DispatchInv, NEW d \in Dispatchers, Disable(d)
  PROVE  DispatchInv'
<1> DEFINE k == item[d].row
<1>1. /\ item[d] \in batch[d] /\ item[d] \in Items /\ ItemInv(item[d]) /\ pc[d] \in Sending
      /\ clock \in Nat
  BY DEF Disable, Sending, DispatchInv, DispatchTypeOK, OwnItem, BatchesHeld
<1>2. k \in DOMAIN outbox /\ item[d].attempts \in Nat
  BY <1>1 DEF ItemInv, Items
<1>3. CASE Mark(k, "DISABLED", item[d].attempts, None) /\ Continue(d)
  <2>1. /\ outbox' \in Seq(Rows) /\ DOMAIN outbox' = DOMAIN outbox /\ LeasesDated'
        /\ \A i \in Items : ItemInv(i) => ItemInv(i)'
    BY <1>2, <1>3, MarkHolds DEF Disable, Final
  <2> QED
    BY <1>1, <1>3, <2>1, BatchShrinks, Kept DEF Disable
<1>4. CASE Goto(d, "failed") /\ UNCHANGED <<outbox, batch, item>>
  BY <1>1, <1>4, Moves DEF Disable, Sending
<1> QED
  BY <1>3, <1>4 DEF Disable

LEMMA MarkDeliveredInv ==
  ASSUME DispatchInv, NEW d \in Dispatchers, MarkDelivered(d)
  PROVE  DispatchInv'
<1> DEFINE k == item[d].row
           n == item[d].attempts + (IF outbox[k].channel = "WEBHOOK" THEN 1 ELSE 0)
<1>1. /\ item[d] \in batch[d] /\ item[d] \in Items /\ ItemInv(item[d]) /\ pc[d] \in Sending
      /\ clock \in Nat
  BY DEF MarkDelivered, Sending, DispatchInv, DispatchTypeOK, OwnItem, BatchesHeld
<1>2. k \in DOMAIN outbox /\ n \in Nat
  BY <1>1 DEF ItemInv, Items
<1>3. CASE Mark(k, "DELIVERED", n, None) /\ Continue(d)
  <2>1. /\ outbox' \in Seq(Rows) /\ DOMAIN outbox' = DOMAIN outbox /\ LeasesDated'
        /\ \A i \in Items : ItemInv(i) => ItemInv(i)'
    BY <1>2, <1>3, MarkHolds DEF MarkDelivered, Final
  <2> QED
    BY <1>1, <1>3, <2>1, BatchShrinks, Kept DEF MarkDelivered
<1>4. CASE Goto(d, "failed") /\ UNCHANGED <<outbox, batch, item>>
  BY <1>1, <1>4, Moves DEF MarkDelivered, Sending
<1> QED
  BY <1>3, <1>4 DEF MarkDelivered

LEMMA MarkFailedInv ==
  ASSUME DispatchInv, NEW d \in Dispatchers, MarkFailed(d)
  PROVE  DispatchInv'
<1> DEFINE k == item[d].row
           n == item[d].attempts + 1
<1>1. /\ item[d] \in batch[d] /\ item[d] \in Items /\ ItemInv(item[d]) /\ outbox \in Seq(Rows)
      /\ clock \in Nat /\ LeasesDated
  BY DEF MarkFailed, Sending, DispatchInv, DispatchTypeOK, OwnItem, BatchesHeld
<1>2. k \in DOMAIN outbox /\ n \in Nat /\ n >= 1
  BY <1>1 DEF ItemInv, Items
<1>3. clock + RetryDelay * n \in Nat /\ clock + RetryDelay * n >= clock + LeaseTime
  <2>1. RetryDelay \in Nat /\ LeaseTime \in Nat /\ LeaseTime <= RetryDelay
    BY OutboxAssumption, DispatchAssumption, LeaseWithinRetry
  <2>2. RetryDelay * n \in Nat /\ RetryDelay * n >= RetryDelay
    BY <1>2, <2>1
  <2> QED
    BY <1>1, <2>1, <2>2
<1>4. CASE Mark(k, "FAILED", n, None) /\ Continue(d)
  <2>1. /\ outbox' \in Seq(Rows) /\ DOMAIN outbox' = DOMAIN outbox /\ LeasesDated'
        /\ \A i \in Items : ItemInv(i) => ItemInv(i)'
    BY <1>2, <1>4, MarkHolds DEF MarkFailed, Final
  <2> QED
    BY <1>1, <1>4, <2>1, BatchShrinks, Kept DEF MarkFailed
<1>5. CASE Mark(k, "PENDING", n, clock + RetryDelay * n) /\ Continue(d)
  <2>1. /\ outbox' \in Seq(Rows) /\ DOMAIN outbox' = DOMAIN outbox /\ LeasesDated'
        /\ \A i \in Items : ItemInv(i) => ItemInv(i)'
    BY <1>2, <1>3, <1>5, MarkHolds DEF MarkFailed
  <2> QED
    BY <1>1, <1>5, <2>1, BatchShrinks, Kept DEF MarkFailed
<1>6. CASE Stop(d) /\ UNCHANGED outbox
  <2>1. LeasesDated' /\ \A i \in Items : ItemInv(i) => ItemInv(i)'
    BY <1>1, <1>6 DEF MarkFailed, LeasesDated, ItemInv, NotDueBefore
  <2> QED
    BY <1>1, <1>6, <2>1, BatchShrinks, Kept DEF MarkFailed
<1> QED
  BY <1>4, <1>5, <1>6 DEF MarkFailed

LEMMA AbortInv ==
  ASSUME DispatchInv, NEW d \in Dispatchers, Abort(d)
  PROVE  DispatchInv'
<1>1. outbox \in Seq(Rows) /\ clock \in Nat /\ LeasesDated
  BY DEF DispatchInv, DispatchTypeOK
<1>2. LeasesDated' /\ \A i \in Items : ItemInv(i) => ItemInv(i)'
  BY <1>1 DEF Abort, LeasesDated, ItemInv, NotDueBefore
<1> QED
  BY <1>1, <1>2, BatchShrinks, Kept DEF Abort

LEMMA SendBreaksInv ==
  ASSUME DispatchInv, NEW d \in Dispatchers, SendBreaks(d)
  PROVE  DispatchInv'
<1>1. outbox \in Seq(Rows) /\ clock \in Nat /\ LeasesDated
  BY DEF DispatchInv, DispatchTypeOK
<1>2. LeasesDated' /\ \A i \in Items : ItemInv(i) => ItemInv(i)'
  BY <1>1 DEF SendBreaks, LeasesDated, ItemInv, NotDueBefore
<1> QED
  BY <1>1, <1>2, BatchShrinks, Kept DEF SendBreaks

LEMMA TickInv ==
  ASSUME DispatchInv, Tick
  PROVE  DispatchInv'
<1>1. DispatchTypeOK /\ LeasesDated /\ OwnItem /\ clock \in Nat /\ clock' = clock + 1
  BY DEF DispatchInv, DispatchTypeOK, Tick
<1>2. LeasesDated' /\ OwnItem'
  BY <1>1 DEF Tick, local, LeasesDated, OwnItem
<1>3. ASSUME NEW i \in Items, ItemInv(i) PROVE ItemInv(i)'
  BY <1>1, <1>3, OutboxAssumption DEF Tick, local, ItemInv, NotDueBefore, Items
<1> QED
  BY <1>1, <1>2, <1>3, Kept DEF Tick, local, DispatchTypeOK

LEMMA StepInv == DispatchInv /\ [Next]_vars => DispatchInv'
<1> SUFFICES ASSUME DispatchInv, [Next]_vars PROVE DispatchInv'
  OBVIOUS
<1>1. CASE UNCHANGED vars
  BY <1>1 DEF vars, local, DispatchInv, DispatchTypeOK, LeasesDated, BatchesHeld, ItemInv, NotDueBefore, OwnItem, LeaseIsExclusive
<1>2. CASE \E channels \in (SUBSET Channels) \ {{}} : Enqueue(channels)
  BY <1>2, EnqueueInv
<1>3. ASSUME NEW d \in Dispatchers, Dispatch(d) PROVE DispatchInv'
  BY <1>3, ClaimInv, TakeInv, SendInv, SendBreaksInv, DisableInv, MarkDeliveredInv, MarkFailedInv DEF Dispatch
<1>4. CASE \E d \in Dispatchers : Abort(d)
  BY <1>4, AbortInv
<1>5. CASE Tick
  BY <1>5, TickInv
<1> QED
  BY <1>1, <1>2, <1>3, <1>4, <1>5 DEF Next

-----------------------------------------------------------------------------
(* What is promised.                                                        *)

\* Claims, marks, sends that break, crashes and the passing of time keep the row of every item whose
\* lease runs settled or out of the reach of other claims: the invariant the next
\* theorem rests on.
THEOREM DispatchInvariant == Spec => []DispatchInv
<1> QED
  BY InitInv, StepInv, PTL DEF Spec

\* Of two dispatchers never both hold a running lease on one row, however often rows
\* are leased again, settled twice or left by a crash (claim_pending_outbox(),
\* mark_outbox(), dispatch_pending()).
THEOREM LeaseIsExclusiveHolds == Spec => []LeaseIsExclusive
<1> QED
  BY DispatchInvariant, PTL DEF DispatchInv

-----------------------------------------------------------------------------
(* LiveUpdates.                                                            *)

Stream == [queue : Seq(Nat), registered : BOOLEAN, joined : BOOLEAN, since : Nat, sent : Seq(Nat), open : BOOLEAN]

LiveTypeOK ==
  /\ published \in Nat /\ page \in Nat
  /\ streams \in Seq(Stream)
  /\ hub \in [todo : SUBSET DOMAIN streams, at : Nat, step : {"none", "put", "drop", "sentinel"},
              dead : SUBSET DOMAIN streams]

\* The call in progress: it is at one of the streams it has still to do, and they are
\* registered, before the event it puts, as long as it holds the lock.
HubInv ==
  /\ Unlocked => hub = NoCall
  /\ hub.step = "put" => hub.at = 0
  /\ hub.step \in {"drop", "sentinel"} => hub.at \in hub.todo
  /\ hub.todo \cap hub.dead = {}
  /\ \A c \in hub.todo \cup hub.dead : streams[c].registered
  /\ \A c \in hub.todo : streams[c].since < published

\* A stream the browser can read is complete as long as the hub serves it, else it ends;
\* where the hub found it full, it holds older events only.
Older(c) == \A i \in 1..Len(streams[c].queue) : streams[c].queue[i] \in 1..(published - 1)
StreamInv(c) ==
  LET s == streams[c]
  IN /\ s.registered => s.joined
     /\ s.since <= published
     /\ ~s.joined => s.queue = <<>> /\ s.sent = <<>>
     /\ s.open /\ s.joined =>
          IF c = hub.at THEN Older(c)
          ELSE IF s.registered /\ c \notin hub.dead THEN Complete(c) ELSE Ends(c)

LiveInv == LiveTypeOK /\ HubInv /\ \A c \in DOMAIN streams : StreamInv(c)

-----------------------------------------------------------------------------
(* Sequences of consecutive numbers.                                        *)

Consecutive(s, from, n) == s = [i \in 1..n |-> from + i]

\* The next number continues the sequence.
LEMMA ConsecutiveNext ==
  ASSUME NEW t \in Seq(Nat), NEW from \in Nat, NEW n \in Nat, NEW e \in Nat, e = from + n + 1,
         Consecutive(t, from, n)
  PROVE  Consecutive(Append(t, e), from, n + 1)
<1>1. Len(t) = n /\ \A i \in 1..n : t[i] = from + i
  BY DEF Consecutive
<1>2. /\ Append(t, e) \in Seq(Nat) /\ Len(Append(t, e)) = n + 1
      /\ \A i \in 1..n : Append(t, e)[i] = t[i]
      /\ Append(t, e)[n + 1] = e
  BY <1>1, AppendProperties
<1>3. \A i \in 1..(n + 1) : Append(t, e)[i] = from + i
  BY <1>1, <1>2, SMTT(60)
<1>4. Append(t, e) = [i \in 1..(n + 1) |-> from + i]
  BY <1>2, <1>3
<1> QED
  BY <1>4 DEF Consecutive

\* It does so when it comes to the queue.
LEMMA ConsecutiveAppend ==
  ASSUME NEW s \in Seq(Nat), NEW q \in Seq(Nat), NEW from \in Nat, NEW n \in Nat, NEW e \in Nat, e = from + n + 1,
         Consecutive(s \o q, from, n)
  PROVE  Consecutive(s \o Append(q, e), from, n + 1)
<1>1. s \o q \in Seq(Nat) /\ <<e>> \in Seq(Nat)
  BY ConcatProperties
<1>2. Append(q, e) = q \o <<e>> /\ Append(s \o q, e) = (s \o q) \o <<e>>
  BY <1>1, AppendIsConcat
<1>3. s \o (q \o <<e>>) = (s \o q) \o <<e>>
  BY <1>1, ConcatAssociative, SMTT(60)
<1>4. Consecutive(Append(s \o q, e), from, n + 1)
  BY <1>1, ConsecutiveNext
<1> QED
  BY <1>2, <1>3, <1>4

\* What moves from the queue to the browser is still shown, in its place.
LEMMA MoveHead ==
  ASSUME NEW s \in Seq(Nat), NEW q \in Seq(Nat), q # <<>>
  PROVE  Append(s, Head(q)) \o Tail(q) = s \o q
<1>1. Head(q) \in Nat /\ Tail(q) \in Seq(Nat) /\ <<Head(q)>> \in Seq(Nat)
  BY HeadTailProperties
<1>2. Append(s, Head(q)) = s \o <<Head(q)>>
  BY <1>1, AppendIsConcat
<1>3. <<Head(q)>> \o Tail(q) = q
  <2>1. /\ Len(Tail(q)) = Len(q) - 1 /\ Len(q) \in Nat \ {0}
        /\ \A i \in 1..Len(Tail(q)) : Tail(q)[i] = q[i + 1]
    BY HeadTailProperties, EmptySeq
  <2>2. <<Head(q)>> \o Tail(q) \in Seq(Nat) /\ Len(<<Head(q)>> \o Tail(q)) = Len(q)
    BY <1>1, <2>1, ConcatProperties
  <2>3. \A i \in 1..Len(q) : (<<Head(q)>> \o Tail(q))[i] = q[i]
    BY <1>1, <2>1, ConcatProperties
  <2> QED
    BY <2>2, <2>3, SeqEqual
<1>4. (s \o <<Head(q)>>) \o Tail(q) = s \o (<<Head(q)>> \o Tail(q))
  BY <1>1, ConcatAssociative, SMTT(60)
<1> QED
  BY <1>2, <1>3, <1>4

\* The numbers still in the queue are among those of the sequence.
LEMMA ConsecutiveBounds ==
  ASSUME NEW s \in Seq(Nat), NEW q \in Seq(Nat), NEW from \in Nat, NEW n \in Nat,
         Consecutive(s \o q, from, n)
  PROVE  \A i \in 1..Len(q) : q[i] \in (from + 1)..(from + n)
<1> SUFFICES ASSUME NEW i \in 1..Len(q) PROVE q[i] \in (from + 1)..(from + n)
  OBVIOUS
<1>1. Len(s) \in Nat /\ Len(q) \in Nat
  BY LenProperties
<1>2. Len(s \o q) = n /\ Len(s \o q) = Len(s) + Len(q)
  BY ConcatProperties DEF Consecutive
<1>3. (s \o q)[Len(s) + i] = q[i]
  BY <1>1, ConcatProperties
<1>4. (s \o q)[Len(s) + i] = from + (Len(s) + i)
  BY <1>1, <1>2 DEF Consecutive
<1> QED
  BY <1>1, <1>2, <1>3, <1>4
-----------------------------------------------------------------------------
(* The streams.                                                             *)

\* One stream gets a new record, the others keep theirs.
LEMMA SetStream ==
  ASSUME LiveTypeOK, NEW c \in DOMAIN streams, NEW r \in Stream, streams' = [streams EXCEPT ![c] = r]
  PROVE  /\ streams' \in Seq(Stream) /\ DOMAIN streams' = DOMAIN streams
         /\ streams'[c] = r
         /\ \A d \in DOMAIN streams \ {c} : streams'[d] = streams[d]
<1>1. streams \in Seq(Stream) /\ DOMAIN streams = 1..Len(streams)
  BY LenProperties DEF LiveTypeOK
<1>2. /\ streams' \in Seq(Stream) /\ Len(streams') = Len(streams)
      /\ \A d \in 1..Len(streams) : streams'[d] = IF d = c THEN r ELSE streams[d]
  BY <1>1, ExceptSeq
<1>3. DOMAIN streams' = 1..Len(streams')
  BY <1>2, LenProperties
<1> QED
  BY <1>1, <1>2, <1>3

LEMMA StreamType ==
  ASSUME LiveTypeOK, NEW c \in DOMAIN streams
  PROVE  streams[c] \in Stream /\ c \in Nat \ {0}
<1>1. streams \in Seq(Stream) /\ DOMAIN streams = 1..Len(streams) /\ Len(streams) \in Nat
  BY LenProperties DEF LiveTypeOK
<1> QED
  BY <1>1, ElementOfSeq

LEMMA CompleteIsConsecutive ==
  ASSUME NEW c
  PROVE  Complete(c) <=>
           Consecutive(streams[c].sent \o streams[c].queue, streams[c].since,
                       published - streams[c].since - IF c \in hub.todo THEN 1 ELSE 0)
BY DEF Complete, Consecutive

\* A step that leaves a stream alone, and what the hub does with it, leaves it sound.
LEMMA StreamFrame ==
  ASSUME NEW c, StreamInv(c), streams'[c] = streams[c], published' = published,
         c = hub'.at <=> c = hub.at, c \in hub'.todo <=> c \in hub.todo, c \in hub'.dead <=> c \in hub.dead
  PROVE  StreamInv(c)'
BY ZenonT(60) DEF StreamInv, Complete, Ends, Older

-----------------------------------------------------------------------------
(* The steps of the hub.                                                    *)

LEMMA LiveInitInv == LiveInit => LiveInv
BY DEF LiveInit, LiveInv, LiveTypeOK, HubInv, Unlocked, NoCall, StreamInv

\* The streams that are served are behind by the event that is put, and by no other.
LEMMA PublishInv ==
  ASSUME LiveInv, Publish
  PROVE  LiveInv'
<1> USE DEF LiveInv
<1>1. /\ hub = NoCall /\ published \in Nat
      /\ published' = published + 1 /\ streams' = streams /\ page' = page
      /\ hub' = [todo |-> Registered, at |-> 0, step |-> "put", dead |-> {}]
  BY DEF HubInv, Publish, NoCall, LiveTypeOK
<1>2. LiveTypeOK'
  BY <1>1 DEF LiveTypeOK, Registered
<1>3. HubInv'
  <2>1. \A c \in DOMAIN streams : streams[c].since < published'
    BY <1>1, StreamType DEF StreamInv, Stream
  <2> QED
    BY <1>1, <2>1 DEF HubInv, Unlocked, Registered
<1>4. ASSUME NEW c \in DOMAIN streams PROVE StreamInv(c)'
  <2>1. StreamInv(c) /\ streams[c] \in Stream /\ c # 0
    BY StreamType
  <2>2. hub.at = 0 /\ hub.todo = {} /\ hub.dead = {}
    BY <1>1 DEF NoCall
  <2>3. streams[c].since <= published' /\ streams[c].since <= published
    BY <1>1, <2>1 DEF StreamInv, Stream
  <2>4. ASSUME Complete(c), streams[c].registered PROVE Complete(c)'
    <3>1. c \in hub'.todo /\ c \notin hub.todo
      BY <1>1, <2>2, <2>4 DEF Registered
    <3>2. published' - streams[c].since - 1 = published - streams[c].since - 0
      BY <1>1, <2>1 DEF Stream
    <3> QED
      BY <1>1, <2>4, <3>1, <3>2 DEF Complete
  <2>5. ASSUME Ends(c) PROVE Ends(c)'
    BY <1>1, <2>2, <2>5 DEF Ends
  <2> QED
    BY <1>1, <2>1, <2>2, <2>3, <2>4, <2>5 DEF StreamInv
<1> QED
  BY <1>1, <1>2, <1>3, <1>4

\* A stream with room gets the event and is complete; a full one is not, and is dealt with.
LEMMA PutInv ==
  ASSUME LiveInv, NEW c \in DOMAIN streams, Put(c)
  PROVE  LiveInv'
<1> USE DEF LiveInv
<1>1. /\ streams[c] \in Stream /\ c \in Nat \ {0} /\ published \in Nat
      /\ hub.step = "put" /\ c \in hub.todo /\ hub.at = 0
      /\ published' = published /\ page' = page
      /\ StreamInv(c) /\ streams[c].registered /\ c \notin hub.dead
      /\ streams[c].since < published /\ streams[c].joined
      /\ streams[c].since \in Nat /\ streams[c].queue \in Seq(Nat) /\ streams[c].sent \in Seq(Nat)
  BY StreamType DEF Put, LiveTypeOK, HubInv, StreamInv, Stream
<1>2. hub \in [todo : SUBSET DOMAIN streams, at : Nat, step : {"none", "put", "drop", "sentinel"},
               dead : SUBSET DOMAIN streams]
  BY DEF LiveTypeOK
<1> DEFINE n == published - streams[c].since - 1
<1>3. n \in Nat /\ (streams[c].open => Consecutive(streams[c].sent \o streams[c].queue, streams[c].since, n))
  BY <1>1, CompleteIsConsecutive DEF StreamInv
<1>4. CASE Len(streams[c].queue) < QueueSize
  <2> DEFINE r == [streams[c] EXCEPT !.queue = Append(streams[c].queue, published)]
  <2>1. streams' = [streams EXCEPT ![c] = r] /\ hub' = [hub EXCEPT !.todo = hub.todo \ {c}]
    BY <1>4 DEF Put
  <2>2. Append(streams[c].queue, published) \in Seq(Nat)
    BY <1>1, AppendProperties
  <2>3. r \in Stream
    BY <1>1, <2>2 DEF Stream
  <2>4. /\ r.queue = Append(streams[c].queue, published) /\ r.registered = streams[c].registered
        /\ r.joined = streams[c].joined /\ r.since = streams[c].since
        /\ r.sent = streams[c].sent /\ r.open = streams[c].open
    BY <1>1 DEF Stream
  <2> HIDE DEF r
  <2>5. /\ streams' \in Seq(Stream) /\ DOMAIN streams' = DOMAIN streams /\ streams'[c] = r
        /\ \A d \in DOMAIN streams \ {c} : streams'[d] = streams[d]
    BY <2>1, <2>3, SetStream
  <2>6. hub'.todo = hub.todo \ {c} /\ hub'.at = 0 /\ hub'.step = "put" /\ hub'.dead = hub.dead
    BY <1>1, <1>2, <2>1
  <2>7. LiveTypeOK'
    BY <1>1, <1>2, <2>1, <2>5, <2>6 DEF LiveTypeOK
  <2>8. HubInv'
    BY <1>1, <1>2, <2>4, <2>5, <2>6 DEF HubInv, Unlocked
  <2>9. ASSUME NEW d \in DOMAIN streams, d # c PROVE StreamInv(d)'
    BY <1>1, <2>5, <2>6, <2>9, StreamFrame
  <2>10. streams[c].open => Complete(c)'
    <3> SUFFICES ASSUME streams[c].open PROVE Complete(c)'
      OBVIOUS
    <3>0. published = streams[c].since + n + 1
      BY <1>1
    <3>1. Consecutive(streams[c].sent \o Append(streams[c].queue, published), streams[c].since, n + 1)
      BY <1>1, <1>3, <3>0, ConsecutiveAppend
    <3>2. published - r.since - 0 = n + 1
      BY <1>1, <2>4
    <3>3. streams'[c].sent = streams[c].sent /\ streams'[c].queue = Append(streams[c].queue, published)
      BY <2>4, <2>5
    <3>4. streams'[c].since = streams[c].since /\ c \notin hub'.todo /\ published' = published
      BY <1>1, <2>4, <2>5, <2>6
    <3>5. published' - streams'[c].since - (IF c \in hub'.todo THEN 1 ELSE 0) = n + 1
      BY <1>1, <3>4
    <3> HIDE DEF n
    <3> QED
      BY ONLY <3>1, <3>3, <3>4, <3>5 DEF Complete, Consecutive
  <2>11. StreamInv(c)'
    BY <1>1, <2>4, <2>5, <2>6, <2>10 DEF StreamInv
  <2> QED
    BY <2>5, <2>7, <2>8, <2>9, <2>11
<1>5. CASE ~(Len(streams[c].queue) < QueueSize)
  <2>1. streams' = streams /\ hub' = [hub EXCEPT !.at = c, !.step = "drop"]
    BY <1>5 DEF Put
  <2>2. hub'.todo = hub.todo /\ hub'.at = c /\ hub'.step = "drop" /\ hub'.dead = hub.dead
    BY <1>2, <2>1
  <2>3. LiveTypeOK'
    BY <1>1, <1>2, <2>1, <2>2 DEF LiveTypeOK
  <2>4. HubInv'
    BY <1>1, <2>1, <2>2 DEF HubInv, Unlocked
  <2>5. ASSUME NEW d \in DOMAIN streams, d # c PROVE StreamInv(d)'
    <3>1. d # 0
      BY StreamType
    <3> QED
      BY <1>1, <2>1, <2>2, <2>5, <3>1, StreamFrame
  <2>6. streams[c].open => Older(c)
    <3>1. streams[c].open =>
            \A i \in 1..Len(streams[c].queue) :
              streams[c].queue[i] \in (streams[c].since + 1)..(streams[c].since + n)
      BY <1>1, <1>3, ConsecutiveBounds
    <3>2. (streams[c].since + 1)..(streams[c].since + n) \subseteq 1..(published - 1)
      BY <1>1
    <3> QED
      BY <3>1, <3>2 DEF Older
  <2>7. StreamInv(c)'
    BY <1>1, <2>1, <2>2, <2>6 DEF StreamInv, Older
  <2> QED
    BY <2>1, <2>3, <2>4, <2>5, <2>7
<1> QED
  BY <1>4, <1>5

LEMMA DropOldestInv ==
  ASSUME LiveInv, DropOldest
  PROVE  LiveInv'
<1> USE DEF LiveInv
<1>0. PICK c \in DOMAIN streams : c = hub.at
  BY DEF DropOldest, HubInv, LiveTypeOK
<1>1. /\ c = hub.at /\ streams[c] \in Stream /\ c \in Nat \ {0} /\ published \in Nat
      /\ hub.step = "drop" /\ c \in hub.todo
      /\ published' = published /\ page' = page
      /\ StreamInv(c) /\ streams[c].queue \in Seq(Nat)
  BY <1>0, StreamType DEF DropOldest, LiveTypeOK, HubInv, Stream
<1>2. hub \in [todo : SUBSET DOMAIN streams, at : Nat, step : {"none", "put", "drop", "sentinel"},
               dead : SUBSET DOMAIN streams]
  BY DEF LiveTypeOK
<1> DEFINE q == IF streams[c].queue = <<>> THEN streams[c].queue ELSE Tail(streams[c].queue)
           r == [streams[c] EXCEPT !.queue = q]
<1>3. streams' = [streams EXCEPT ![c] = r] /\ hub' = [hub EXCEPT !.step = "sentinel"]
  BY <1>1 DEF DropOldest
<1>4. q \in Seq(Nat) /\ (Older(c) => \A i \in 1..Len(q) : q[i] \in 1..(published - 1))
  <2>1. CASE streams[c].queue = <<>>
    BY <1>1, <2>1 DEF Older
  <2>2. CASE streams[c].queue # <<>>
    BY <1>1, <2>2, HeadTailProperties, LenProperties DEF Older
  <2> QED
    BY <2>1, <2>2
<1> HIDE DEF q
<1>5. r \in Stream
  BY <1>1, <1>4 DEF Stream
<1>6. /\ r.queue = q /\ r.registered = streams[c].registered
      /\ r.joined = streams[c].joined /\ r.since = streams[c].since
      /\ r.sent = streams[c].sent /\ r.open = streams[c].open
  BY <1>1 DEF Stream
<1> HIDE DEF r
<1>7. /\ streams' \in Seq(Stream) /\ DOMAIN streams' = DOMAIN streams /\ streams'[c] = r
      /\ \A d \in DOMAIN streams \ {c} : streams'[d] = streams[d]
  BY <1>1, <1>3, <1>5, SetStream
<1>8. hub'.todo = hub.todo /\ hub'.at = c /\ hub'.step = "sentinel" /\ hub'.dead = hub.dead
  BY <1>1, <1>2, <1>3
<1>9. LiveTypeOK'
  BY <1>1, <1>2, <1>3, <1>7, <1>8 DEF LiveTypeOK
<1>10. HubInv'
  BY <1>1, <1>2, <1>6, <1>7, <1>8 DEF HubInv, Unlocked
<1>11. ASSUME NEW d \in DOMAIN streams, d # c PROVE StreamInv(d)'
  BY <1>1, <1>7, <1>8, <1>11, StreamFrame
<1>12. StreamInv(c)'
  <2>1. streams[c].joined
    BY <1>1 DEF HubInv, StreamInv
  <2> QED
    BY <1>1, <1>4, <1>6, <1>7, <1>8, <2>1 DEF StreamInv, Older
<1> QED
  BY <1>7, <1>9, <1>10, <1>11, <1>12

\* The stream that lost an event ends with the sentinel, and nothing newer is on it.
LEMMA PutSentinelInv ==
  ASSUME LiveInv, PutSentinel
  PROVE  LiveInv'
<1> USE DEF LiveInv
<1>0. PICK c \in DOMAIN streams : c = hub.at
  BY DEF PutSentinel, HubInv, LiveTypeOK
<1>1. /\ c = hub.at /\ streams[c] \in Stream /\ c \in Nat \ {0} /\ published \in Nat
      /\ hub.step = "sentinel" /\ c \in hub.todo /\ streams[c].registered /\ streams[c].joined
      /\ published' = published /\ page' = page
      /\ StreamInv(c) /\ streams[c].queue \in Seq(Nat)
  BY <1>0, StreamType DEF PutSentinel, LiveTypeOK, HubInv, StreamInv, Stream
<1>2. hub \in [todo : SUBSET DOMAIN streams, at : Nat, step : {"none", "put", "drop", "sentinel"},
               dead : SUBSET DOMAIN streams]
  BY DEF LiveTypeOK
<1> DEFINE q == Append(streams[c].queue, 0)
           r == [streams[c] EXCEPT !.queue = q]
<1>3. /\ streams' = [streams EXCEPT ![c] = r]
      /\ hub' = [todo |-> hub.todo \ {c}, at |-> 0, step |-> "put", dead |-> hub.dead \union {c}]
  BY <1>1 DEF PutSentinel, WithSentinel
<1>4. /\ q \in Seq(Nat) /\ q # <<>> /\ Last(q) = 0
      /\ Older(c) => \A i \in 1..(Len(q) - 1) : q[i] \in 1..(published - 1)
  <2>1. Len(streams[c].queue) \in Nat
    BY <1>1, LenProperties
  <2>2. /\ q \in Seq(Nat) /\ q # <<>> /\ Len(q) = Len(streams[c].queue) + 1
        /\ \A i \in 1..Len(streams[c].queue) : q[i] = streams[c].queue[i]
        /\ q[Len(streams[c].queue) + 1] = 0
    BY <1>1, AppendProperties, SMTT(60)
  <2> QED
    BY <2>1, <2>2 DEF Older, Last
<1> HIDE DEF q
<1>5. r \in Stream
  BY <1>1, <1>4 DEF Stream
<1>6. /\ r.queue = q /\ r.registered = streams[c].registered
      /\ r.joined = streams[c].joined /\ r.since = streams[c].since
      /\ r.sent = streams[c].sent /\ r.open = streams[c].open
  BY <1>1 DEF Stream
<1> HIDE DEF r
<1>7. /\ streams' \in Seq(Stream) /\ DOMAIN streams' = DOMAIN streams /\ streams'[c] = r
      /\ \A d \in DOMAIN streams \ {c} : streams'[d] = streams[d]
  BY <1>1, <1>3, <1>5, SetStream
<1>8. /\ hub'.todo = hub.todo \ {c} /\ hub'.at = 0 /\ hub'.step = "put" /\ hub'.dead = hub.dead \cup {c}
  BY <1>3
<1>9. LiveTypeOK'
  BY <1>1, <1>2, <1>3, <1>7, <1>8 DEF LiveTypeOK
<1>10. HubInv'
  BY <1>1, <1>2, <1>6, <1>7, <1>8, ZenonT(60) DEF HubInv, Unlocked
<1>11. ASSUME NEW d \in DOMAIN streams, d # c PROVE StreamInv(d)'
  <2>1. d # 0
    BY StreamType
  <2> QED
    BY <1>1, <1>7, <1>8, <1>11, <2>1, StreamFrame
<1>12. StreamInv(c)'
  <2>1. streams[c].open => Ends(c)'
    BY <1>1, <1>4, <1>6, <1>7, <1>8 DEF StreamInv, Ends
  <2> QED
    BY <1>1, <1>6, <1>7, <1>8, <2>1 DEF StreamInv
<1> QED
  BY <1>7, <1>9, <1>10, <1>11, <1>12

\* The streams that were given the sentinel are served no more, the others are as before.
LEMMA DiscardInv ==
  ASSUME LiveInv, Discard
  PROVE  LiveInv'
<1> USE DEF LiveInv
<1>1. /\ published' = published /\ page' = page /\ published \in Nat /\ page \in Nat
      /\ hub' = NoCall /\ hub.todo = {} /\ hub.at = 0
      /\ streams \in Seq(Stream) /\ DOMAIN streams = 1..Len(streams) /\ Len(streams) \in Nat
  BY LenProperties DEF Discard, HubInv, LiveTypeOK
<1>2. hub'.todo = {} /\ hub'.at = 0 /\ hub'.step = "none" /\ hub'.dead = {}
  BY <1>1 DEF NoCall
<1>3. DOMAIN streams' = DOMAIN streams
  BY DEF Discard
<1>4. \A c \in DOMAIN streams :
        /\ streams'[c] \in Stream
        /\ streams'[c].registered <=> streams[c].registered /\ c \notin hub.dead
        /\ streams'[c].queue = streams[c].queue /\ streams'[c].joined = streams[c].joined
        /\ streams'[c].since = streams[c].since /\ streams'[c].sent = streams[c].sent
        /\ streams'[c].open = streams[c].open
  <2> SUFFICES ASSUME NEW c \in DOMAIN streams
               PROVE  /\ streams'[c] \in Stream
                      /\ streams'[c].registered <=> streams[c].registered /\ c \notin hub.dead
                      /\ streams'[c].queue = streams[c].queue /\ streams'[c].joined = streams[c].joined
                      /\ streams'[c].since = streams[c].since /\ streams'[c].sent = streams[c].sent
                      /\ streams'[c].open = streams[c].open
    OBVIOUS
  <2>1. streams[c] \in Stream
    BY StreamType
  <2>2. PICK b \in BOOLEAN : b <=> streams[c].registered /\ c \notin hub.dead
    OBVIOUS
  <2>3. streams'[c] = [streams[c] EXCEPT !.registered = b]
    BY <2>1, <2>2 DEF Discard
  <2> QED
    BY <2>1, <2>2, <2>3 DEF Stream
<1>5. streams' \in Seq(Stream)
  <2>1. streams' \in [1..Len(streams) -> Stream]
    BY <1>1, <1>3, <1>4 DEF Discard
  <2> QED
    BY <1>1, <2>1
<1>6. LiveTypeOK'
  BY <1>1, <1>2, <1>5 DEF LiveTypeOK, NoCall
<1>7. HubInv'
  BY <1>1, <1>2 DEF HubInv
<1>8. ASSUME NEW c \in DOMAIN streams PROVE StreamInv(c)'
  <2>1. streams[c] \in Stream /\ c # 0 /\ StreamInv(c)
    BY StreamType
  <2>2. Complete(c) => Complete(c)'
    BY <1>1, <1>2, <1>4, ZenonT(60) DEF Complete
  <2>3. c \in hub.dead \/ ~streams[c].registered => (Ends(c) => Ends(c)')
    BY <1>1, <1>2, <1>4 DEF Ends
  <2> QED
    BY <1>1, <1>2, <1>4, <2>1, <2>2, <2>3 DEF StreamInv
<1> QED
  BY <1>3, <1>6, <1>7, <1>8

-----------------------------------------------------------------------------
(* The steps of the handlers and the browser.                               *)

LEMMA ConnectInv ==
  ASSUME LiveInv, Connect
  PROVE  LiveInv'
<1> USE DEF LiveInv
<1>1. /\ published' = published /\ hub' = hub /\ published \in Nat
      /\ streams \in Seq(Stream) /\ DOMAIN streams = 1..Len(streams) /\ Len(streams) \in Nat
  BY LenProperties DEF Connect, LiveTypeOK
<1>2. NewStream \in Stream
  BY DEF NewStream, Stream
<1>3. /\ streams' \in Seq(Stream) /\ Len(streams') = Len(streams) + 1
      /\ \A c \in DOMAIN streams : streams'[c] = streams[c]
      /\ streams'[Len(streams) + 1] = NewStream
      /\ page' = Len(streams) + 1
  BY <1>1, <1>2, AppendProperties DEF Connect
<1>4. DOMAIN streams' = DOMAIN streams \cup {Len(streams) + 1}
  BY <1>1, <1>3, LenProperties
<1>5. LiveTypeOK'
  BY <1>1, <1>3, <1>4 DEF LiveTypeOK
<1>6. hub.todo \subseteq DOMAIN streams /\ hub.dead \subseteq DOMAIN streams
  BY DEF LiveTypeOK
<1>7. HubInv'
  BY <1>1, <1>3, <1>6 DEF HubInv, Unlocked
<1>8. \A c \in DOMAIN streams : StreamInv(c)'
  BY <1>1, <1>3, StreamFrame
<1>9. ASSUME NEW c, c = Len(streams) + 1 PROVE StreamInv(c)'
  BY <1>1, <1>3, <1>9 DEF StreamInv, NewStream
<1> QED
  BY <1>4, <1>5, <1>7, <1>8, <1>9

\* A handler's step on its own stream: the stream gets a record that is as sound.
LEMMA HandlerStep ==
  ASSUME LiveInv, NEW c \in DOMAIN streams, NEW r \in Stream, streams' = [streams EXCEPT ![c] = r],
         UNCHANGED <<published, hub, page>>,
         c \in hub.todo \cup hub.dead => r.registered /\ r.since = streams[c].since,
         StreamInv(c)'
  PROVE  LiveInv'
<1> USE DEF LiveInv
<1>1. /\ streams' \in Seq(Stream) /\ DOMAIN streams' = DOMAIN streams /\ streams'[c] = r
      /\ \A d \in DOMAIN streams \ {c} : streams'[d] = streams[d]
  BY SetStream
<1>2. LiveTypeOK'
  BY <1>1 DEF LiveTypeOK
<1>3. HubInv'
  BY <1>1 DEF HubInv, Unlocked, LiveTypeOK
<1>4. \A d \in DOMAIN streams \ {c} : StreamInv(d)'
  BY <1>1, StreamFrame
<1> QED
  BY <1>1, <1>2, <1>3, <1>4

\* A stream that is registered shows every event from then on.
LEMMA AddClientInv ==
  ASSUME LiveInv, NEW c \in DOMAIN streams, AddClient(c)
  PROVE  LiveInv'
<1> USE DEF LiveInv
<1>1. /\ streams[c] \in Stream /\ c # 0 /\ published \in Nat
      /\ hub = NoCall /\ streams[c].queue = <<>> /\ streams[c].sent = <<>>
      /\ UNCHANGED <<published, hub, page>>
  BY StreamType DEF AddClient, HubInv, StreamInv, LiveTypeOK
<1> DEFINE r == [[[streams[c] EXCEPT !.registered = TRUE] EXCEPT !.joined = TRUE] EXCEPT !.since = published]
<1>2. streams' = [streams EXCEPT ![c] = r]
  BY DEF AddClient
<1>3. /\ r \in Stream /\ r.registered /\ r.joined /\ r.since = published
      /\ r.queue = <<>> /\ r.sent = <<>>
  BY <1>1 DEF Stream
<1> HIDE DEF r
<1>4. streams'[c] = r
  BY <1>2, <1>3, SetStream
<1>5. hub.todo = {} /\ hub.dead = {} /\ hub.at = 0
  BY <1>1 DEF NoCall
<1>6. Complete(c)'
  <2>1. Consecutive(<<>> \o <<>>, published, 0)
    BY DEF Consecutive
  <2>2. published - published - 0 = 0
    BY <1>1
  <2> QED
    BY <1>1, <1>3, <1>4, <1>5, <2>1, <2>2 DEF Complete, Consecutive
<1>7. StreamInv(c)'
  BY <1>1, <1>3, <1>4, <1>5, <1>6 DEF StreamInv
<1> QED
  BY <1>1, <1>2, <1>3, <1>5, <1>7, HandlerStep

\* What is written is the next event and stays shown; what cannot be written, and the
\* sentinel, ends the stream.
LEMMA WriteInv ==
  ASSUME LiveInv, NEW c \in DOMAIN streams, Write(c)
  PROVE  LiveInv'
<1> USE DEF LiveInv
<1>1. /\ streams[c] \in Stream /\ published \in Nat /\ StreamInv(c)
      /\ streams[c].open /\ streams[c].joined /\ streams[c].queue # <<>>
      /\ streams[c].queue \in Seq(Nat) /\ streams[c].sent \in Seq(Nat)
      /\ UNCHANGED <<published, hub, page>>
  BY StreamType DEF Write, LiveTypeOK, Stream
<1> DEFINE q == streams[c].queue
           event == Head(q)
           written == event # 0 /\ page = c
           sent == IF written THEN Append(streams[c].sent, event) ELSE streams[c].sent
           r == [[[streams[c] EXCEPT !.queue = Tail(q)] EXCEPT !.open = written] EXCEPT !.sent = sent]
<1>2. written \in BOOLEAN /\ (written => event # 0)
  OBVIOUS
<1>3. streams' = [streams EXCEPT ![c] = r]
  BY DEF Write
<1> HIDE DEF written
<1>4. /\ event \in Nat /\ event = q[1] /\ Tail(q) \in Seq(Nat) /\ Len(Tail(q)) = Len(q) - 1
      /\ \A i \in 1..Len(Tail(q)) : Tail(q)[i] = q[i + 1]
      /\ Len(q) \in Nat \ {0}
  BY <1>1, HeadTailProperties, EmptySeq
<1>5. sent \in Seq(Nat)
  BY <1>1, <1>2, <1>4, AppendProperties
<1>6. written => sent \o Tail(q) = streams[c].sent \o q
  BY <1>1, MoveHead
<1> HIDE DEF sent
<1>7. /\ r \in Stream /\ r.registered = streams[c].registered /\ r.joined = streams[c].joined
      /\ r.since = streams[c].since /\ r.queue = Tail(q) /\ r.sent = sent /\ r.open = written
  BY <1>1, <1>2, <1>4, <1>5 DEF Stream
<1> HIDE DEF r
<1>8. streams'[c] = r
  BY <1>3, <1>7, SetStream
<1>9. ASSUME written, Older(c) PROVE Older(c)'
  <2>1. \A i \in 1..Len(Tail(q)) : i + 1 \in 1..Len(q)
    BY <1>4
  <2>2. \A i \in 1..Len(Tail(q)) : Tail(q)[i] \in 1..(published - 1)
    BY <1>4, <1>9, <2>1 DEF Older
  <2> QED
    BY <1>1, <1>7, <1>8, <2>2 DEF Older
<1>10. ASSUME written, Complete(c) PROVE Complete(c)'
  BY <1>1, <1>6, <1>7, <1>8, <1>10, ZenonT(60) DEF Complete
<1>11. ASSUME written, Ends(c) PROVE Ends(c)'
  <2>1. q[Len(q)] = 0 /\ \A i \in 1..(Len(q) - 1) : q[i] \in 1..(published - 1)
    BY <1>11 DEF Ends, Last
  <2>2. Len(q) \in Nat /\ Len(q) > 1
    BY <1>2, <1>4, <1>11, <2>1
  <2>3. Tail(q) # <<>> /\ Tail(q)[Len(Tail(q))] = 0
    <3>1. Len(Tail(q)) \in 1..Len(Tail(q)) /\ Len(Tail(q)) + 1 = Len(q)
      BY <1>4, <2>2
    <3>2. Tail(q)[Len(Tail(q))] = q[Len(Tail(q)) + 1]
      BY <1>4, <3>1
    <3>3. Len(Tail(q)) > 0
      BY <1>4, <2>2
    <3>4. Tail(q) # <<>>
      <4>1. ~(0 > 0) /\ Len(<<>>) = 0
        OBVIOUS
      <4> QED
        BY <3>3, <4>1, Zenon
    <3> QED
      BY <2>1, <3>1, <3>2, <3>4
  <2>4. \A i \in 1..(Len(Tail(q)) - 1) : Tail(q)[i] \in 1..(published - 1)
    BY <1>4, <2>1
  <2>5. ~streams[c].registered \/ c \in hub.dead
    BY <1>11 DEF Ends
  <2> QED
    BY <1>1, <1>7, <1>8, <2>3, <2>4, <2>5 DEF Ends, Last
<1>12. StreamInv(c)'
  BY <1>1, <1>7, <1>8, <1>9, <1>10, <1>11 DEF StreamInv
<1>13. c \in hub.todo \cup hub.dead => streams[c].registered
  BY DEF HubInv
<1> QED
  BY <1>1, <1>3, <1>7, <1>12, <1>13, HandlerStep

LEMMA HeartbeatInv ==
  ASSUME LiveInv, NEW c \in DOMAIN streams, Heartbeat(c)
  PROVE  LiveInv'
<1> USE DEF LiveInv
<1> DEFINE r == [streams[c] EXCEPT !.open = FALSE]
<1>1. /\ streams[c] \in Stream /\ StreamInv(c)
      /\ streams' = [streams EXCEPT ![c] = r] /\ UNCHANGED <<published, hub, page>>
  BY StreamType DEF Heartbeat
<1>2. /\ r \in Stream /\ r.registered = streams[c].registered /\ r.joined = streams[c].joined
      /\ r.since = streams[c].since /\ r.queue = streams[c].queue /\ r.sent = streams[c].sent /\ ~r.open
  BY <1>1 DEF Stream
<1> HIDE DEF r
<1>3. streams'[c] = r
  BY <1>1, <1>2, SetStream
<1>4. StreamInv(c)'
  BY <1>1, <1>2, <1>3 DEF StreamInv
<1>5. c \in hub.todo \cup hub.dead => streams[c].registered
  BY DEF HubInv
<1> QED
  BY <1>1, <1>2, <1>4, <1>5, HandlerStep

LEMMA RemoveClientInv ==
  ASSUME LiveInv, NEW c \in DOMAIN streams, RemoveClient(c)
  PROVE  LiveInv'
<1> USE DEF LiveInv
<1> DEFINE r == [streams[c] EXCEPT !.registered = FALSE]
<1>1. /\ streams[c] \in Stream /\ StreamInv(c) /\ ~streams[c].open /\ hub = NoCall
      /\ streams' = [streams EXCEPT ![c] = r] /\ UNCHANGED <<published, hub, page>>
  BY StreamType DEF RemoveClient, HubInv
<1>2. /\ r \in Stream /\ ~r.registered /\ r.joined = streams[c].joined
      /\ r.since = streams[c].since /\ r.queue = streams[c].queue /\ r.sent = streams[c].sent /\ ~r.open
  BY <1>1 DEF Stream
<1> HIDE DEF r
<1>3. streams'[c] = r
  BY <1>1, <1>2, SetStream
<1>4. StreamInv(c)'
  BY <1>1, <1>2, <1>3 DEF StreamInv
<1>5. hub.todo = {} /\ hub.dead = {}
  BY <1>1 DEF NoCall
<1> QED
  BY <1>1, <1>2, <1>4, <1>5, HandlerStep

\* The page may go at any time, and steps may stutter.
LEMMA PageInv ==
  ASSUME LiveInv, UNCHANGED <<published, hub, streams>>, page' \in Nat
  PROVE  LiveInv'
<1>1. LiveTypeOK'
  BY DEF LiveInv, LiveTypeOK
<1>2. HubInv'
  BY DEF LiveInv, HubInv, Unlocked
<1>3. \A c \in DOMAIN streams : StreamInv(c)'
  BY StreamFrame DEF LiveInv
<1> QED
  BY <1>1, <1>2, <1>3 DEF LiveInv

-----------------------------------------------------------------------------
(* The theorems.                                                            *)

\* The inductive invariant of the hub, the handlers and the browser.
THEOREM LiveInvariant == LiveSpecification => []LiveInv
<1>1. LiveInit => LiveInv
  BY LiveInitInv
<1>2. LiveInv /\ [LiveNext]_liveVars => LiveInv'
  <2> SUFFICES ASSUME LiveInv, [LiveNext]_liveVars PROVE LiveInv'
    OBVIOUS
  <2>1. CASE Publish
    BY <2>1, PublishInv
  <2>2. CASE DropOldest
    BY <2>2, DropOldestInv
  <2>3. CASE PutSentinel
    BY <2>3, PutSentinelInv
  <2>4. CASE Discard
    BY <2>4, DiscardInv
  <2>5. CASE Connect
    BY <2>5, ConnectInv
  <2>6. CASE Disconnect
    BY <2>6, PageInv DEF Disconnect
  <2>7. ASSUME NEW c \in DOMAIN streams, Put(c) PROVE LiveInv'
    BY <2>7, PutInv
  <2>8. ASSUME NEW c \in DOMAIN streams, AddClient(c) PROVE LiveInv'
    BY <2>8, AddClientInv
  <2>9. ASSUME NEW c \in DOMAIN streams, Write(c) PROVE LiveInv'
    BY <2>9, WriteInv
  <2>10. ASSUME NEW c \in DOMAIN streams, Heartbeat(c) PROVE LiveInv'
    BY <2>10, HeartbeatInv
  <2>11. ASSUME NEW c \in DOMAIN streams, RemoveClient(c) PROVE LiveInv'
    BY <2>11, RemoveClientInv
  <2>12. CASE UNCHANGED liveVars
    BY <2>12, PageInv DEF liveVars, LiveInv, LiveTypeOK
  <2> QED
    BY <2>1, <2>2, <2>3, <2>4, <2>5, <2>6, <2>7, <2>8, <2>9, <2>10, <2>11, <2>12 DEF LiveNext
<1> QED
  BY <1>1, <1>2, PTL DEF LiveSpecification

\* A stream the browser can still read has shown, or is about to show, every event since
\* it was registered, in order and once, or it ends without showing anything newer, for
\* any interleaving of the hub's call with the handlers, and any size of the queues.
THEOREM LossEndsStreamHolds == LiveSpecification => []LossEndsStream
<1>1. LiveInv => LossEndsStream
  BY DEF LiveInv, StreamInv, LossEndsStream
<1> QED
  BY <1>1, LiveInvariant, PTL

-----------------------------------------------------------------------------
(* TodayBrief.                                                             *)

\* A set of natural numbers that has one has a least.
LEMMA LeastNatural ==
  ASSUME NEW S \in SUBSET Nat, S # {}
  PROVE Min(S) \in S /\ \A k \in S : Min(S) <= k
<1> DEFINE Less == OpToRel(<, Nat)
<1>1. IsWellFoundedOn(Less, Nat)
  BY NatLessThanWellFounded
<1>2. PICK m \in S : \A k \in S : <<k, m>> \notin Less
  <2> HIDE DEF Less
  <2> QED
    BY <1>1, WFMin
<1>3. \A k \in S : ~(k < m)
  BY <1>2 DEF OpToRel
<1> HIDE DEF Less
<1>4. \A k \in S : m <= k
  <2> SUFFICES ASSUME NEW k \in S PROVE m <= k
    OBVIOUS
  <2>1. k \in Nat /\ m \in Nat /\ ~(k < m)
    BY <1>3
  <2> QED
    BY <2>1
<1> QED
  BY <1>4 DEF Min

LEMMA LesserOf ==
  ASSUME NEW a \in Int, NEW b \in Int
  PROVE Min({a, b}) = IF a <= b THEN a ELSE b
<1>1. \E x \in {a, b} : \A y \in {a, b} : x <= y
  OBVIOUS
<1>2. Min({a, b}) \in {a, b} /\ \A y \in {a, b} : Min({a, b}) <= y
  BY <1>1 DEF Min
<1> QED
  BY <1>2

LEMMA GreaterOf ==
  ASSUME NEW a \in Int, NEW b \in Int
  PROVE Max({a, b}) = IF a <= b THEN b ELSE a
<1>1. \E x \in {a, b} : \A y \in {a, b} : x >= y
  OBVIOUS
<1>2. Max({a, b}) \in {a, b} /\ \A y \in {a, b} : Max({a, b}) >= y
  BY <1>1 DEF Max
<1> QED
  BY <1>2

\* A quotient is the greatest number of times that what is left allows.
LEMMA QuotientIs ==
  ASSUME NEW a \in Nat, NEW b \in Nat \ {0}
  PROVE a \div b \in Nat /\ \A n \in Nat : n <= a \div b <=> n * b <= a
<1>1. a \div b \in Nat /\ (a \div b) * b <= a /\ a < (a \div b) * b + b
  OBVIOUS
<1>2. PICK k \in Nat : k = a \div b
  BY <1>1
<1> SUFFICES ASSUME NEW n \in Nat PROVE n <= k <=> n * b <= a
  BY <1>1, <1>2
<1>3. k * b \in Nat /\ n * b \in Nat /\ k * b <= a /\ a < k * b + b
  BY <1>1, <1>2
<1>4. CASE n <= k
  <2>1. PICK d \in Nat : k = n + d
    <3>1. k - n \in Nat /\ k = n + (k - n)
      BY <1>4
    <3> QED
      BY <3>1
  <2>2. k * b = n * b + d * b /\ d * b \in Nat
    BY <2>1
  <2> QED
    BY <1>3, <1>4, <2>2
<1>5. CASE ~(n <= k)
  <2>1. PICK d \in Nat : n = k + 1 + d
    <3>1. n - (k + 1) \in Nat /\ n = k + 1 + (n - (k + 1))
      BY <1>5
    <3> QED
      BY <3>1
  <2>2. n * b = k * b + b + d * b /\ d * b \in Nat
    BY <2>1
  <2> QED
    BY <1>3, <1>5, <2>2
<1> QED
  BY <1>4, <1>5

\* A number of lots within a limit, and such that one lot more is not.
LEMMA LotsAre ==
  ASSUME NEW limit \in Nat, NEW lot \in Nat \ {0}, NEW shares, shares = (limit \div lot) * lot
  PROVE shares \in Nat /\ shares <= limit /\ limit < shares + lot /\ (lot <= limit => lot <= shares)
<1>1. limit \div lot \in Nat /\ (limit \div lot) * lot <= limit /\ limit < (limit \div lot) * lot + lot
  OBVIOUS
<1>2. ASSUME lot <= limit PROVE lot <= shares
  <2>1. 1 <= limit \div lot
    <3>1. 1 * lot <= limit
      BY <1>2
    <3> QED
      BY <3>1, QuotientIs
  <2>2. PICK d \in Nat : limit \div lot = 1 + d
    <3>1. (limit \div lot) - 1 \in Nat /\ limit \div lot = 1 + ((limit \div lot) - 1)
      BY <1>1, <2>1
    <3> QED
      BY <3>1
  <2>3. shares = lot + d * lot /\ d * lot \in Nat
    BY <2>2
  <2> QED
    BY <2>3
<1>3. (limit \div lot) * lot \in Nat
  BY <1>1
<1> QED
  BY <1>1, <1>2, <1>3

-----------------------------------------------------------------------------
\* What the profile's amounts are, and that the handler accepted them.
IsProfile(p) ==
  /\ {p.equity, p.cash, p.risk, p.position, p.heat, p.sector, p.theme} \subseteq Nat
  /\ ProfileAccepted(p)

\* The room that is left under a limit: what fits it fits the limit with what is used, for no limit
\* is more than the equity, at which what is used is capped.
LEMMA RoomIs ==
  ASSUME NEW p, IsProfile(p), NEW limit \in Nat, limit <= p.equity, NEW used \in Int
  PROVE /\ Room(limit, Ratio(used, p)) \in Nat
        /\ \A more \in Nat \ {0} : more <= Room(limit, Ratio(used, p)) <=> used + more <= limit
<1>1. p.equity \in Nat
  BY DEF IsProfile
<1>2. PICK capped \in Int : capped = (IF p.equity <= used THEN p.equity ELSE used) /\ Ratio(used, p) = capped
  BY <1>1, LesserOf DEF Ratio
<1>3. Room(limit, capped) = IF 0 <= limit - capped THEN limit - capped ELSE 0
  BY <1>2, GreaterOf DEF Room
<1> QED
  BY <1>1, <1>2, <1>3

\* What a number of shares may not exceed, beside what is held.
FitsIn(p, shares, entry, risk, heat, exposure) ==
  /\ shares * entry <= p.cash /\ shares * entry <= p.position /\ shares * risk <= p.risk
  /\ heat + shares * risk <= p.heat
  /\ exposure + shares * entry <= p.sector /\ exposure + shares * entry <= p.theme

\* A number of shares is within the six limits exactly if it fits.
LEMMA LimitsAre ==
  ASSUME NEW p, IsProfile(p), NEW entry \in Nat \ {0}, NEW risk \in Nat \ {0}, NEW heat \in Int, NEW exposure \in Int,
         NEW limits, limits = ShareLimits(p, entry, risk, Ratio(heat, p), Ratio(exposure, p))
  PROVE /\ limits \subseteq Nat /\ limits # {}
        /\ \A n \in Nat \ {0} : (\A limit \in limits : n <= limit) <=> FitsIn(p, n, entry, risk, heat, exposure)
<1>1. /\ p.cash \in Nat /\ p.position \in Nat /\ p.risk \in Nat /\ p.heat \in Nat /\ p.sector \in Nat /\ p.theme \in Nat
      /\ p.heat <= p.equity /\ p.sector <= p.equity /\ p.theme <= p.equity
  BY DEF IsProfile, ProfileAccepted
<1> DEFINE h == Room(p.heat, Ratio(heat, p))
           s == Room(p.sector, Ratio(exposure, p))
           t == Room(p.theme, Ratio(exposure, p))
<1>2. /\ h \in Nat /\ \A more \in Nat \ {0} : more <= h <=> heat + more <= p.heat
      /\ s \in Nat /\ \A more \in Nat \ {0} : more <= s <=> exposure + more <= p.sector
      /\ t \in Nat /\ \A more \in Nat \ {0} : more <= t <=> exposure + more <= p.theme
  BY <1>1, RoomIs
<1>3. limits = {p.risk \div risk, p.cash \div entry, p.position \div entry, h \div risk, s \div entry, t \div entry}
  BY DEF ShareLimits
<1> HIDE DEF h, s, t
<1>4. limits \subseteq Nat /\ limits # {}
  <2>1. /\ p.risk \div risk \in Nat /\ p.cash \div entry \in Nat /\ p.position \div entry \in Nat
        /\ h \div risk \in Nat /\ s \div entry \in Nat /\ t \div entry \in Nat
    BY <1>1, <1>2, QuotientIs
  <2> QED
    BY <1>3, <2>1
<1>5. ASSUME NEW n \in Nat \ {0}
      PROVE (\A limit \in limits : n <= limit) <=> FitsIn(p, n, entry, risk, heat, exposure)
  <2>1. /\ n <= p.risk \div risk <=> n * risk <= p.risk
        /\ n <= p.cash \div entry <=> n * entry <= p.cash
        /\ n <= p.position \div entry <=> n * entry <= p.position
    BY <1>1, QuotientIs
  <2>2. /\ n <= h \div risk <=> n * risk <= h
        /\ n <= s \div entry <=> n * entry <= s
        /\ n <= t \div entry <=> n * entry <= t
    BY <1>2, QuotientIs
  <2>3. n * risk \in Nat \ {0} /\ n * entry \in Nat \ {0}
    <3>1. \A a, b \in Nat \ {0} : a * b \in Nat \ {0}
      OBVIOUS
    <3> QED
      BY <3>1
  <2>4. /\ n * risk <= h <=> heat + n * risk <= p.heat
        /\ n * entry <= s <=> exposure + n * entry <= p.sector
        /\ n * entry <= t <=> exposure + n * entry <= p.theme
    BY <1>2, <2>3
  <2> QED
    BY <1>3, <2>1, <2>2, <2>4 DEF FitsIn
<1> QED
  BY <1>4, <1>5

\* What the sizing allows.
AllowedSize(z, p, entry, risk, heat, exposure, lot) ==
  z.allowed /\ z = SizedIn(lot, Min(ShareLimits(p, entry, risk, Ratio(heat, p), Ratio(exposure, p))), entry)

\* It fits, and one lot more does not.
LEMMA SizedFits ==
  ASSUME NEW p, IsProfile(p), NEW entry \in Nat \ {0}, NEW risk \in Nat \ {0}, NEW heat \in Int, NEW exposure \in Int,
         NEW lot \in Nat \ {0}, NEW z, AllowedSize(z, p, entry, risk, heat, exposure, lot)
  PROVE /\ z.shares \in Nat /\ z.entry = entry
        /\ FitsIn(p, z.shares, entry, risk, heat, exposure)
        /\ ~FitsIn(p, z.shares + lot, entry, risk, heat, exposure)
<1>1. PICK limits : limits = ShareLimits(p, entry, risk, Ratio(heat, p), Ratio(exposure, p))
  OBVIOUS
<1>2. /\ limits \subseteq Nat /\ limits # {}
      /\ \A n \in Nat \ {0} : (\A limit \in limits : n <= limit) <=> FitsIn(p, n, entry, risk, heat, exposure)
  BY <1>1, LimitsAre
<1>3. PICK least : least = Min(limits)
  OBVIOUS
<1>4. least \in limits /\ least \in Nat /\ \A limit \in limits : least <= limit
  BY <1>2, <1>3, LeastNatural
<1>5. lot <= least /\ z.shares = (least \div lot) * lot /\ z.entry = entry
  <2>1. z = SizedIn(lot, least, entry) /\ z.allowed
    BY <1>1, <1>3 DEF AllowedSize
  <2>2. ASSUME least < lot PROVE FALSE
    <3>1. z = Sized(0, entry, {"BELOW_MINIMUM_LOT"})
      BY <2>1, <2>2 DEF SizedIn
    <3>2. Sized(0, entry, {"BELOW_MINIMUM_LOT"}).allowed <=> {"BELOW_MINIMUM_LOT"} = {}
      BY DEF Sized
    <3> QED
      BY <2>1, <3>1, <3>2
  <2>3. z = Sized((least \div lot) * lot, entry, {})
    BY <1>4, <2>1, <2>2 DEF SizedIn
  <2>4. lot <= least
    BY <1>4, <2>2
  <2> QED
    BY <2>3, <2>4 DEF Sized
<1>6. PICK n : n = z.shares
  OBVIOUS
<1>7. n \in Nat /\ n <= least /\ least < n + lot /\ lot <= n
  BY <1>4, <1>5, <1>6, LotsAre
<1>8. n \in Nat \ {0} /\ n + lot \in Nat \ {0}
  BY <1>7
<1>9. (\A limit \in limits : n <= limit) /\ ~(\A limit \in limits : n + lot <= limit)
  <2>1. \A limit \in limits : limit \in Nat
    BY <1>2
  <2> QED
    BY <1>4, <1>7, <2>1
<1>10. FitsIn(p, n, entry, risk, heat, exposure) /\ ~FitsIn(p, n + lot, entry, risk, heat, exposure)
  BY <1>2, <1>8, <1>9
<1> QED
  BY <1>5, <1>6, <1>7, <1>10

-----------------------------------------------------------------------------
\* A quote, or none yet.
IsQuote(q) == q.last \in Nat /\ (q # NoTick => {q.observed, q.aged} \subseteq {"LIVE", "DELAYED", "STALE", "UNKNOWN"})

\* What the page is built from: there is at most one profile, and its amounts were accepted.
BriefInv ==
  /\ board \in Boards /\ account \in Accounts \union {{}}
  /\ \A p \in account : IsProfile(p) /\ \A o \in account : o = p
  /\ \A sym \in Symbols : IsQuote(quotes[sym])
  /\ holdings \in [Symbols -> [shares : Nat, cost : Nat]]

\* A plan with shares comes from a signal of the board and the account: its size is what the account
\* allows at its entry, and nothing blocks it.
SizedFrom(r, z, s, p, entry) ==
  /\ s.symbol = r.symbol /\ s.strategy = r.strategy /\ s.symbol \in Symbols \ Held
  /\ PortfolioBlockers = {} /\ entry \in Nat /\ entry > s.stop /\ LotOf[s.symbol] # 0
  /\ z = SizedIn(LotOf[s.symbol],
                 Min(ShareLimits(p, entry, entry - s.stop, Ratio(TotalRisk, p), Ratio(Exposure(SectorOf[s.symbol]), p))),
                 entry)

LEMMA SizePositionIs ==
  ASSUME NEW p, NEW s, NEW entry, NEW hard, NEW z \in SizePosition(p, s, entry, hard), z.allowed
  PROVE /\ hard = {} /\ ~(entry <= s.stop) /\ LotOf[s.symbol] # 0
        /\ z = SizedIn(LotOf[s.symbol],
                 Min(ShareLimits(p, entry, entry - s.stop, Ratio(TotalRisk, p), Ratio(Exposure(SectorOf[s.symbol]), p))),
                 entry)
<1>1. PICK one : one = SizedIn(LotOf[s.symbol],
                 Min(ShareLimits(p, entry, entry - s.stop, Ratio(TotalRisk, p), Ratio(Exposure(SectorOf[s.symbol]), p))),
                 entry)
  OBVIOUS
<1>2. /\ ~(entry <= s.stop \/ LotOf[s.symbol] = 0)
      /\ z = IF hard # {} THEN Sized(0, entry, hard) ELSE one
  BY <1>1 DEF SizePosition
<1>3. ASSUME hard # {} PROVE FALSE
  <2>1. z = Sized(0, entry, hard)
    BY <1>2, <1>3
  <2>2. Sized(0, entry, hard).allowed <=> hard = {}
    BY DEF Sized
  <2> QED
    BY <1>3, <2>1, <2>2
<1> QED
  BY <1>1, <1>2, <1>3

LEMMA PlannedRecordIs ==
  ASSUME NEW s, NEW q, NEW profile, NEW verdict, NEW hard, NEW soft, NEW sizes,
         NEW r \in PlannedRecord(s, q, profile, verdict, hard, soft, sizes), NEW pl \in r.plan
  PROVE r.symbol = s.symbol /\ r.strategy = s.strategy /\ pl.size = sizes
<1>1. PICK action, bold :
        r \in {Record(s, q, made.action, verdict, hard, soft, {made}) : made \in BuildTradePlan(s, action, sizes, hard, soft, bold)}
  BY DEF PlannedRecord
<1>2. PICK plan \in BuildTradePlan(s, action, sizes, hard, soft, bold) :
        r = Record(s, q, plan.action, verdict, hard, soft, {plan})
  BY <1>1
<1>3. plan.size = sizes
  BY <1>2 DEF BuildTradePlan
<1>4. r.symbol = s.symbol /\ r.strategy = s.strategy /\ r.plan = {plan}
  BY <1>2 DEF Record
<1> QED
  BY <1>3, <1>4

\* A size of a record's plan is the size of its signal's position, for the profile.
SizeOf(r, z, s, q, profile, hard) ==
  /\ r.symbol = s.symbol /\ r.strategy = s.strategy
  /\ \E p \in profile : \E action : z \in SizePosition(p, s, EntryReference(s, action, q), hard)

LEMMA JudgedRecordIs ==
  ASSUME NEW s, NEW q, NEW profile, NEW verdict, NEW hard, NEW soft,
         NEW r \in JudgedRecord(s, q, profile, verdict, hard, soft), NEW pl \in r.plan, NEW z \in pl.size
  PROVE SizeOf(r, z, s, q, profile, hard)
<1>1. PICK sizes : sizes = UNION {SizePosition(p, s, EntryReference(s, verdict.action, q), hard) : p \in profile}
  OBVIOUS
<1>2. PICK all : all = hard \union SizeBlockers(profile, sizes)
  OBVIOUS
<1>3. ASSUME NEW action, NEW h, r = Record(s, q, action, verdict, h, soft, {}) PROVE FALSE
  <2>1. r.plan = {}
    BY <1>3 DEF Record
  <2> QED
    BY <2>1
<1>4. r \in OpeningRecord(s, q, profile, verdict, hard, soft)
  BY <1>3 DEF JudgedRecord
<1>5. r \in PlannedRecord(s, q, profile, verdict, all, soft, sizes)
  BY <1>1, <1>2, <1>4 DEF OpeningRecord
<1>6. r.symbol = s.symbol /\ r.strategy = s.strategy /\ pl.size = sizes
  BY <1>5, PlannedRecordIs
<1> QED
  BY <1>1, <1>6 DEF SizeOf

LEMMA SizedFromSignal ==
  ASSUME BriefAssumption, BriefInv, NEW r \in CoreRecords, NEW pl \in r.plan, NEW z \in pl.size, z.allowed
  PROVE \E s \in board : \E p \in account : \E entry \in Nat : SizedFrom(r, z, s, p, entry)
<1>1. PICK s \in {t \in board : t.symbol \in Symbols \ Held} :
        r \in BuildSignalRecord(s, quotes[s.symbol], s.symbol \in Held, IF s.symbol \in Held THEN {} ELSE account,
                                IF s.symbol \in Held THEN {} ELSE PortfolioBlockers)
  BY DEF CoreRecords, Records, RecordOf
<1>2. PICK q, held, profile, external :
        /\ r \in BuildSignalRecord(s, q, held, profile, external)
        /\ q = quotes[s.symbol] /\ profile = account /\ external = PortfolioBlockers
  <2>1. s.symbol \notin Held
    BY <1>1
  <2>2. PICK q, profile, external :
          /\ q = quotes[s.symbol] /\ profile = (IF s.symbol \in Held THEN {} ELSE account)
          /\ external = (IF s.symbol \in Held THEN {} ELSE PortfolioBlockers)
    OBVIOUS
  <2>3. r \in BuildSignalRecord(s, q, s.symbol \in Held, profile, external)
    BY <1>1, <2>2
  <2> QED
    BY <2>1, <2>2, <2>3
<1>3. PICK verdict, soft :
        r \in JudgedRecord(s, quotes[s.symbol], account, verdict, verdict.blockers \union PortfolioBlockers, soft)
  <2>1. PICK verdict, soft :
          verdict = MapSignalToAction(s, q, held) /\ soft = SoftBlockers(verdict.action, QuoteStatus(q), s.state)
    OBVIOUS
  <2>2. r \in JudgedRecord(s, q, profile, verdict, verdict.blockers \union external, soft)
    BY <1>2, <2>1 DEF BuildSignalRecord
  <2> QED
    BY <1>2, <2>2
<1>4. SizeOf(r, z, s, quotes[s.symbol], account, verdict.blockers \union PortfolioBlockers)
  BY <1>3, JudgedRecordIs
<1>5. PICK p \in account : \E action :
        z \in SizePosition(p, s, EntryReference(s, action, quotes[s.symbol]), verdict.blockers \union PortfolioBlockers)
  BY <1>4 DEF SizeOf
<1>6. PICK action : z \in SizePosition(p, s, EntryReference(s, action, quotes[s.symbol]), verdict.blockers \union PortfolioBlockers)
  BY <1>5
<1>7. PICK entry : entry = EntryReference(s, action, quotes[s.symbol])
  OBVIOUS
<1>8. s.stop \in Nat /\ s.high \in Nat /\ s.trigger \in Nat /\ quotes[s.symbol].last \in Nat
  BY <1>1 DEF BriefAssumption, BriefInv, IsQuote
<1>9. entry \in Nat
  BY <1>7, <1>8 DEF EntryReference
<1>10. /\ verdict.blockers \union PortfolioBlockers = {} /\ ~(entry <= s.stop) /\ LotOf[s.symbol] # 0
       /\ z = SizedIn(LotOf[s.symbol],
                 Min(ShareLimits(p, entry, entry - s.stop, Ratio(TotalRisk, p), Ratio(Exposure(SectorOf[s.symbol]), p))),
                 entry)
  BY <1>6, <1>7, SizePositionIs
<1>11. r.symbol = s.symbol /\ r.strategy = s.strategy
  BY <1>4 DEF SizeOf
<1>12. PortfolioBlockers = {} /\ entry > s.stop
  BY <1>8, <1>9, <1>10
<1>13. SizedFrom(r, z, s, p, entry)
  BY <1>1, <1>9, <1>10, <1>11, <1>12 DEF SizedFrom
<1> QED
  BY <1>1, <1>9, <1>13

\* What the positions risk, and what they are worth, are integers.
LEMMA ReferenceIsNat ==
  ASSUME BriefInv, NEW sym \in Symbols
  PROVE Reference(sym) \in Nat /\ holdings[sym].shares \in Nat
BY DEF BriefInv, IsQuote, Reference

LEMMA SumOfIntegers ==
  ASSUME NEW S, IsFiniteSet(S), NEW f, f = [x \in S |-> f[x]], \A x \in S : f[x] \in Int
  PROVE SumFunction(f) \in Int
<1>1. DOMAIN f = S
  OBVIOUS
<1>2. SumFunctionOnSet(f, S) \in Int
  BY SumIsInt
<1> QED
  BY <1>1, <1>2 DEF SumFunction

LEMMA TotalRiskIsInt ==
  ASSUME BriefAssumption, BriefInv
  PROVE TotalRisk \in Int
<1>1. PICK S : S = {s \in Held : RiskKnown(s)}
  OBVIOUS
<1>2. PICK f : f = [sym \in S |-> holdings[sym].shares * (Reference(sym) - Min(Stops(sym)))]
  OBVIOUS
<1>3. S \subseteq Symbols /\ IsFiniteSet(S)
  <2>1. S \subseteq Symbols
    BY <1>1 DEF Held
  <2> QED
    BY <2>1, FS_Subset DEF BriefAssumption
<1>4. ASSUME NEW sym \in S PROVE f[sym] \in Int
  <2>1. PICK stops : stops = Stops(sym)
    OBVIOUS
  <2>2. stops # {}
    BY <1>1, <2>1 DEF RiskKnown
  <2>3. stops \in SUBSET Nat
    BY <2>1 DEF Stops, BriefInv, BriefAssumption
  <2>4. Min(stops) \in Nat
    BY <2>2, <2>3, LeastNatural
  <2>5. Reference(sym) \in Nat /\ holdings[sym].shares \in Nat
    BY <1>3, ReferenceIsNat
  <2>6. \A a, b, c \in Nat : a * (b - c) \in Int
    OBVIOUS
  <2> QED
    BY <1>2, <2>1, <2>4, <2>5, <2>6
<1>5. SumFunction(f) \in Int
  BY <1>2, <1>3, <1>4, SumOfIntegers
<1> QED
  BY <1>1, <1>2, <1>5 DEF TotalRisk

LEMMA ExposureIsInt ==
  ASSUME BriefAssumption, BriefInv, NEW sector
  PROVE Exposure(sector) \in Int
<1>1. PICK S : S = {s \in Held : SectorOf[s] = sector}
  OBVIOUS
<1>2. PICK f : f = [sym \in S |-> holdings[sym].shares * Reference(sym)]
  OBVIOUS
<1>3. S \subseteq Symbols /\ IsFiniteSet(S)
  <2>1. S \subseteq Symbols
    BY <1>1 DEF Held
  <2> QED
    BY <2>1, FS_Subset DEF BriefAssumption
<1>4. ASSUME NEW sym \in S PROVE f[sym] \in Int
  <2>1. Reference(sym) \in Nat /\ holdings[sym].shares \in Nat
    BY <1>3, ReferenceIsNat
  <2>2. \A a, b \in Nat : a * b \in Int
    OBVIOUS
  <2> QED
    BY <1>2, <2>1, <2>2
<1>5. SumFunction(f) \in Int
  BY <1>2, <1>3, <1>4, SumOfIntegers
<1> QED
  BY <1>1, <1>2, <1>5 DEF Exposure

\* So a plan with shares fits the account, and one lot more does not.
LEMMA PlanFits ==
  ASSUME BriefAssumption, BriefInv, NEW r \in CoreRecords, NEW pl \in r.plan, NEW z \in pl.size, z.allowed
  PROVE \E s \in board : \E p \in account :
          /\ s.symbol = r.symbol /\ s.strategy = r.strategy /\ PortfolioBlockers = {}
          /\ z.shares \in Nat /\ z.entry \in Nat /\ LotOf[r.symbol] \in Nat
          /\ FitsIn(p, z.shares, z.entry, z.entry - s.stop, TotalRisk, Exposure(SectorOf[r.symbol]))
          /\ ~FitsIn(p, z.shares + LotOf[r.symbol], z.entry, z.entry - s.stop, TotalRisk, Exposure(SectorOf[r.symbol]))
<1>1. PICK s \in board : \E p \in account : \E entry \in Nat : SizedFrom(r, z, s, p, entry)
  BY SizedFromSignal
<1>2. PICK p \in account : \E entry \in Nat : SizedFrom(r, z, s, p, entry)
  BY <1>1
<1>3. PICK entry \in Nat : SizedFrom(r, z, s, p, entry)
  BY <1>2
<1>4. s.stop \in Nat /\ LotOf[s.symbol] \in Nat
  BY <1>3 DEF SizedFrom, BriefInv, BriefAssumption
<1>5. PICK risk : risk = entry - s.stop
  OBVIOUS
<1>6. entry \in Nat \ {0} /\ risk \in Nat \ {0} /\ LotOf[s.symbol] \in Nat \ {0}
  BY <1>3, <1>4, <1>5 DEF SizedFrom
<1>7. PICK heat, exposure : heat = TotalRisk /\ exposure = Exposure(SectorOf[s.symbol])
  OBVIOUS
<1>8. heat \in Int /\ exposure \in Int
  BY <1>7, TotalRiskIsInt, ExposureIsInt
<1>9. PICK lot : lot = LotOf[s.symbol]
  OBVIOUS
<1>10. lot \in Nat \ {0}
  BY <1>6, <1>9
<1>11. IsProfile(p)
  BY DEF BriefInv
<1>12. AllowedSize(z, p, entry, risk, heat, exposure, lot)
  BY <1>3, <1>5, <1>7, <1>9 DEF SizedFrom, AllowedSize
<1>13. /\ z.shares \in Nat /\ z.entry = entry
       /\ FitsIn(p, z.shares, entry, risk, heat, exposure)
       /\ ~FitsIn(p, z.shares + lot, entry, risk, heat, exposure)
  <2>1. entry \in Nat \ {0} /\ risk \in Nat \ {0} /\ heat \in Int /\ exposure \in Int /\ lot \in Nat \ {0}
    BY <1>6, <1>8, <1>10
  <2> QED
    BY <1>11, <1>12, <2>1, SizedFits
<1>14. s.symbol = r.symbol /\ s.strategy = r.strategy /\ PortfolioBlockers = {}
  BY <1>3 DEF SizedFrom
<1> QED
  BY <1>5, <1>7, <1>9, <1>10, <1>13, <1>14

LEMMA BriefInvInit ==
  ASSUME BriefAssumption, BriefInit
  PROVE BriefInv
<1>1. \A sym \in Symbols : quotes[sym] = NoTick /\ NoTick.last = 0
  BY DEF BriefInit, NoTick
<1>2. holdings \in [Symbols -> [shares : Nat, cost : Nat]]
  BY DEF BriefInit, Nothing
<1> QED
  BY <1>1, <1>2 DEF BriefInit, BriefInv, IsQuote

LEMMA BriefInvNext ==
  ASSUME BriefAssumption, BriefInv, [BriefNext]_briefVars
  PROVE BriefInv'
<1>1. ASSUME NEW sym \in Symbols, QuoteChanges(sym) PROVE BriefInv'
  <2>1. PICK q \in Ticks[sym] : quotes' = [quotes EXCEPT ![sym] = q]
    BY <1>1 DEF QuoteChanges
  <2>2. IsQuote(q)
    BY DEF BriefAssumption, IsQuote
  <2>3. \A other \in Symbols : IsQuote(quotes'[other])
    BY <2>1, <2>2 DEF BriefInv
  <2> QED
    BY <1>1, <2>3 DEF QuoteChanges, BriefInv, IsProfile, ProfileAccepted
<1>2. ASSUME NEW sym \in Symbols, DeletePosition(sym) PROVE BriefInv'
  <2>1. holdings' \in [Symbols -> [shares : Nat, cost : Nat]]
    BY <1>2 DEF DeletePosition, Nothing, BriefInv
  <2> QED
    BY <1>2, <2>1 DEF DeletePosition, BriefInv, IsProfile, ProfileAccepted
<1>3. CASE SignalsChange
  BY <1>3 DEF SignalsChange, BriefInv, IsProfile, ProfileAccepted
<1>4. CASE Buy
  <2>1. PICK r \in CoreRecords : \E pl \in r.plan : \E z \in pl.size :
          /\ z.allowed /\ r.symbol \notin Held
          /\ holdings' = [holdings EXCEPT ![r.symbol] = [shares |-> z.shares, cost |-> z.entry]]
    BY <1>4 DEF Buy
  <2>2. PICK pl \in r.plan : \E z \in pl.size :
          /\ z.allowed /\ r.symbol \notin Held
          /\ holdings' = [holdings EXCEPT ![r.symbol] = [shares |-> z.shares, cost |-> z.entry]]
    BY <2>1
  <2>3. PICK z \in pl.size :
          /\ z.allowed /\ r.symbol \notin Held
          /\ holdings' = [holdings EXCEPT ![r.symbol] = [shares |-> z.shares, cost |-> z.entry]]
    BY <2>2
  <2>4. z.shares \in Nat /\ z.entry \in Nat
    BY <2>3, PlanFits
  <2>5. holdings' \in [Symbols -> [shares : Nat, cost : Nat]]
    BY <2>3, <2>4 DEF BriefInv
  <2> QED
    BY <1>4, <2>5 DEF Buy, BriefInv, IsProfile, ProfileAccepted
<1>5. CASE PutProfile
  <2>1. account' \in Accounts /\ \A p \in account' : ProfileAccepted(p)
    BY <1>5 DEF PutProfile
  <2>2. \A p \in account' : IsProfile(p) /\ \A o \in account' : o = p
    BY <2>1 DEF IsProfile, BriefAssumption
  <2> QED
    BY <1>5, <2>1, <2>2 DEF PutProfile, BriefInv
<1>6. CASE UNCHANGED briefVars
  BY <1>6 DEF briefVars, BriefInv, IsProfile, ProfileAccepted
<1> QED
  BY <1>1, <1>2, <1>3, <1>4, <1>5, <1>6 DEF BriefNext

\* In every state of the page its parts are what it is built from; what was bought was sized.
THEOREM BriefInvariant == BriefSpec => []BriefInv
<1>1. BriefInit => BriefInv
  BY BriefAssumption, BriefInvInit
<1>2. BriefInv /\ [BriefNext]_briefVars => BriefInv'
  BY BriefAssumption, BriefInvNext
<1> QED
  BY <1>1, <1>2, PTL DEF BriefSpec

\* The limits of PlansFit are those of FitsIn.
LEMMA InvImpliesPlansFit ==
  ASSUME BriefAssumption, BriefInv
  PROVE PlansFit
<1> DEFINE Invalidation(r) == Min({s.stop : s \in {t \in board : t.symbol = r.symbol /\ t.strategy = r.strategy}})
           Fits(r, z, p, shares) ==
             /\ shares * z.entry <= Min({p.cash, p.position}) /\ shares * (z.entry - Invalidation(r)) <= p.risk
             /\ TotalRisk + shares * (z.entry - Invalidation(r)) <= p.heat
             /\ Exposure(SectorOf[r.symbol]) + shares * z.entry <= Min({p.sector, p.theme})
<1>1. ASSUME NEW r \in CoreRecords, NEW pl \in r.plan, NEW z \in pl.size, NEW p \in account, z.allowed
      PROVE /\ Fits(r, z, p, z.shares) /\ ~Fits(r, z, p, z.shares + LotOf[r.symbol])
            /\ \A sym \in Held : RiskKnown(sym)
  <2>1. PICK s \in board : \E o \in account :
          /\ s.symbol = r.symbol /\ s.strategy = r.strategy /\ PortfolioBlockers = {}
          /\ z.shares \in Nat /\ z.entry \in Nat /\ LotOf[r.symbol] \in Nat
          /\ FitsIn(o, z.shares, z.entry, z.entry - s.stop, TotalRisk, Exposure(SectorOf[r.symbol]))
          /\ ~FitsIn(o, z.shares + LotOf[r.symbol], z.entry, z.entry - s.stop, TotalRisk, Exposure(SectorOf[r.symbol]))
    BY <1>1, PlanFits
  <2>2. \A o \in account : o = p
    BY DEF BriefInv
  <2>3. /\ s.symbol = r.symbol /\ s.strategy = r.strategy /\ PortfolioBlockers = {}
        /\ z.shares \in Nat /\ z.entry \in Nat /\ LotOf[r.symbol] \in Nat
        /\ FitsIn(p, z.shares, z.entry, z.entry - s.stop, TotalRisk, Exposure(SectorOf[r.symbol]))
        /\ ~FitsIn(p, z.shares + LotOf[r.symbol], z.entry, z.entry - s.stop, TotalRisk, Exposure(SectorOf[r.symbol]))
    BY <2>1, <2>2
  <2>4. s.stop \in Nat /\ \A t \in board : t.symbol = s.symbol /\ t.strategy = s.strategy => t = s
    BY DEF BriefInv, BriefAssumption
  <2>5. Invalidation(r) = s.stop
    <3>1. {t \in board : t.symbol = r.symbol /\ t.strategy = r.strategy} = {s}
      BY <2>3, <2>4
    <3>2. PICK S : S = {t.stop : t \in {t \in board : t.symbol = r.symbol /\ t.strategy = r.strategy}}
      OBVIOUS
    <3>3. S = {s.stop}
      BY <3>1, <3>2
    <3>4. S \in SUBSET Nat /\ S # {}
      BY <2>4, <3>3
    <3>5. Min(S) \in S
      BY <3>4, LeastNatural
    <3> QED
      BY <3>2, <3>3, <3>5
  <2>6. {p.cash, p.position, p.sector, p.theme} \subseteq Nat
    BY DEF BriefInv, IsProfile
  <2>7. /\ \A n \in Int : n <= Min({p.cash, p.position}) <=> n <= p.cash /\ n <= p.position
        /\ \A n \in Int : n <= Min({p.sector, p.theme}) <=> n <= p.sector /\ n <= p.theme
    <3>1. ASSUME NEW a \in Nat, NEW b \in Nat PROVE \A n \in Int : n <= Min({a, b}) <=> n <= a /\ n <= b
      <4>1. Min({a, b}) = IF a <= b THEN a ELSE b
        BY LesserOf
      <4> QED
        BY <4>1
    <3> QED
      BY <2>6, <3>1
  <2>8. ASSUME NEW n \in Nat
        PROVE Fits(r, z, p, n) <=> FitsIn(p, n, z.entry, z.entry - s.stop, TotalRisk, Exposure(SectorOf[r.symbol]))
    <3>1. PICK worth : worth = n * z.entry
      OBVIOUS
    <3>2. PICK exposure : exposure = Exposure(SectorOf[r.symbol])
      OBVIOUS
    <3>3. worth \in Int /\ exposure \in Int
      <4>1. \A a, b \in Nat : a * b \in Int
        OBVIOUS
      <4> QED
        BY <2>3, <3>1, <3>2, <4>1, ExposureIsInt
    <3>4. exposure + worth \in Int
      BY <3>3
    <3>5. /\ worth <= Min({p.cash, p.position}) <=> worth <= p.cash /\ worth <= p.position
          /\ exposure + worth <= Min({p.sector, p.theme}) <=> exposure + worth <= p.sector /\ exposure + worth <= p.theme
      BY <2>7, <3>3, <3>4
    <3> HIDE DEF Invalidation
    <3> QED
      BY <2>5, <3>1, <3>2, <3>5 DEF FitsIn
  <2> HIDE DEF Fits, Invalidation
  <2>9. z.shares + LotOf[r.symbol] \in Nat
    BY <2>3
  <2>10. Fits(r, z, p, z.shares) /\ ~Fits(r, z, p, z.shares + LotOf[r.symbol])
    BY <2>3, <2>8, <2>9
  <2>11. ASSUME NEW sym \in Held, ~RiskKnown(sym) PROVE FALSE
    <3>1. account # {} /\ PortfolioBlockers = {"PORTFOLIO_RISK_INCOMPLETE"}
      BY <2>11 DEF PortfolioBlockers
    <3> QED
      BY <2>3, <3>1
  <2> QED
    BY <2>10, <2>11
<1> QED
  BY <1>1 DEF PlansFit

\* Who follows a plan of the page stays within every limit of the account, with what is held
\* already, and one lot more would not: for any board, quotes, accounts and lots.
THEOREM PlansFitHolds == BriefSpec => []PlansFit
<1>1. BriefInv => PlansFit
  BY BriefAssumption, InvImpliesPlansFit
<1> QED
  BY <1>1, BriefInvariant, PTL

-----------------------------------------------------------------------------
\* What the builders return is what the contracts of types.py accept. First the verdict.
Statuses == {"LIVE", "DELAYED", "STALE", "UNKNOWN"}
SignalStates == {"COLD", "WATCH", "ARMED_PULLBACK", "ARMED_BREAKOUT", "TRIGGERED", "ACTIVE", "TRIM", "OVEREXTENDED",
                 "EXIT", "INVALIDATED", "EXPIRED", "DATA_INVALID"}
ActionsFor(held) == IF held THEN DOMAIN HoldingRank ELSE DOMAIN CoreRank

LEMMA QuoteStatusIs ==
  ASSUME NEW q, IsQuote(q)
  PROVE QuoteStatus(q) \in Statuses
<1>1. CASE q = NoTick
  BY <1>1 DEF QuoteStatus, Statuses
<1>2. CASE q # NoTick
  <2>1. PICK a, b : a = q.observed /\ b = q.aged
    OBVIOUS
  <2>2. a \in Statuses /\ b \in Statuses
    BY <1>2, <2>1 DEF IsQuote, Statuses
  <2>3. \A s \in Statuses : Severity[s] \in Int
    BY DEF Statuses, Severity
  <2>4. \E s \in {a, b} : \A t \in {a, b} : Severity[t] <= Severity[s]
    <3>1. Severity[a] \in Int /\ Severity[b] \in Int
      BY <2>2, <2>3
    <3>2. Severity[a] <= Severity[b] \/ Severity[b] <= Severity[a]
      BY <3>1
    <3>3. Severity[a] <= Severity[a] /\ Severity[b] <= Severity[b]
      BY <3>1
    <3> QED
      BY <3>2, <3>3
  <2>5. WorstStatus({a, b}) \in {a, b}
    BY <2>4 DEF WorstStatus
  <2> QED
    BY <1>2, <2>1, <2>2, <2>5 DEF QuoteStatus
<1> QED
  BY <1>1, <1>2

LEMMA VerdictIs ==
  ASSUME NEW s, s.state \in SignalStates, NEW q, QuoteStatus(q) \in Statuses, NEW held \in BOOLEAN,
         NEW v, v = MapSignalToAction(s, q, held)
  PROVE /\ VerdictContract(v, QuoteStatus(q), held) /\ v.action \in ActionsFor(held)
        /\ QuoteStatus(q) \in {"STALE", "UNKNOWN"} => v.action = "DATA_BLOCKED"
<1>1. PICK status : status = QuoteStatus(q)
  OBVIOUS
<1>2. PICK action : action = ActionOf(held)[s.state]
  OBVIOUS
<1>3. ASSUME s.state # "DATA_INVALID"
      PROVE /\ held => action \in {"WARNING", "HOLD", "TRIM", "EXIT"}
            /\ ~held => action \in {"WATCH", "WAIT_PULLBACK", "WAIT_BREAKOUT", "EXECUTABLE", "AVOID"}
            /\ ~held /\ action = "EXECUTABLE" => s.state = "TRIGGERED"
  BY <1>2, <1>3 DEF ActionOf, SignalStates
<1>4. DOMAIN HoldingRank = {"EXIT", "TRIM", "WARNING", "HOLD", "DATA_BLOCKED"}
  BY DEF HoldingRank
<1>5. DOMAIN CoreRank = {"EXECUTABLE", "WAIT_PULLBACK", "WAIT_BREAKOUT", "WATCH", "AVOID", "DATA_BLOCKED"}
  BY DEF CoreRank
<1>6. CASE v = Verdict("DATA_BLOCKED", FALSE, {"DATA_UNAVAILABLE"}) \/ v = Verdict("DATA_BLOCKED", FALSE, {"EXECUTION_DATA_NOT_LIVE"})
  <2>1. v.action = "DATA_BLOCKED" /\ ~v.actionable
    BY <1>6 DEF Verdict
  <2> QED
    BY <1>4, <1>5, <2>1 DEF VerdictContract, ActionsFor
<1>7. ASSUME held, NEW warned \in {"EXIT", "WARNING"}, v.action = warned, v.blockers = {},
             status = "LIVE"
      PROVE  VerdictContract(v, status, held) /\ v.action \in ActionsFor(held)
  <2>1. v.action \in {"EXIT", "WARNING"} /\ v.blockers = {}
    BY <1>7
  <2> QED
    BY <1>1, <1>4, <1>7, <2>1 DEF VerdictContract, ActionsFor
<1>8. CASE /\ v = Verdict(action, action \in Actionable, {}) /\ s.state # "DATA_INVALID"
           /\ status \notin {"STALE", "UNKNOWN"} /\ ~(s.state = "TRIGGERED" /\ status = "DELAYED")
  <2>1. v.action = action /\ v.blockers = {} /\ (v.actionable <=> action \in Actionable)
    <3>1. v.action = action /\ v.blockers = {}
      BY <1>8 DEF Verdict
    <3>2. Verdict(action, action \in Actionable, {}).actionable <=> action \in Actionable
      BY DEF Verdict
    <3> QED
      BY <1>8, <3>1, <3>2
  <2>2. s.state = "TRIGGERED" => status = "LIVE"
    BY <1>1, <1>8 DEF Statuses
  <2>3. action \in ActionsFor(held)
    BY <1>3, <1>4, <1>5, <1>8 DEF ActionsFor
  <2> QED
    BY <1>1, <1>3, <1>8, <2>1, <2>2, <2>3 DEF VerdictContract, Actionable
<1> DEFINE Unusable == status \in {"STALE", "UNKNOWN"} \/ s.state = "DATA_INVALID"
           Guarded == held /\ status = "LIVE" /\ s.state # "DATA_INVALID"
           Late == s.state = "TRIGGERED" /\ status = "DELAYED"
<1>9. CASE Unusable
  <2>1. v = Verdict("DATA_BLOCKED", FALSE, {"DATA_UNAVAILABLE"})
    BY <1>1, <1>9 DEF MapSignalToAction
  <2> QED
    BY <1>6, <2>1
<1>10. CASE ~Unusable /\ Guarded /\ Breached(s, q)
  <2>1. v = Verdict("EXIT", TRUE, {})
    BY <1>1, <1>10 DEF MapSignalToAction
  <2>2. v.action = "EXIT" /\ v.blockers = {}
    BY <2>1 DEF Verdict
  <2> QED
    BY <1>1, <1>7, <1>10, <2>2
<1>11. CASE ~Unusable /\ Guarded /\ ~Breached(s, q) /\ Near(s, q)
  <2>1. v = Verdict("WARNING", FALSE, {})
    BY <1>1, <1>11 DEF MapSignalToAction
  <2>2. v.action = "WARNING" /\ v.blockers = {}
    BY <2>1 DEF Verdict
  <2> QED
    BY <1>1, <1>7, <1>11, <2>2
<1>12. CASE ~Unusable /\ ~(Guarded /\ (Breached(s, q) \/ Near(s, q))) /\ Late
  <2>1. v = Verdict("DATA_BLOCKED", FALSE, {"EXECUTION_DATA_NOT_LIVE"})
    BY <1>1, <1>12 DEF MapSignalToAction
  <2> QED
    BY <1>6, <2>1
<1>13. CASE ~Unusable /\ ~(Guarded /\ (Breached(s, q) \/ Near(s, q))) /\ ~Late
  <2>1. v = Verdict(action, action \in Actionable, {})
    BY <1>1, <1>2, <1>13 DEF MapSignalToAction
  <2> QED
    BY <1>8, <1>13, <2>1
<1> HIDE DEF Unusable, Guarded, Late
<1> QED
  BY <1>9, <1>10, <1>11, <1>12, <1>13

-----------------------------------------------------------------------------
\* Then the size: a number of lots the equity pays for, unless something blocks it.
LEMMA SizedParts ==
  ASSUME NEW n, NEW e, NEW b, NEW z, z = Sized(n, e, b)
  PROVE z.shares = n /\ z.entry = e /\ z.blockers = b /\ (z.allowed <=> b = {})
<1>1. Sized(n, e, b).shares = n /\ Sized(n, e, b).entry = e /\ Sized(n, e, b).blockers = b
  BY DEF Sized
<1>2. Sized(n, e, b).allowed <=> b = {}
  BY DEF Sized
<1> QED
  BY <1>1, <1>2

LEMMA LotsDivide ==
  ASSUME NEW k \in Nat, NEW lot \in Nat \ {0}
  PROVE (k * lot) % lot = 0
<1>1. PICK n \in Nat : n = k * lot
  OBVIOUS
<1>2. n \div lot \in Nat /\ \A m \in Nat : m <= n \div lot <=> m * lot <= n
  BY QuotientIs
<1>3. k <= n \div lot
  BY <1>1, <1>2
<1>4. n % lot \in 0 .. lot - 1 /\ n = (n \div lot) * lot + (n % lot)
  OBVIOUS
<1>5. PICK d \in Nat : n \div lot = k + d
  <2>1. (n \div lot) - k \in Nat /\ n \div lot = k + ((n \div lot) - k)
    BY <1>2, <1>3
  <2> QED
    BY <2>1
<1>6. (n \div lot) * lot = n + d * lot /\ d * lot \in Nat
  BY <1>1, <1>5
<1> QED
  BY <1>1, <1>4, <1>6

\* What a sizing returns, and that what blocks it is its.
SizeAccepted(z, sym, p, hard) == SizeContract(z, sym, p) /\ (hard # {} \/ z.blockers # {} => ~z.allowed)

LEMMA SizeIsAccepted ==
  ASSUME BriefAssumption, BriefInv, NEW p \in account, NEW s \in board, NEW entry \in Nat, NEW hard,
         NEW z \in SizePosition(p, s, entry, hard)
  PROVE SizeAccepted(z, s.symbol, p, hard)
<1>1. PICK lot, risk, heat, exposure :
        lot = LotOf[s.symbol] /\ risk = entry - s.stop /\ heat = TotalRisk /\ exposure = Exposure(SectorOf[s.symbol])
  OBVIOUS
<1>2. PICK least : least = Min(ShareLimits(p, entry, risk, Ratio(heat, p), Ratio(exposure, p)))
  OBVIOUS
<1>3. /\ ~(entry <= s.stop) /\ lot # 0
      /\ z = IF hard # {} THEN Sized(0, entry, hard) ELSE SizedIn(lot, least, entry)
  BY <1>1, <1>2 DEF SizePosition
<1>4. s.stop \in Nat /\ s.symbol \in Symbols /\ LotOf[s.symbol] \in Nat
  BY DEF BriefInv, BriefAssumption
<1>5. entry \in Nat \ {0} /\ risk \in Nat \ {0} /\ lot \in Nat \ {0} /\ heat \in Int /\ exposure \in Int
  BY <1>1, <1>3, <1>4, TotalRiskIsInt, ExposureIsInt
<1>6. IsProfile(p) /\ p.equity \in Nat /\ p.cash \in Nat /\ p.cash <= p.equity
  BY DEF BriefInv, IsProfile, ProfileAccepted
<1>7. PICK limits : limits = ShareLimits(p, entry, risk, Ratio(heat, p), Ratio(exposure, p))
  OBVIOUS
<1>8. least \in Nat
  <2>1. limits \subseteq Nat /\ limits # {}
    BY <1>5, <1>6, <1>7, LimitsAre
  <2> QED
    BY <1>2, <1>7, <2>1, LeastNatural
<1>9. ASSUME NEW b, b # {}, z = Sized(0, entry, b) PROVE SizeAccepted(z, s.symbol, p, hard)
  <2>1. z.shares = 0 /\ z.entry = entry /\ z.blockers = b /\ ~z.allowed
    BY <1>9, SizedParts
  <2>2. 0 % lot = 0 /\ 0 * entry = 0 /\ 0 >= 0
    BY <1>5
  <2>3. z.shares >= 0 /\ z.shares % LotOf[s.symbol] = 0 /\ z.shares * z.entry <= p.equity
    BY <1>1, <1>6, <2>1, <2>2
  <2> QED
    BY <1>9, <2>1, <2>3 DEF SizeAccepted, SizeContract
<1>10. CASE hard # {}
  BY <1>3, <1>9, <1>10
<1>11. CASE hard = {} /\ least < lot
  <2>1. z = Sized(0, entry, {"BELOW_MINIMUM_LOT"})
    BY <1>3, <1>11 DEF SizedIn
  <2>2. {"BELOW_MINIMUM_LOT"} # {}
    OBVIOUS
  <2> QED
    BY <1>9, <2>1, <2>2
<1>12. CASE hard = {} /\ ~(least < lot)
  <2>1. z = SizedIn(lot, least, entry)
    BY <1>3, <1>12
  <2>2. z = Sized((least \div lot) * lot, entry, {})
    BY <1>12, <2>1 DEF SizedIn
  <2>3. z.shares = (least \div lot) * lot /\ z.entry = entry /\ z.blockers = {} /\ z.allowed
    BY <2>2, SizedParts
  <2>4. AllowedSize(z, p, entry, risk, heat, exposure, lot)
    BY <1>2, <2>1, <2>3 DEF AllowedSize
  <2>5. z.shares \in Nat /\ FitsIn(p, z.shares, entry, risk, heat, exposure)
    BY <1>5, <1>6, <2>4, SizedFits
  <2>6. lot <= z.shares
    <3>1. lot <= least
      BY <1>5, <1>8, <1>12
    <3> QED
      BY <1>5, <1>8, <2>3, <3>1, LotsAre
  <2>7. z.shares % lot = 0
    <3>1. least \div lot \in Nat
      BY <1>5, <1>8, QuotientIs
    <3> QED
      BY <1>5, <2>3, <3>1, LotsDivide
  <2>8. z.shares * z.entry <= p.equity
    <3>1. PICK worth : worth = z.shares * entry
      OBVIOUS
    <3>2. worth \in Nat /\ worth <= p.cash
      <4>1. \A a, b \in Nat : a * b \in Nat
        OBVIOUS
      <4> QED
        BY <2>5, <3>1, <4>1 DEF FitsIn
    <3> QED
      BY <1>6, <2>3, <3>1, <3>2
  <2>9. z.shares > 0
    BY <1>5, <2>5, <2>6
  <2> QED
    BY <1>1, <1>12, <2>3, <2>5, <2>7, <2>8, <2>9 DEF SizeAccepted, SizeContract
<1> QED
  BY <1>10, <1>11, <1>12

-----------------------------------------------------------------------------
\* Then the plan and the record: nothing is advised on data that is not usable.
Accepted(r, held) ==
  /\ RecordContract(r, held) /\ r.action \in ActionsFor(held)
  /\ r.status \in {"STALE", "UNKNOWN"} => r.action = "DATA_BLOCKED"

LEMMA RecordParts ==
  ASSUME NEW s, NEW q, NEW action, NEW v, NEW hard, NEW soft, NEW plan, NEW r, r = Record(s, q, action, v, hard, soft, plan)
  PROVE /\ r.symbol = s.symbol /\ r.strategy = s.strategy /\ r.status = QuoteStatus(q) /\ r.action = action
        /\ r.verdict = v /\ r.hard = hard /\ r.soft = soft /\ r.plan = plan
BY DEF Record

\* A record without a plan.
LEMMA PlainIsAccepted ==
  ASSUME NEW s, NEW q, NEW held, NEW v, VerdictContract(v, QuoteStatus(q), held), NEW action, NEW hard, NEW soft,
         NEW r, r = Record(s, q, action, v, hard, soft, {}), action \notin Opening
  PROVE RecordContract(r, held)
<1>1. r.status = QuoteStatus(q) /\ r.verdict = v /\ r.action = action /\ r.plan = {}
  BY RecordParts
<1> QED
  BY <1>1 DEF RecordContract, Opening

\* What is known of the sizes a plan is made with: one at most, which is blocked if anything blocks.
SizesBlocked(sizes, hard) ==
  /\ \A z \in sizes : \A y \in sizes : z = y
  /\ \A z \in sizes : hard # {} \/ z.blockers # {} => ~z.allowed

SizesContracted(r) == \A pl \in r.plan : \A z \in pl.size : \A p \in account : SizeContract(z, r.symbol, p)

LEMMA PlannedIsAccepted ==
  ASSUME NEW s, NEW q, NEW held \in BOOLEAN, ~held, NEW v, VerdictContract(v, QuoteStatus(q), held), v.action \in Opening,
         NEW profile, NEW hard, NEW soft, NEW sizes, SizesBlocked(sizes, hard),
         NEW all, all = hard \union SizeBlockers(profile, sizes),
         NEW r \in PlannedRecord(s, q, profile, v, all, soft, sizes), SizesContracted(r)
  PROVE RecordContract(r, held) /\ r.action \in ActionsFor(held) /\ r.status = QuoteStatus(q)
<1>1. PICK action, bold :
        /\ r \in {Record(s, q, made.action, v, all, soft, {made}) : made \in BuildTradePlan(s, action, sizes, all, soft, bold)}
        /\ action \in {v.action, "DATA_BLOCKED", "AVOID"}
        /\ bold # {} => soft # {} /\ QuoteStatus(q) = "LIVE"
  <2>1. PICK action : action = IF \E z \in sizes : ~z.allowed THEN BlockedAction(all) ELSE v.action
    OBVIOUS
  <2>2. PICK bold : bold = IF /\ soft # {} /\ all = {} /\ QuoteStatus(q) = "LIVE" /\ action \in {"WAIT_PULLBACK", "WAIT_BREAKOUT"}
                              /\ \E p \in profile : p.mode # "CONSERVATIVE"
                           THEN {"EXECUTABLE"} ELSE {}
    OBVIOUS
  <2>3. r \in {Record(s, q, made.action, v, all, soft, {made}) : made \in BuildTradePlan(s, action, sizes, all, soft, bold)}
    BY <2>1, <2>2 DEF PlannedRecord
  <2>4. action \in {v.action, "DATA_BLOCKED", "AVOID"}
    BY <2>1 DEF BlockedAction
  <2> QED
    BY <2>2, <2>3, <2>4
<1>2. PICK plan \in BuildTradePlan(s, action, sizes, all, soft, bold) : r = Record(s, q, plan.action, v, all, soft, {plan})
  BY <1>1
<1>3. PICK blocked : blocked = all \union UNION {z.blockers : z \in sizes}
  OBVIOUS
<1>4. /\ plan.action = EffectiveAction(action, blocked) /\ plan.size = sizes /\ plan.hard = blocked /\ plan.soft = soft
      /\ plan.aggressive = IF soft # {} /\ blocked = {} THEN bold ELSE {}
  <2>1. PICK aggressive : aggressive = IF soft # {} /\ blocked = {} THEN bold ELSE {}
    OBVIOUS
  <2>2. plan \in {[action |-> EffectiveAction(action, blocked), size |-> sizes, hard |-> blocked, soft |-> soft,
                   aggressive |-> aggressive]}
    BY <1>2, <1>3, <2>1 DEF BuildTradePlan
  <2> QED
    BY <2>1, <2>2
<1>5. r.status = QuoteStatus(q) /\ r.action = plan.action /\ r.verdict = v /\ r.plan = {plan}
  BY <1>2, RecordParts
<1>6. ASSUME NEW z \in sizes, blocked # {} PROVE ~z.allowed
  <2>1. CASE hard # {}
    BY <2>1 DEF SizesBlocked
  <2>2. CASE hard = {}
    <3>1. blocked = SizeBlockers(profile, sizes) \union UNION {y.blockers : y \in sizes}
      BY <1>3, <2>2
    <3>2. \A y \in sizes : y = z
      BY DEF SizesBlocked
    <3>3. z.blockers # {}
      BY <1>6, <3>1, <3>2 DEF SizeBlockers
    <3> QED
      BY <3>3 DEF SizesBlocked
  <2> QED
    BY <2>1, <2>2
<1>7. plan.action = "EXECUTABLE" => blocked = {} /\ QuoteStatus(q) = "LIVE"
  <2>1. ASSUME plan.action = "EXECUTABLE" PROVE blocked = {} /\ action = "EXECUTABLE"
    BY <1>4, <2>1 DEF EffectiveAction
  <2>2. action = "EXECUTABLE" => QuoteStatus(q) = "LIVE"
    BY <1>1 DEF VerdictContract
  <2> QED
    BY <2>1, <2>2
<1>8. PlanContract(plan, QuoteStatus(q))
  <2>1. blocked # {} => plan.aggressive = {} /\ plan.action # "EXECUTABLE" /\ \A z \in sizes : ~z.allowed
    BY <1>4, <1>6, <1>7
  <2>2. \A z \in sizes : z.blockers \subseteq blocked
    BY <1>3
  <2>3. plan.aggressive # {} => soft # {} /\ QuoteStatus(q) = "LIVE"
    BY <1>1, <1>4
  <2> QED
    BY <1>4, <1>7, <2>1, <2>2, <2>3 DEF PlanContract
<1>9. r.action \in ActionsFor(held)
  <2>1. r.action \in {"AVOID", "DATA_BLOCKED", "EXECUTABLE", "WAIT_PULLBACK", "WAIT_BREAKOUT"}
    BY <1>1, <1>4, <1>5 DEF EffectiveAction, Opening
  <2>2. DOMAIN CoreRank = {"EXECUTABLE", "WAIT_PULLBACK", "WAIT_BREAKOUT", "WATCH", "AVOID", "DATA_BLOCKED"}
    BY DEF CoreRank
  <2> QED
    BY <2>1, <2>2 DEF ActionsFor
<1>10. \A pl \in r.plan :
         /\ pl.action = r.action /\ PlanContract(pl, r.status)
         /\ \A z \in pl.size, p \in account : SizeContract(z, r.symbol, p)
  BY <1>5, <1>8 DEF SizesContracted
<1>11. r.plan # {} /\ (r.action = "EXECUTABLE" => r.status = "LIVE")
  BY <1>5, <1>7
<1> QED
  BY <1>5, <1>9, <1>10, <1>11 DEF RecordContract

\* So is whatever is built for a signal of the board.
LEMMA BuiltIsAccepted ==
  ASSUME BriefAssumption, BriefInv, NEW s \in board, NEW held \in BOOLEAN, NEW q, IsQuote(q), NEW external,
         NEW profile, profile = (IF held THEN {} ELSE account), NEW r \in BuildSignalRecord(s, q, held, profile, external)
  PROVE r.symbol = s.symbol /\ r.strategy = s.strategy /\ Accepted(r, held)
<1>1. PICK v, soft : v = MapSignalToAction(s, q, held) /\ soft = SoftBlockers(v.action, QuoteStatus(q), s.state)
  OBVIOUS
<1>2. PICK hard : hard = v.blockers \union external
  OBVIOUS
<1>3. r \in JudgedRecord(s, q, profile, v, hard, soft)
  BY <1>1, <1>2 DEF BuildSignalRecord
<1>4. s.state \in SignalStates /\ {s.low, s.high, s.trigger, s.stop} \subseteq Nat
  BY DEF BriefInv, BriefAssumption, SignalStates
<1>5. QuoteStatus(q) \in Statuses
  BY QuoteStatusIs
<1>6. /\ VerdictContract(v, QuoteStatus(q), held) /\ v.action \in ActionsFor(held)
      /\ QuoteStatus(q) \in {"STALE", "UNKNOWN"} => v.action = "DATA_BLOCKED"
  BY <1>1, <1>4, <1>5, VerdictIs
<1>7. CASE r = Record(s, q, v.action, v, hard, soft, {}) /\ v.action \notin Opening
  <2>1. RecordContract(r, held)
    BY <1>6, <1>7, PlainIsAccepted
  <2>2. r.symbol = s.symbol /\ r.strategy = s.strategy /\ r.status = QuoteStatus(q) /\ r.action = v.action
    BY <1>7, RecordParts
  <2> QED
    BY <1>6, <2>1, <2>2 DEF Accepted
<1>8. ASSUME v.action \in Opening PROVE ~held /\ QuoteStatus(q) \notin {"STALE", "UNKNOWN"}
  <2>1. DOMAIN HoldingRank = {"EXIT", "TRIM", "WARNING", "HOLD", "DATA_BLOCKED"}
    BY DEF HoldingRank
  <2> QED
    BY <1>6, <1>8, <2>1 DEF ActionsFor, Opening
<1>9. CASE v.action \in Opening /\ r \in {Record(s, q, "AVOID", v, hard \union {"INVALID_TRADE_PLAN"}, soft, {})}
  <2>1. r = Record(s, q, "AVOID", v, hard \union {"INVALID_TRADE_PLAN"}, soft, {}) /\ "AVOID" \notin Opening
    BY <1>9 DEF Opening
  <2>2. RecordContract(r, held)
    BY <1>6, <2>1, PlainIsAccepted
  <2>3. r.symbol = s.symbol /\ r.strategy = s.strategy /\ r.status = QuoteStatus(q) /\ r.action = "AVOID"
    BY <2>1, RecordParts
  <2>4. "AVOID" \in DOMAIN CoreRank
    BY DEF CoreRank
  <2> QED
    BY <1>8, <1>9, <2>2, <2>3, <2>4 DEF Accepted, ActionsFor
<1>10. CASE v.action \in Opening /\ r \in OpeningRecord(s, q, profile, v, hard, soft)
  <2>1. ~held /\ profile = account /\ QuoteStatus(q) \notin {"STALE", "UNKNOWN"}
    BY <1>8, <1>10
  <2>2. PICK entry : entry = EntryReference(s, v.action, q)
    OBVIOUS
  <2>3. entry \in Nat
    BY <1>4, <2>2 DEF EntryReference, IsQuote
  <2>4. PICK sizes : sizes = UNION {SizePosition(p, s, entry, hard) : p \in profile}
    OBVIOUS
  <2>5. PICK all : all = hard \union SizeBlockers(profile, sizes)
    OBVIOUS
  <2>6. r \in PlannedRecord(s, q, profile, v, all, soft, sizes)
    BY <1>10, <2>2, <2>4, <2>5 DEF OpeningRecord
  <2>7. ASSUME NEW z \in sizes, NEW p \in account PROVE z \in SizePosition(p, s, entry, hard) /\ SizeAccepted(z, s.symbol, p, hard)
    <3>1. PICK o \in account : z \in SizePosition(o, s, entry, hard)
      BY <2>1, <2>4
    <3>2. o = p
      BY DEF BriefInv
    <3> QED
      BY <2>3, <3>1, <3>2, SizeIsAccepted
  <2>8. SizesBlocked(sizes, hard)
    <3>1. ASSUME NEW z \in sizes, NEW y \in sizes PROVE z = y
      <4>1. PICK p : p \in account
        BY <2>1, <2>4, <3>1
      <4>2. z \in SizePosition(p, s, entry, hard) /\ y \in SizePosition(p, s, entry, hard)
        BY <2>7, <4>1
      <4> QED
        BY <4>2 DEF SizePosition
    <3>2. ASSUME NEW z \in sizes, hard # {} \/ z.blockers # {} PROVE ~z.allowed
      <4>1. PICK p : p \in account
        BY <2>1, <2>4, <3>2
      <4> QED
        BY <2>7, <3>2, <4>1 DEF SizeAccepted
    <3> QED
      BY <3>1, <3>2 DEF SizesBlocked
  <2>9. r.symbol = s.symbol /\ r.strategy = s.strategy /\ \A pl \in r.plan : pl.size = sizes
    <3>1. PICK action, bold :
            r \in {Record(s, q, made.action, v, all, soft, {made}) : made \in BuildTradePlan(s, action, sizes, all, soft, bold)}
      BY <2>6 DEF PlannedRecord
    <3>2. PICK made : r = Record(s, q, made.action, v, all, soft, {made})
      BY ONLY <3>1
    <3>3. r.symbol = s.symbol /\ r.strategy = s.strategy
      BY <3>2 DEF Record
    <3> QED
      BY <2>6, <3>3, PlannedRecordIs
  <2>10. SizesContracted(r)
    BY <2>7, <2>9 DEF SizeAccepted, SizesContracted
  <2>11. RecordContract(r, held) /\ r.action \in ActionsFor(held) /\ r.status = QuoteStatus(q)
    BY <1>6, <1>10, <2>1, <2>5, <2>6, <2>8, <2>10, PlannedIsAccepted
  <2> QED
    BY <2>1, <2>9, <2>11 DEF Accepted
<1> QED
  BY <1>3, <1>7, <1>9, <1>10 DEF JudgedRecord


\* A signal has one record at most.
LEMMA OneIsBuilt ==
  ASSUME NEW s, NEW q, NEW held, NEW profile, NEW external,
         NEW r \in BuildSignalRecord(s, q, held, profile, external), NEW o \in BuildSignalRecord(s, q, held, profile, external)
  PROVE r = o
<1>1. PICK v, soft : v = MapSignalToAction(s, q, held) /\ soft = SoftBlockers(v.action, QuoteStatus(q), s.state)
  OBVIOUS
<1>2. PICK hard : hard = v.blockers \union external
  OBVIOUS
<1>3. r \in JudgedRecord(s, q, profile, v, hard, soft) /\ o \in JudgedRecord(s, q, profile, v, hard, soft)
  BY <1>1, <1>2 DEF BuildSignalRecord
<1>4. CASE r \in OpeningRecord(s, q, profile, v, hard, soft) /\ o \in OpeningRecord(s, q, profile, v, hard, soft)
  <2>1. PICK sizes : sizes = UNION {SizePosition(p, s, EntryReference(s, v.action, q), hard) : p \in profile}
    OBVIOUS
  <2>2. PICK all : all = hard \union SizeBlockers(profile, sizes)
    OBVIOUS
  <2>3. r \in PlannedRecord(s, q, profile, v, all, soft, sizes) /\ o \in PlannedRecord(s, q, profile, v, all, soft, sizes)
    BY <1>4, <2>1, <2>2 DEF OpeningRecord
  <2>4. PICK action, bold :
          /\ r \in {Record(s, q, made.action, v, all, soft, {made}) : made \in BuildTradePlan(s, action, sizes, all, soft, bold)}
          /\ o \in {Record(s, q, made.action, v, all, soft, {made}) : made \in BuildTradePlan(s, action, sizes, all, soft, bold)}
    <3>1. PICK action : action = IF \E z \in sizes : ~z.allowed THEN BlockedAction(all) ELSE v.action
      OBVIOUS
    <3>2. PICK bold : bold = IF /\ soft # {} /\ all = {} /\ QuoteStatus(q) = "LIVE" /\ action \in {"WAIT_PULLBACK", "WAIT_BREAKOUT"}
                                /\ \E p \in profile : p.mode # "CONSERVATIVE"
                             THEN {"EXECUTABLE"} ELSE {}
      OBVIOUS
    <3>3. r \in {Record(s, q, made.action, v, all, soft, {made}) : made \in BuildTradePlan(s, action, sizes, all, soft, bold)}
      BY <2>3, <3>1, <3>2 DEF PlannedRecord
    <3>4. o \in {Record(s, q, made.action, v, all, soft, {made}) : made \in BuildTradePlan(s, action, sizes, all, soft, bold)}
      BY <2>3, <3>1, <3>2 DEF PlannedRecord
    <3> QED
      BY <3>3, <3>4
  <2>5. PICK made, plan \in BuildTradePlan(s, action, sizes, all, soft, bold) :
          r = Record(s, q, made.action, v, all, soft, {made}) /\ o = Record(s, q, plan.action, v, all, soft, {plan})
    BY <2>4
  <2>6. made = plan
    <3>1. PICK blocked : blocked = all \union UNION {z.blockers : z \in sizes}
      OBVIOUS
    <3>2. PICK one : one = [action |-> EffectiveAction(action, blocked), size |-> sizes, hard |-> blocked, soft |-> soft,
                            aggressive |-> IF soft # {} /\ blocked = {} THEN bold ELSE {}]
      OBVIOUS
    <3>3. made \in {one} /\ plan \in {one}
      BY <2>5, <3>1, <3>2 DEF BuildTradePlan
    <3> QED
      BY <3>3
  <2> QED
    BY <2>5, <2>6
<1>5. CASE r \notin OpeningRecord(s, q, profile, v, hard, soft) \/ o \notin OpeningRecord(s, q, profile, v, hard, soft)
  BY <1>3, <1>5 DEF JudgedRecord
<1> QED
  BY <1>4, <1>5

\* The sizes of a signal are those of the one profile, at the entry.
SizesOf(profile, s, entry, hard) == UNION {SizePosition(p, s, entry, hard) : p \in profile}

LEMMA SizesAre ==
  ASSUME NEW s, s.stop \in Nat, NEW entry \in Nat, NEW hard, NEW profile,
         NEW sizes, sizes = SizesOf(profile, s, entry, hard)
  PROVE /\ sizes # {} <=> profile # {} /\ s.stop < entry /\ LotOf[s.symbol] # 0
        /\ \A z \in sizes : z.entry = entry
<1>1. ASSUME NEW p \in profile, NEW z \in SizePosition(p, s, entry, hard)
      PROVE s.stop < entry /\ LotOf[s.symbol] # 0 /\ z.entry = entry
  <2>1. PICK least : least = Min(ShareLimits(p, entry, entry - s.stop, Ratio(TotalRisk, p), Ratio(Exposure(SectorOf[s.symbol]), p)))
    OBVIOUS
  <2>2. /\ ~(entry <= s.stop) /\ LotOf[s.symbol] # 0
        /\ z = IF hard # {} THEN Sized(0, entry, hard) ELSE SizedIn(LotOf[s.symbol], least, entry)
    BY <1>1, <2>1 DEF SizePosition
  <2>3. z.entry = entry
    BY <2>2 DEF SizedIn, Sized
  <2> QED
    BY <2>2, <2>3
<1>2. ASSUME NEW p \in profile, s.stop < entry, LotOf[s.symbol] # 0 PROVE SizePosition(p, s, entry, hard) # {}
  <2>1. ~(entry <= s.stop \/ LotOf[s.symbol] = 0)
    BY <1>2
  <2> QED
    BY <2>1 DEF SizePosition
<1>3. ASSUME NEW z \in sizes PROVE profile # {} /\ s.stop < entry /\ LotOf[s.symbol] # 0 /\ z.entry = entry
  <2>1. PICK p \in profile : z \in SizePosition(p, s, entry, hard)
    BY DEF SizesOf
  <2> QED
    BY <1>1, <2>1
<1>4. ASSUME profile # {}, s.stop < entry, LotOf[s.symbol] # 0 PROVE sizes # {}
  <2>1. PICK p : p \in profile
    BY <1>4
  <2>2. PICK z : z \in SizePosition(p, s, entry, hard)
    BY <1>2, <1>4, <2>1
  <2>3. z \in sizes
    BY <2>1, <2>2 DEF SizesOf
  <2> QED
    BY <2>3
<1> QED
  BY <1>3, <1>4

\* No builder refuses what another returned, but for the prices that NoRecordFor names.
LEMMA NothingBuilt ==
  ASSUME BriefAssumption, BriefInv, NEW s \in board, NEW held \in BOOLEAN, NEW q, IsQuote(q), NEW external,
         NEW profile, profile = (IF held THEN {} ELSE account), NEW v, v = MapSignalToAction(s, q, held),
         NEW entry, entry = EntryReference(s, v.action, q)
  PROVE BuildSignalRecord(s, q, held, profile, external) = {}
          <=> \/ q # NoTick /\ q.last = 0
              \/ /\ v.action \in Opening /\ PricesGiven(s)
                 /\ ~PricesOrdered(s) \/ (account # {} /\ LotOf[s.symbol] > 0 /\ s.stop < entry /\ entry < s.low)
<1>1. CASE q # NoTick /\ q.last = 0
  BY <1>1 DEF BuildSignalRecord
<1>2. CASE ~(q # NoTick /\ q.last = 0)
  <2>1. PICK hard, soft : hard = v.blockers \union external /\ soft = SoftBlockers(v.action, QuoteStatus(q), s.state)
    OBVIOUS
  <2>2. BuildSignalRecord(s, q, held, profile, external) = JudgedRecord(s, q, profile, v, hard, soft)
    BY <1>2, <2>1 DEF BuildSignalRecord
  <2>3. CASE v.action \notin Opening \/ ~PricesGiven(s)
    BY <1>2, <2>2, <2>3 DEF JudgedRecord
  <2>4. CASE v.action \in Opening /\ PricesGiven(s)
    <3>1. s.state \in SignalStates /\ {s.low, s.high, s.trigger, s.stop} \subseteq Nat /\ q.last \in Nat
          /\ Chase \in Nat /\ s.symbol \in Symbols /\ LotOf[s.symbol] \in Nat
      BY DEF BriefInv, BriefAssumption, SignalStates, IsQuote
    <3>2. profile = account
      <4>1. DOMAIN HoldingRank = {"EXIT", "TRIM", "WARNING", "HOLD", "DATA_BLOCKED"}
        BY DEF HoldingRank
      <4>2. v.action \in ActionsFor(held)
        BY <3>1, QuoteStatusIs, VerdictIs
      <4> QED
        BY <2>4, <4>1, <4>2 DEF ActionsFor, Opening
    <3>3. entry \in Nat
      BY <3>1 DEF EntryReference
    <3>4. PICK sizes : sizes = UNION {SizePosition(p, s, entry, hard) : p \in profile}
      OBVIOUS
    <3>5. PICK all : all = hard \union SizeBlockers(profile, sizes)
      OBVIOUS
    <3>6. JudgedRecord(s, q, profile, v, hard, soft) = PlannedRecord(s, q, profile, v, all, soft, sizes)
      BY <2>4, <3>4, <3>5 DEF JudgedRecord, OpeningRecord
    <3>7. PICK fits \in BOOLEAN : fits <=> PricesOrdered(s) /\ \A z \in sizes : s.low <= z.entry /\ z.entry <= NoChase(s)
      OBVIOUS
    <3>8. PlannedRecord(s, q, profile, v, all, soft, sizes) = {} <=> ~fits
      <4>1. PICK action, bold :
              PlannedRecord(s, q, profile, v, all, soft, sizes)
                = {Record(s, q, made.action, v, all, soft, {made}) : made \in BuildTradePlan(s, action, sizes, all, soft, bold)}
        <5>1. PICK action : action = IF \E z \in sizes : ~z.allowed THEN BlockedAction(all) ELSE v.action
          OBVIOUS
        <5>2. PICK bold : bold = IF /\ soft # {} /\ all = {} /\ QuoteStatus(q) = "LIVE" /\ action \in {"WAIT_PULLBACK", "WAIT_BREAKOUT"}
                                    /\ \E p \in profile : p.mode # "CONSERVATIVE"
                                 THEN {"EXECUTABLE"} ELSE {}
          OBVIOUS
        <5>3. PlannedRecord(s, q, profile, v, all, soft, sizes)
                = {Record(s, q, made.action, v, all, soft, {made}) : made \in BuildTradePlan(s, action, sizes, all, soft, bold)}
          BY <5>1, <5>2 DEF PlannedRecord
        <5> QED
          BY <5>3
      <4>2. BuildTradePlan(s, action, sizes, all, soft, bold) = {} <=> ~fits
        <5>1. PICK blocked : blocked = all \union UNION {z.blockers : z \in sizes}
          OBVIOUS
        <5>2. PICK one : one = [action |-> EffectiveAction(action, blocked), size |-> sizes, hard |-> blocked, soft |-> soft,
                                aggressive |-> IF soft # {} /\ blocked = {} THEN bold ELSE {}]
          OBVIOUS
        <5>3. BuildTradePlan(s, action, sizes, all, soft, bold)
                = IF PricesOrdered(s) /\ \A z \in sizes : s.low <= z.entry /\ z.entry <= NoChase(s) THEN {one} ELSE {}
          BY ONLY <5>1, <5>2 DEF BuildTradePlan
        <5> QED
          BY ONLY <3>7, <5>3
      <4>3. ASSUME NEW made \in BuildTradePlan(s, action, sizes, all, soft, bold)
            PROVE PlannedRecord(s, q, profile, v, all, soft, sizes) # {}
        <5>1. PICK r : r = Record(s, q, made.action, v, all, soft, {made})
          OBVIOUS
        <5>2. r \in PlannedRecord(s, q, profile, v, all, soft, sizes)
          BY ONLY <4>1, <4>3, <5>1
        <5> QED
          BY <5>2
      <4>4. ASSUME NEW r \in PlannedRecord(s, q, profile, v, all, soft, sizes)
            PROVE BuildTradePlan(s, action, sizes, all, soft, bold) # {}
        <5>1. PICK made : made \in BuildTradePlan(s, action, sizes, all, soft, bold)
          BY ONLY <4>1, <4>4
        <5> QED
          BY <5>1
      <4> QED
        BY <4>2, <4>3, <4>4
    <3>9. /\ sizes # {} <=> account # {} /\ s.stop < entry /\ LotOf[s.symbol] > 0
          /\ \A z \in sizes : z.entry = entry
      <4>1. /\ sizes # {} <=> profile # {} /\ s.stop < entry /\ LotOf[s.symbol] # 0
            /\ \A z \in sizes : z.entry = entry
        <5>1. s.stop \in Nat
          BY <3>1
        <5>2. sizes = SizesOf(profile, s, entry, hard)
          BY ONLY <3>4 DEF SizesOf
        <5> QED
          BY ONLY <3>3, <5>1, <5>2, SizesAre
      <4> QED
        BY <3>1, <3>2, <4>1
    <3>10. ASSUME PricesOrdered(s) PROVE entry <= NoChase(s)
      <4>1. NoChase(s) \in Nat
        <5>1. PICK top : top = Max({s.high, s.trigger})
          OBVIOUS
        <5>2. top \in Nat
          BY <3>1, <5>1, GreaterOf
        <5>3. top * Chase \in Nat
          BY <3>1, <5>2
        <5>4. (top * Chase) \div 100 \in Nat
          BY <5>3
        <5> QED
          BY <5>1, <5>2, <5>4 DEF NoChase
      <4>2. s.high <= NoChase(s) /\ s.trigger <= NoChase(s)
        BY <3>10 DEF PricesOrdered
      <4> QED
        BY <4>2 DEF EntryReference
    <3>11. fits <=> PricesOrdered(s) /\ ~(account # {} /\ LotOf[s.symbol] > 0 /\ s.stop < entry /\ entry < s.low)
      BY <3>1, <3>3, <3>7, <3>9, <3>10
    <3> QED
      BY <1>2, <2>2, <2>4, <3>6, <3>8, <3>11
  <2> QED
    BY <2>3, <2>4
<1> QED
  BY <1>1, <1>2

\* Where a record comes from.
LEMMA RecordIsBuilt ==
  ASSUME BriefAssumption, BriefInv, NEW sym \in Symbols, NEW r \in Records({sym})
  PROVE \E s \in board :
          /\ s.symbol = sym /\ r.strategy = s.strategy /\ r.symbol = sym /\ Accepted(r, sym \in Held)
          /\ r \in BuildSignalRecord(s, quotes[sym], sym \in Held, IF sym \in Held THEN {} ELSE account,
                                     IF sym \in Held THEN {} ELSE PortfolioBlockers)
<1>1. PICK s \in {t \in board : t.symbol \in {sym}} :
        r \in BuildSignalRecord(s, quotes[s.symbol], s.symbol \in Held, IF s.symbol \in Held THEN {} ELSE account,
                                IF s.symbol \in Held THEN {} ELSE PortfolioBlockers)
  BY DEF Records, RecordOf
<1>2. s \in board /\ s.symbol = sym
  OBVIOUS
<1>3. PICK q, profile, external :
        /\ q = quotes[sym] /\ profile = (IF sym \in Held THEN {} ELSE account)
        /\ external = (IF sym \in Held THEN {} ELSE PortfolioBlockers)
  OBVIOUS
<1>4. PICK held \in BOOLEAN : (held <=> sym \in Held) /\ r \in BuildSignalRecord(s, q, held, profile, external)
  <2>1. PICK held \in BOOLEAN : held = (sym \in Held)
    <3>1. (sym \in Held) \in BOOLEAN
      OBVIOUS
    <3> QED
      BY <3>1, Zenon
  <2>2. r \in BuildSignalRecord(s, q, held, profile, external)
    BY <1>1, <1>2, <1>3, <2>1
  <2>3. held <=> sym \in Held
    BY <2>1, Zenon
  <2> QED
    BY <2>2, <2>3
<1>5. IsQuote(q)
  BY <1>3 DEF BriefInv
<1>6. r.symbol = sym /\ r.strategy = s.strategy /\ Accepted(r, held)
  <2>1. profile = (IF held THEN {} ELSE account)
    BY <1>3, <1>4
  <2> QED
    BY <1>2, <1>4, <1>5, <2>1, BuiltIsAccepted
<1>7. r.symbol = sym /\ r.strategy = s.strategy /\ Accepted(r, sym \in Held)
  BY <1>4, <1>6
<1> QED
  BY <1>1, <1>2, <1>7

\* One of finitely many has the least key, and no other the same.
LEMMA FirstOfRecords ==
  ASSUME BriefAssumption, BriefInv, NEW sym \in Held, NEW records, records = Records({sym}), records # {}
  PROVE FirstOf(sym, records) \in records
<1>1. sym \in Symbols
  BY DEF Held
<1>2. ASSUME NEW r \in records PROVE r.strategy \in Nat /\ HoldingRank[r.action] \in Nat
  <2>1. PICK s \in board : r.strategy = s.strategy /\ Accepted(r, sym \in Held)
    BY <1>1, RecordIsBuilt
  <2>2. s.strategy \in Nat
    BY DEF BriefInv, BriefAssumption
  <2>3. r.action \in DOMAIN HoldingRank
    BY <2>1 DEF Accepted, ActionsFor
  <2> QED
    BY <2>1, <2>2, <2>3 DEF HoldingRank
<1>3. ASSUME NEW r \in records, NEW o \in records, r.strategy = o.strategy PROVE r = o
  <2>1. PICK q, held, profile, external :
          /\ q = quotes[sym] /\ held = (sym \in Held) /\ profile = (IF sym \in Held THEN {} ELSE account)
          /\ external = (IF sym \in Held THEN {} ELSE PortfolioBlockers)
    OBVIOUS
  <2>2. PICK s \in board : s.symbol = sym /\ r.strategy = s.strategy /\ r \in BuildSignalRecord(s, q, held, profile, external)
    BY <1>1, <2>1, RecordIsBuilt
  <2>3. PICK t \in board : t.symbol = sym /\ o.strategy = t.strategy /\ o \in BuildSignalRecord(t, q, held, profile, external)
    BY <1>1, <2>1, RecordIsBuilt
  <2>4. s = t
    <3>1. s.symbol = t.symbol /\ s.strategy = t.strategy
      BY <1>3, <2>2, <2>3
    <3>2. board \in Boards
      BY DEF BriefInv
    <3> QED
      BY <3>1, <3>2 DEF BriefAssumption
  <2> QED
    BY <2>2, <2>3, <2>4, OneIsBuilt
<1>4. PICK ranks : ranks = {HoldingRank[r.action] : r \in records}
  OBVIOUS
<1>5. PICK first \in records : \A o \in records : HoldingRank[first.action] <= HoldingRank[o.action]
  <2>1. ranks \in SUBSET Nat
    <3> SUFFICES ASSUME NEW k \in ranks PROVE k \in Nat
      OBVIOUS
    <3>1. PICK r \in records : k = HoldingRank[r.action]
      BY <1>4
    <3> QED
      BY <1>2, <3>1
  <2>2. ranks # {}
    <3>1. PICK r : r \in records
      OBVIOUS
    <3>2. HoldingRank[r.action] \in ranks
      BY <1>4, <3>1
    <3> QED
      BY <3>2
  <2>3. PICK least : least \in ranks /\ \A k \in ranks : least <= k
    BY <2>1, <2>2, LeastNatural
  <2>4. PICK first \in records : HoldingRank[first.action] = least
    BY ONLY <1>4, <2>3
  <2>5. \A o \in records : HoldingRank[o.action] \in ranks
    BY <1>4
  <2>6. \A o \in records : HoldingRank[first.action] <= HoldingRank[o.action]
    <3> SUFFICES ASSUME NEW o \in records PROVE HoldingRank[first.action] <= HoldingRank[o.action]
      OBVIOUS
    <3>1. least <= HoldingRank[o.action]
      BY <2>3, <2>5
    <3> QED
      BY <2>4, <3>1
  <2> QED
    BY <2>6
<1>6. PICK peers : peers = {r \in records : HoldingRank[r.action] = HoldingRank[first.action]}
  OBVIOUS
<1>7. PICK r \in peers : \A o \in peers : r.strategy <= o.strategy
  <2>1. PICK S : S = {o.strategy : o \in peers}
    OBVIOUS
  <2>2. \A o \in peers : o \in records /\ o.strategy \in Nat
    BY <1>2, <1>6
  <2>3. S \in SUBSET Nat
    BY <2>1, <2>2
  <2>4. first \in peers
    BY <1>5, <1>6
  <2>5. S # {}
    BY <2>1, <2>4
  <2>6. PICK least : least \in S /\ \A k \in S : least <= k
    BY <2>3, <2>5, LeastNatural
  <2>7. PICK r \in peers : r.strategy = least
    BY <2>1, <2>6
  <2>8. \A o \in peers : o.strategy \in S
    BY <2>1
  <2> QED
    BY <2>6, <2>7, <2>8
<1>8. ASSUME NEW o \in records \ {r} PROVE Before(HoldingKey(r), HoldingKey(o))
  <2>1. /\ HoldingRank[r.action] \in Nat /\ HoldingRank[o.action] \in Nat /\ r.strategy \in Nat /\ o.strategy \in Nat
        /\ HoldingRank[r.action] <= HoldingRank[o.action]
    BY <1>2, <1>5, <1>6
  <2>2. PICK a, b, c, d : a = HoldingRank[r.action] /\ b = r.strategy /\ c = HoldingRank[o.action] /\ d = o.strategy
    OBVIOUS
  <2>3. a < c \/ (a = c /\ b < d)
    <3>1. CASE a = c
      <4>1. o \in peers
        BY <1>6, <2>2, <3>1
      <4>2. b <= d /\ b # d
        BY <1>3, <1>6, <1>7, <2>2, <4>1
      <4> QED
        BY <2>1, <2>2, <3>1, <4>2
    <3> QED
      BY <2>1, <2>2, <3>1
  <2>4. Before(<<a, b>>, <<c, d>>)
    <3>1. CASE a < c
      <4>1. 1 \in DOMAIN <<a, b>> /\ <<a, b>>[1] < <<c, d>>[1] /\ \A j \in 1 .. 1 - 1 : <<a, b>>[j] = <<c, d>>[j]
        BY <3>1
      <4> QED
        BY <4>1 DEF Before
    <3>2. CASE a = c /\ b < d
      <4>1. 2 \in DOMAIN <<a, b>> /\ <<a, b>>[2] < <<c, d>>[2] /\ \A j \in 1 .. 2 - 1 : <<a, b>>[j] = <<c, d>>[j]
        BY <3>2
      <4> QED
        BY <4>1 DEF Before
    <3> QED
      BY <2>3, <3>1, <3>2
  <2> QED
    BY <2>2, <2>4 DEF HoldingKey
<1>9. r \in records
  BY <1>6
<1> QED
  BY <1>8, <1>9 DEF FirstOf

\* What the page is made of: the records of the signals, and one line for each position.
RecordsAccepted ==
  /\ \A sym \in Symbols : \A r \in Records({sym}) : r.symbol = sym /\ Accepted(r, sym \in Held)
  /\ \A sym \in Held : HoldingFor(sym).symbol = sym /\ Accepted(HoldingFor(sym), TRUE)
  /\ \A s \in board : RecordOf(s) = {} <=> NoRecordFor(s)

LEMMA InvImpliesRecordsAccepted ==
  ASSUME BriefAssumption, BriefInv
  PROVE RecordsAccepted
<1>1. ASSUME NEW sym \in Symbols, NEW r \in Records({sym}) PROVE r.symbol = sym /\ Accepted(r, sym \in Held)
  BY RecordIsBuilt
<1>2. ASSUME NEW sym \in Held PROVE HoldingFor(sym).symbol = sym /\ Accepted(HoldingFor(sym), TRUE)
  <2>1. PICK records : records = Records({sym})
    OBVIOUS
  <2>2. CASE records # {}
    <3>1. HoldingFor(sym) \in records
      BY <2>1, <2>2, FirstOfRecords DEF HoldingFor
    <3>2. HoldingFor(sym).symbol = sym /\ Accepted(HoldingFor(sym), sym \in Held)
      BY <1>1, <2>1, <3>1 DEF Held
    <3> QED
      BY <3>2
  <2>3. CASE records = {}
    <3>1. PICK r : r = Unbound(sym)
      OBVIOUS
    <3>2. PICK v : v = Verdict("DATA_BLOCKED", FALSE, {})
      OBVIOUS
    <3>3. HoldingFor(sym) = r
      BY <2>1, <2>3, <3>1 DEF HoldingFor, FirstOf
    <3>4. r.symbol = sym /\ r.action = "DATA_BLOCKED" /\ r.verdict = v /\ r.plan = {}
      BY <3>1, <3>2 DEF Unbound
    <3>5. v.action = "DATA_BLOCKED" /\ ~v.actionable
      BY <3>2 DEF Verdict
    <3>6. VerdictContract(v, r.status, TRUE)
      BY <3>5 DEF VerdictContract
    <3>7. RecordContract(r, TRUE)
      BY <3>4, <3>6 DEF RecordContract, Opening
    <3>8. "DATA_BLOCKED" \in ActionsFor(TRUE)
      BY DEF ActionsFor, HoldingRank
    <3> QED
      BY <3>3, <3>4, <3>7, <3>8 DEF Accepted
  <2> QED
    BY <2>2, <2>3
<1>3. ASSUME NEW s \in board PROVE RecordOf(s) = {} <=> NoRecordFor(s)
  <2>1. PICK held \in BOOLEAN : held = (s.symbol \in Held)
    <3>1. (s.symbol \in Held) \in BOOLEAN
      OBVIOUS
    <3> QED
      BY <3>1, Zenon
  <2>2. PICK q, profile, external, v, entry :
          /\ q = quotes[s.symbol] /\ profile = (IF held THEN {} ELSE account)
          /\ external = (IF held THEN {} ELSE PortfolioBlockers)
          /\ v = MapSignalToAction(s, q, held) /\ entry = EntryReference(s, v.action, q)
    <3>1. PICK q, profile, external :
            /\ q = quotes[s.symbol] /\ profile = (IF held THEN {} ELSE account)
            /\ external = (IF held THEN {} ELSE PortfolioBlockers)
      OBVIOUS
    <3>2. PICK v : v = MapSignalToAction(s, q, held)
      OBVIOUS
    <3>3. PICK entry : entry = EntryReference(s, v.action, q)
      OBVIOUS
    <3>4. /\ q = quotes[s.symbol] /\ profile = (IF held THEN {} ELSE account)
          /\ external = (IF held THEN {} ELSE PortfolioBlockers)
          /\ v = MapSignalToAction(s, q, held) /\ entry = EntryReference(s, v.action, q)
      BY <3>1, <3>2, <3>3
    <3> QED
      BY ONLY <3>4, Zenon
  <2>3. s.symbol \in Symbols /\ IsQuote(q)
    BY <2>2 DEF BriefInv, BriefAssumption
  <2>4. BuildSignalRecord(s, q, held, profile, external) = {}
          <=> \/ q # NoTick /\ q.last = 0
              \/ /\ v.action \in Opening /\ PricesGiven(s)
                 /\ ~PricesOrdered(s) \/ (account # {} /\ LotOf[s.symbol] > 0 /\ s.stop < entry /\ entry < s.low)
    BY <2>2, <2>3, NothingBuilt
  <2>5. RecordOf(s) = BuildSignalRecord(s, q, held, profile, external)
    BY <2>1, <2>2 DEF RecordOf
  <2>6. NoRecordFor(s)
          <=> \/ q # NoTick /\ q.last = 0
              \/ /\ v.action \in Opening /\ PricesGiven(s)
                 /\ ~PricesOrdered(s) \/ (account # {} /\ LotOf[s.symbol] > 0 /\ s.stop < entry /\ entry < s.low)
    BY <2>1, <2>2 DEF NoRecordFor
  <2> QED
    BY <2>4, <2>5, <2>6
<1> QED
  BY <1>1, <1>2, <1>3 DEF RecordsAccepted

\* Whatever quotes, signals and positions the page finds, the contracts of types.py accept every
\* record it builds, every position has its line, nothing is advised on a quote that is stale or
\* unknown, and no signal is skipped but those that NoRecordFor names.
THEOREM RecordsAcceptedHolds == BriefSpec => []RecordsAccepted
<1>1. BriefInv => RecordsAccepted
  BY BriefAssumption, InvImpliesRecordsAccepted
<1> QED
  BY <1>1, BriefInvariant, PTL
=============================================================================
