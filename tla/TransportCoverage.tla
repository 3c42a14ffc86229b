--------------------------- MODULE TransportCoverage ---------------------------
(***************************************************************************)
(* What a frozen prefix of the market event source proves                  *)
(* (runtime_evidence/source_snapshot_contracts.py).  A collector numbers   *)
(* the callbacks of a live connection, queues them and stores them, and    *)
(* logs the life of the connection next to them.  A snapshot of both is    *)
(* asked whether it holds every trade of an interval.                      *)
(*                                                                         *)
(* One symbol and one source session, with a manifest for each epoch of    *)
(* the connection.  Left out: replays, provider sequences, hash chains,    *)
(* and clocks that disagree.  External: a trade is heard when it is made.  *)
(***************************************************************************)
EXTENDS Naturals, FiniteSets, SequencesExt

CONSTANTS
  Scopes,      \* of the callback numbers: "SESSION", "CONNECTION_EPOCH"
  MaximumGap,  \* maximum_heartbeat_gap, maximum_watermark_gap
  MaxInstant,  \* bound: clock
  MaxEpoch,    \* bound: connections
  MaxTrades,   \* bound: trades
  MaxRows      \* bound: transport rows

VARIABLES
  instant,    \* the one clock
  trades,     \* the times of the trades the market made
  scope,      \* callback_sequence_scope
  up,         \* whether the connection is up
  heard,      \* the last callback number in scope
  lost,       \* dropped_callback_count of each epoch
  queue,      \* callbacks between the connection and the store
  records,    \* MarketEventSourceRecord, in append order
  transport   \* the MarketEventTransportRecords; their times are in append order

feedVars == <<instant, trades, scope, up, heard, lost, queue, records, transport>>

-----------------------------------------------------------------------------
(* The log of the connection.                                              *)

Watermarks == {"CALLBACK_WATERMARK", "SESSION_CLOSED"}
Row(e, kind) == [epoch |-> e, kind |-> kind, at |-> instant,
                 high |-> IF kind \in Watermarks THEN heard ELSE 0,
                 lost |-> IF e = Len(lost) THEN lost[e] ELSE 0]
Rows(e) == {r \in transport : r.epoch = e}
Stamps(e, kind) == {r.at : r \in {s \in Rows(e) : s.kind = kind}}
Acknowledged(e) == Stamps(e, "SUBSCRIPTION_ACKNOWLEDGED") # {}
Current == Len(lost)
Ended(e) == Stamps(e, "DISCONNECTED") \cup Stamps(e, "SESSION_CLOSED") # {}

-----------------------------------------------------------------------------
(* The source session manifests, and the findings of the prefix.           *)

\* What an epoch declares to have covered: from its acknowledgement on.
Manifest(e, through) ==
  [epoch |-> e, start |-> Min(Stamps(e, "SUBSCRIPTION_ACKNOWLEDGED")), through |-> through,
   lost |-> lost[e]]
Epochs == {e \in 1..Current : Acknowledged(e)}
\* A snapshot may be taken with any coverage the epochs can declare.
ManifestSets ==
  LET since(e) == Min(Stamps(e, "SUBSCRIPTION_ACKNOWLEDGED"))
      choices == {t \in [Epochs -> 0..instant] : \A e \in Epochs : t[e] >= since(e)}
  IN {{Manifest(e, t[e]) : e \in Epochs} : t \in choices}
\* A prefix with a record outside the coverage its epoch declares is refused.
Scannable(manifests) ==
  \A r \in ToSet(records) :
     \E m \in manifests : m.epoch = r.epoch /\ r.at \in m.start..(m.through - 1)

InScope(r, s) == scope = "SESSION" \/ r.epoch = s.epoch
\* Mutant: the first callback of a scope may have any number.
ExpectedUnlessFirst(i) ==
  LET before == {records[j].seq : j \in {k \in 1..(i - 1) : InScope(records[k], records[i])}}
  IN IF before = {} THEN records[i].seq ELSE Max(before) + 1
Expected(i) ==
  LET before == {records[j].seq : j \in {k \in 1..(i - 1) : InScope(records[k], records[i])}}
  IN IF before = {} THEN 1 ELSE Max(before) + 1
\* A finding taints all the coverage of the epochs in its scope.
Found(manifests, from, to) ==
  \E i \in DOMAIN records :
     /\ records[i].seq # Expected(i)
     /\ LET scoped == {m \in manifests : InScope(m, records[i])}
        IN /\ \E m \in scoped : m.start < to
           /\ \E m \in scoped : from < m.through

-----------------------------------------------------------------------------
(* TransportCoverageCertificate.                                           *)

\* Mutant: the last stamp may be older than the end of the interval.
PeriodicSince(stamps, from, to) == \E t \in stamps : t <= from
\* A stamp before the interval and one after it, and no gap between the two.
Periodic(stamps, from, to) ==
  /\ \E t \in stamps : t <= from
  /\ \E t \in stamps : t >= to
  /\ LET first == Max({t \in stamps : t <= from})
         last == Min({t \in stamps : t >= to})
     IN \A t \in stamps \cap first..(last - 1) : \E u \in stamps : u > t /\ u <= t + MaximumGap

Connected(e, from, to) ==
  /\ Min(Stamps(e, "CONNECTED")) <= from
  /\ \A t \in Stamps(e, "DISCONNECTED") \cup Stamps(e, "SESSION_CLOSED") : t >= to

\* The highest number stored by a time, in the scope of an epoch.
StoredHigh(e, t) ==
  Max({0} \cup {r.seq : r \in {s \in ToSet(records) : s.known <= t /\ InScope(s, [epoch |-> e])}})
\* Mutant: a watermark may be higher than what was stored.
BoundLoosely(e) ==
  \A r \in Rows(e) :
     r.kind \in Watermarks => r.high >= StoredHigh(e, r.at)
\* Every watermark is the highest number stored by then.
Bound(e) ==
  \A r \in Rows(e) :
     r.kind \in Watermarks => r.high = StoredHigh(e, r.at)
\* No record is newer than the last watermark.
Final(e, from) ==
  \A r \in ToSet(records) :
     r.epoch = e => r.known <= Max(Stamps(e, "CALLBACK_WATERMARK") \cup
                                  IF Stamps(e, "CALLBACK_WATERMARK") = {} THEN {from} ELSE {})
Lossless(m) == m.lost = 0 /\ \A r \in Rows(m.epoch) : r.lost = 0

Proven(m, from, to) ==
  /\ Connected(m.epoch, from, to)
  /\ \E t \in Stamps(m.epoch, "SUBSCRIPTION_ACKNOWLEDGED") : t <= from
  /\ Lossless(m)
  /\ Periodic(Stamps(m.epoch, "HEARTBEAT"), from, to)
  /\ Periodic(Stamps(m.epoch, "CALLBACK_WATERMARK"), from, to)
  /\ Final(m.epoch, from) /\ Bound(m.epoch)

\* The epochs leave no part of the interval uncovered.
Joined(manifests, from, to) ==
  \A t \in from..(to - 1) : \E m \in manifests : t \in m.start..(m.through - 1)
ProvesInterval(manifests, from, to) ==
  /\ ~Found(manifests, from, to)
  /\ \A m \in manifests :
       m.start < to /\ from < m.through =>
         Proven(m, Max({from, m.start}), Min({to, m.through}))
  /\ Joined(manifests, from, to)

\* MarketEventSelection.covers_interval()
CoversInterval(manifests, from, to) ==
  /\ Scannable(manifests)
  /\ ProvesInterval(manifests, from, to)

-----------------------------------------------------------------------------
(* The collector and the market, external.                                 *)

FeedInit ==
  /\ instant = 0 /\ trades = <<>> /\ scope \in Scopes
  /\ up = FALSE /\ heard = 0 /\ lost = <<>>
  /\ queue = <<>> /\ records = <<>> /\ transport = {}

Log(kind) ==
  /\ Cardinality(transport) < MaxRows
  /\ transport' = transport \cup {Row(Current, kind)}

Pass ==
  /\ instant < MaxInstant /\ instant' = instant + 1
  /\ UNCHANGED <<trades, scope, up, heard, lost, queue, records, transport>>

Connect ==
  /\ ~up /\ Current < MaxEpoch /\ Cardinality(transport) < MaxRows
  /\ \A r \in transport : r.at < instant
  /\ up' = TRUE
  /\ lost' = Append(lost, 0)
  /\ heard' = IF scope = "SESSION" THEN heard ELSE 0
  /\ transport' = transport \cup {Row(Current + 1, "CONNECTED")}
  /\ UNCHANGED <<instant, trades, scope, queue, records>>

\* Nothing was traded at the very instant before the acknowledgement.
Acknowledge ==
  /\ up /\ ~Acknowledged(Current)
  /\ instant \notin ToSet(trades)
  /\ Log("SUBSCRIPTION_ACKNOWLEDGED")
  /\ UNCHANGED <<instant, trades, scope, up, heard, lost, queue, records>>

Subscribed == up /\ Acknowledged(Current)
\* A task writes its row once at a time.
Stamp(kind) == instant \notin Stamps(Current, kind) /\ Log(kind)

Heartbeat ==
  /\ Subscribed /\ Stamp("HEARTBEAT")
  /\ UNCHANGED <<instant, trades, scope, up, heard, lost, queue, records>>

\* The collector need not have noticed that the connection is gone.
Watermark ==
  /\ Current > 0 /\ Acknowledged(Current) /\ ~Ended(Current)
  /\ Stamp("CALLBACK_WATERMARK")
  /\ UNCHANGED <<instant, trades, scope, up, heard, lost, queue, records>>

Callback == [at |-> instant, epoch |-> Current, seq |-> heard']

\* Who is not subscribed does not hear of a trade; a full queue drops it.
Trade ==
  /\ Len(trades) < MaxTrades
  /\ trades' = Append(trades, instant)
  /\ heard' = IF Subscribed THEN heard + 1 ELSE heard
  /\ \/ /\ queue' = IF Subscribed THEN Append(queue, Callback) ELSE queue
        /\ UNCHANGED lost
     \/ /\ Subscribed
        /\ lost' = [lost EXCEPT ![Current] = @ + 1]
        /\ UNCHANGED queue
  /\ UNCHANGED <<instant, scope, up, records, transport>>

\* The queue is not always drained in its order.
Store ==
  /\ \E i \in DOMAIN queue :
       /\ records' = Append(records, [at |-> queue[i].at, epoch |-> queue[i].epoch,
                                      seq |-> queue[i].seq, known |-> instant])
       /\ queue' = RemoveAt(queue, i)
  /\ UNCHANGED <<instant, trades, scope, up, heard, lost, transport>>

\* A callback is lost after it was numbered, and nothing counts it.
Spill ==
  /\ \E i \in DOMAIN queue : queue' = RemoveAt(queue, i)
  /\ UNCHANGED <<instant, trades, scope, up, heard, lost, records, transport>>

Drop ==
  /\ up /\ up' = FALSE
  /\ UNCHANGED <<instant, trades, scope, heard, lost, queue, records, transport>>

Notice ==
  /\ ~up /\ Current > 0 /\ ~Ended(Current)
  /\ Log("DISCONNECTED")
  /\ UNCHANGED <<instant, trades, scope, up, heard, lost, queue, records>>

Close ==
  /\ Subscribed /\ Log("SESSION_CLOSED") /\ up' = FALSE
  /\ UNCHANGED <<instant, trades, scope, heard, lost, queue, records>>

FeedNext ==
  \/ Pass \/ Connect \/ Acknowledge \/ Heartbeat \/ Watermark \/ Trade
  \/ Store \/ Spill \/ Drop \/ Notice \/ Close
FeedSpec == FeedInit /\ [][FeedNext]_feedVars

-----------------------------------------------------------------------------
(* Properties.                                                             *)

\* A prefix that claims an interval holds every trade the market made in it,
\* whichever callbacks were dropped, spilled or never sent and whenever the
\* connection came and went.
CoverageIsTrue ==
  \A manifests \in ManifestSets :
     \A from \in 0..instant : \A to \in (from + 1)..instant :
        CoversInterval(manifests, from, to) =>
          \A t \in from..(to - 1) :
             Cardinality({i \in DOMAIN trades : trades[i] = t}) =
             Cardinality({i \in DOMAIN records : records[i].at = t})
=============================================================================
