------------------------- MODULE NotificationDispatch -------------------------
(***************************************************************************)
(* NotificationDispatcher.dispatch_pending() of monitor/notifications.py,  *)
(* run by several dispatchers over one outbox: the notification worker of  *)
(* the server, a worker that outlived stop_notification_worker(), and      *)
(* MonitorService.poll_once() in the process of                            *)
(* scripts/ingest_xtp_sidecar.py, which has no browser publisher.          *)
(*                                                                         *)
(* A step is one transaction or one send.  Time is counted in units of the *)
(* lease, 30 seconds; it may pass between any two steps, as a batch of up  *)
(* to 50 rows takes up to 5 seconds a row.                                 *)
(***************************************************************************)
EXTENDS NotificationOutbox

CONSTANTS
  Dispatchers,
  Publishers,     \* dispatchers with a browser_publisher
  WebhookEnabled,
  RetryDelay,     \* 30 seconds
  MaxAttempts,    \* _MAX_ATTEMPTS
  MaxRows, MaxTime   \* bounds of the model

ASSUME DispatchAssumption ==
  /\ Publishers \subseteq Dispatchers /\ WebhookEnabled \in BOOLEAN
  /\ RetryDelay \in Nat /\ MaxAttempts \in Nat \ {0}
\* Both are 30 seconds; a retry that came sooner could overtake another's lease.
ASSUME LeaseWithinRetry == LeaseTime <= RetryDelay

VARIABLES
  pc,      \* where each dispatcher is
  batch,   \* the items it has claimed and not settled yet
  item,    \* the one it is at
  clock

local == <<pc, batch, item>>
vars == <<outbox, local, clock>>

Init ==
  /\ outbox = <<>>
  /\ pc = [d \in Dispatchers |-> "idle"]
  /\ batch = [d \in Dispatchers |-> {}]
  /\ item = [d \in Dispatchers |-> None]
  /\ clock = 0

Goto(d, where) == pc' = [pc EXCEPT ![d] = where]
Stop(d) ==
  /\ Goto(d, "idle")
  /\ batch' = [batch EXCEPT ![d] = {}]
  /\ item' = [item EXCEPT ![d] = None]
\* The loop of dispatch_pending() goes on to its next item.
Continue(d) ==
  LET rest == batch[d] \ {item[d]}
  IN /\ Goto(d, IF rest = {} THEN "idle" ELSE "next")
     /\ batch' = [batch EXCEPT ![d] = rest]
     /\ item' = [item EXCEPT ![d] = None]

\* record_trigger(), see MonitorInbox.
Enqueue(channels) ==
  /\ Len(outbox) + Cardinality(channels) <= MaxRows
  /\ outbox' = WithRows(1, channels, clock)
  /\ UNCHANGED <<local, clock>>

Claim(d) ==
  /\ pc[d] = "idle"
  /\ \E S \in Claimable(clock) \ {{}} :
       /\ Lease(S, clock)
       /\ batch' = [batch EXCEPT ![d] = {[row |-> k, attempts |-> outbox[k].attempts,
                                          until |-> clock + LeaseTime] : k \in S}]
  /\ Goto(d, "next")
  /\ UNCHANGED <<item, clock>>

\* The loop takes the oldest item; it skips the send if the channel is off.
Take(d) ==
  /\ pc[d] = "next"
  /\ \E i \in batch[d] :
       /\ \A j \in batch[d] : outbox[i.row].created <= outbox[j.row].created
       /\ item' = [item EXCEPT ![d] = i]
       /\ Goto(d, IF outbox[i.row].channel = "BROWSER" THEN IF d \in Publishers THEN "send" ELSE "disable"
                  ELSE IF WebhookEnabled THEN "send" ELSE "disable")
  /\ UNCHANGED <<outbox, batch, clock>>

\* The publisher or the webhook: the request is accepted; or none goes out (bad configuration), the
\* answer is an error, or it is lost.
Send(d) ==
  /\ pc[d] = "send"
  /\ Goto(d, "sent") \/ Goto(d, "failed")
  /\ UNCHANGED <<outbox, batch, item, clock>>

\* The webhook answers with what is no HTTP (http.client.HTTPException: a status line that cannot be
\* read, an answer cut off): dispatch_pending() does not catch it, the row stays leased and the try
\* is not counted.
SendBreaks(d) ==
  /\ pc[d] = "send" /\ outbox[item[d].row].channel = "WEBHOOK"
  /\ Stop(d)
  /\ UNCHANGED <<outbox, clock>>

Disable(d) ==
  /\ pc[d] = "disable"
  /\ \/ Mark(item[d].row, "DISABLED", item[d].attempts, None) /\ Continue(d)
     \/ ~CanMark(item[d].row) /\ Goto(d, "failed") /\ UNCHANGED <<outbox, batch, item>>
  /\ UNCHANGED clock

\* A DELIVERED mark that is refused is handled as a failed delivery.
MarkDelivered(d) ==
  LET k == item[d].row
  IN /\ pc[d] = "sent"
     /\ \/ /\ Mark(k, "DELIVERED", item[d].attempts + (IF outbox[k].channel = "WEBHOOK" THEN 1 ELSE 0), None)
           /\ Continue(d)
        \/ ~CanMark(k) /\ Goto(d, "failed") /\ UNCHANGED <<outbox, batch, item>>
     /\ UNCHANGED clock

\* The error path; when its own mark is refused, the rest of the batch is left.
MarkFailed(d) ==
  LET k == item[d].row  n == item[d].attempts + 1
  IN /\ pc[d] = "failed"
     /\ \/ /\ IF n >= MaxAttempts THEN Mark(k, "FAILED", n, None)
              ELSE Mark(k, "PENDING", n, clock + RetryDelay * n)
           /\ Continue(d)
        \/ ~CanMark(k) /\ Stop(d) /\ UNCHANGED outbox
     /\ UNCHANGED clock

\* The process dies, or a transaction raises a sqlite3 error, which
\* dispatch_pending() does not catch.
Abort(d) ==
  /\ pc[d] # "idle"
  /\ Stop(d)
  /\ UNCHANGED <<outbox, clock>>

\* Beyond MaxTime the clock moves only while a row waits for it.
Waiting == \E k \in DOMAIN outbox : outbox[k].state \notin Final /\ outbox[k].next # None /\ outbox[k].next > clock
Tick ==
  /\ clock < MaxTime \/ Waiting
  /\ clock' = clock + 1
  /\ UNCHANGED <<outbox, local>>

Dispatch(d) == Claim(d) \/ Take(d) \/ Send(d) \/ SendBreaks(d) \/ Disable(d) \/ MarkDelivered(d) \/ MarkFailed(d)
Next ==
  \/ \E channels \in (SUBSET Channels) \ {{}} : Enqueue(channels)
  \/ \E d \in Dispatchers : Dispatch(d) \/ Abort(d)
  \/ Tick

Spec == Init /\ [][Next]_vars
LiveSpec == Spec /\ WF_vars(Tick) /\ \A d \in Dispatchers : WF_vars(Dispatch(d))

-----------------------------------------------------------------------------
(* While its lease runs, a dispatcher is alone with the rows it claimed:   *)
(* not even one that lost its own lease, and still marks the row, hands it *)
(* on before that.                                                         *)
LeaseIsExclusive ==
  \A d, e \in Dispatchers : \A i \in batch[d], j \in batch[e] :
    (d # e /\ i.row = j.row) => ~(clock < i.until /\ clock < j.until)

(* Every notification is settled in the end: a failed try, a crash, a lost *)
(* lease, an answer that is no HTTP or a second dispatcher at the same row *)
(* only delays it, unless dispatchers die or answers break again and again *)
(* (a mark that is refused ends a batch as well, and is no excuse).        *)
Broken == \E d \in Dispatchers : SendBreaks(d) \/ (Abort(d) /\ (pc[d] = "failed" => CanMark(item[d].row)))
Settles ==
  []<><<Broken>>_vars \/ [](outbox # <<>> => <>(\A k \in DOMAIN outbox : outbox[k].state \in Final))
=============================================================================
