---------------------------- MODULE RuntimeOutbox ----------------------------
(***************************************************************************)
(* The runtime outbox of stock_tracker/storage/repository.py: the signal   *)
(* and its history, the transition outbox written in the same transaction, *)
(* the delivery row of every occurrence (lease, retries, result), the      *)
(* cursors, the binding to one artifact store, the quarantine and the      *)
(* global integrity block.                                                 *)
(*                                                                         *)
(* Every method of the repository is one BEGIN IMMEDIATE transaction: here *)
(* one action.  The times it is given were read from the clock before the  *)
(* transaction began, so they are parameters.  An occurrence is named by   *)
(* its append_order; ids and hashes, unique by construction, are left out. *)
(***************************************************************************)
EXTENDS Integers, Sequences

CONSTANTS
  Signals,       \* signal_ids
  Candidates,    \* what a SignalManager may ask to persist, see below
  StateOf,       \* the SignalState of each signal version
  Ids,           \* worker_ids
  None

(* A candidate: a new version of a signal, the version it was computed     *)
(* from, and how much evidence comes with it.  "draft": a transition with  *)
(* its decision draft; "invalid": a transition whose draft could not be    *)
(* built; "unavailable": a transition while the evidence schema is absent; *)
(* "refresh": no transition at all.                                        *)
ASSUME CandidatesAssumption ==
  \A c \in Candidates :
    /\ DOMAIN c = {"signal", "prev", "target", "evidence"}
    /\ c.signal \in Signals
    /\ c.target \in DOMAIN StateOf
    /\ c.prev \in DOMAIN StateOf \cup {None}
    /\ c.evidence \in {"draft", "invalid", "unavailable", "refresh"}
ASSUME NoneAssumption == None \notin Ids \cup DOMAIN StateOf

VARIABLES
  signals,      \* table signals: the current version of each signal, or None
  history,      \* table signal_history
  outbox,       \* tables runtime_transition_outbox and _occurrence
  delivery,     \* table runtime_outbox_delivery, by append_order
  cursor,       \* table runtime_outbox_cursor: last_contiguous_order by worker_id
  binding,      \* table runtime_artifact_delivery_binding: None or its row
  quarantine,   \* table runtime_outbox_quarantine
  block         \* table runtime_artifact_integrity_event: None or its row

outboxVars == <<signals, history, outbox, delivery, cursor, binding, quarantine, block>>

-----------------------------------------------------------------------------
Fresh == [status |-> "PENDING", owner |-> None, expires |-> 0, retries |-> 0, dueAt |-> 0,
          result |-> None, at |-> 0]
Terminal(d) == d.status \in {"DELIVERED", "QUARANTINED"}

\* Every time the runtime database has recorded.
EvidenceTimes ==
  {outbox[k].createdAt : k \in DOMAIN outbox}
  \cup {delivery[k].at : k \in {j \in DOMAIN delivery : delivery[j].status = "DELIVERED"}}
  \cup {quarantine[k].at : k \in DOMAIN quarantine}
  \cup {b.at : b \in {binding, block} \ {None}}

ClockNotBefore(at) == \A t \in EvidenceTimes : t <= at

\* The structure and state audits: what every transaction requires of the database.
CreatedInOrder == \A k \in 2..Len(outbox) : outbox[k - 1].createdAt <= outbox[k].createdAt
DeliveredAfterCreated ==
  \A k \in DOMAIN delivery :
    delivery[k].status = "DELIVERED" => /\ outbox[k].createdAt <= delivery[k].at
                                        /\ binding # None
CursorsContiguous ==
  \A i \in Ids : /\ cursor[i] <= Len(outbox)
                 /\ \A k \in 1..cursor[i] : Terminal(delivery[k])
QuarantineLinked ==
  \A j \in DOMAIN quarantine : quarantine[j].order \in DOMAIN outbox \cup {None}
HistoryAgrees ==
  \A k \in DOMAIN outbox :
    LET h == history[outbox[k].historyId]
    IN /\ h.signal = outbox[k].decision.signal
       /\ h.to = StateOf[outbox[k].decision.target]
Unreadable == {k \in DOMAIN outbox : delivery[k].status # "QUARANTINED" /\ ~outbox[k].valid}
PayloadsValid == Unreadable = {}
StructureAudit ==
  /\ Len(delivery) = Len(outbox)
  /\ CreatedInOrder /\ DeliveredAfterCreated /\ CursorsContiguous
StateAudit == StructureAudit /\ QuarantineLinked /\ HistoryAgrees /\ PayloadsValid

OutboxInit ==
  /\ signals = [s \in Signals |-> None]
  /\ history = <<>> /\ outbox = <<>> /\ delivery = <<>> /\ quarantine = <<>>
  /\ cursor = [i \in Ids |-> 0]
  /\ binding = None /\ block = None

-----------------------------------------------------------------------------
(* persist_signal_decision()                                               *)

OccurrencesOf(c) == {k \in DOMAIN outbox : outbox[k].decision = c}

\* Mutant: the version the candidate was computed from is not compared.
SnapshotExists(c) ==
  /\ c.evidence = "draft" => OccurrencesOf(c) = {}
  /\ c.prev = None <=> signals[c.signal] = None
\* Mutant: neither the version nor the dedup identity is compared.
SnapshotAny(c) == c.evidence # "refresh" \/ c.prev = signals[c.signal]
\* The candidate was computed from the current version and is not stored yet; when it
\* is, or the version has moved on, the call returns or raises without a write.
SnapshotCurrent(c) ==
  /\ c.evidence = "draft" => OccurrencesOf(c) = {}
  /\ signals[c.signal] = c.prev
  /\ c.evidence = "refresh" => /\ c.prev # None
                               /\ StateOf[c.prev] = StateOf[c.target]
  /\ (c.evidence # "refresh" /\ c.prev # None) => StateOf[c.prev] # StateOf[c.target]

HistoryRow(c) == [signal |-> c.signal,
                  from   |-> IF c.prev = None THEN None ELSE StateOf[c.prev],
                  to     |-> StateOf[c.target]]

PersistWithEvidence(c, at) ==
  /\ c.evidence = "draft"
  /\ SnapshotCurrent(c)
  /\ StateAudit /\ ClockNotBefore(at)
  /\ signals' = [signals EXCEPT ![c.signal] = c.target]
  /\ history' = Append(history, HistoryRow(c))
  /\ outbox' = Append(outbox, [decision |-> c, createdAt |-> at, historyId |-> Len(history) + 1,
                               valid |-> TRUE])
  /\ delivery' = Append(delivery, Fresh)
  /\ UNCHANGED <<cursor, binding, quarantine, block>>

PersistQuarantined(c, at) ==
  /\ c.evidence = "invalid"
  /\ SnapshotCurrent(c)
  /\ StateAudit /\ ClockNotBefore(at)
  /\ signals' = [signals EXCEPT ![c.signal] = c.target]
  /\ history' = Append(history, HistoryRow(c))
  /\ quarantine' = Append(quarantine, [order |-> None, at |-> at])
  /\ UNCHANGED <<outbox, delivery, cursor, binding, block>>

\* Without evidence neither the audit nor the clock is consulted.
PersistPlain(c) ==
  /\ c.evidence \in {"unavailable", "refresh"}
  /\ SnapshotCurrent(c)
  /\ signals' = [signals EXCEPT ![c.signal] = c.target]
  /\ history' = IF c.evidence = "refresh" THEN history ELSE Append(history, HistoryRow(c))
  /\ UNCHANGED <<outbox, delivery, cursor, binding, quarantine, block>>

-----------------------------------------------------------------------------
(* claim_runtime_outbox().  A lease is [order, expires, retries].          *)

\* Mutant: a lease is never taken over.
DueOnce(k, at) == delivery[k].status = "PENDING" /\ delivery[k].dueAt <= at
Due(k, at) ==
  \/ delivery[k].status = "PENDING" /\ delivery[k].dueAt <= at
  \/ delivery[k].status = "LEASED" /\ delivery[k].expires <= at
Claimable(at) == {k \in DOMAIN delivery : Due(k, at)}
First(S) == CHOOSE k \in S : \A j \in S : k <= j

Bind(s, at) == IF binding = None THEN [store |-> s, at |-> at] ELSE binding

Claimed(k, id, expires) ==
  delivery' = [delivery EXCEPT ![k] = [delivery[k] EXCEPT !.status = "LEASED", !.owner = id,
                                                          !.expires = expires, !.dueAt = 0]]

\* A worker bound to another artifact store persists the block it then reports.
ClaimFromOtherStore(id, s, at) ==
  /\ StructureAudit /\ ClockNotBefore(at)
  /\ block = None
  /\ binding # None /\ binding.store # s
  /\ block' = [code |-> "ARTIFACT_STORE_BINDING_MISMATCH", id |-> id, order |-> None, at |-> at]
  /\ UNCHANGED <<signals, history, outbox, delivery, cursor, binding, quarantine>>

\* Mutant: the binding is not compared.
ClaimAllowedAnywhere(s, at) == StructureAudit /\ ClockNotBefore(at) /\ block = None
ClaimAllowed(s, at) ==
  /\ StructureAudit /\ ClockNotBefore(at)
  /\ block = None
  /\ binding # None => binding.store = s

ClaimNothing(s, at) ==
  /\ ClaimAllowed(s, at) /\ Claimable(at) = {}
  /\ binding' = Bind(s, at)
  /\ UNCHANGED <<signals, history, outbox, delivery, cursor, quarantine, block>>

ClaimNext(id, s, at, expires) ==
  /\ ClaimAllowed(s, at) /\ Claimable(at) # {}
  /\ binding' = Bind(s, at)
  /\ Claimed(First(Claimable(at)), id, expires)
  /\ UNCHANGED <<signals, history, outbox, cursor, quarantine, block>>

-----------------------------------------------------------------------------
(* The marks a worker makes under its lease l.                             *)

\* Mutant: the row is not looked at.
HoldsAnything(id, l) == TRUE
Holds(id, l) ==
  /\ delivery[l.order].status = "LEASED"
  /\ delivery[l.order].owner = id
  /\ delivery[l.order].expires = l.expires
  /\ delivery[l.order].retries = l.retries

Release(d, status) == [d EXCEPT !.status = status, !.owner = None, !.expires = 0, !.dueAt = 0]

\* Mutant: the cursor goes to the last finished row.
AdvanceToLast(rows, from) ==
  CHOOSE n \in from..Len(rows) : /\ n = from \/ Terminal(rows[n])
                                 /\ \A k \in n + 1..Len(rows) : ~Terminal(rows[k])
Advance(rows, from) ==
  CHOOSE n \in from..Len(rows) : /\ \A k \in from + 1..n : Terminal(rows[k])
                                 /\ n < Len(rows) => ~Terminal(rows[n + 1])
\* Mutant: the global block is not looked up.
MayMarkBlocked(id, l, at) == ClockNotBefore(at) /\ Holds(id, l)
MayMark(id, l, at) == block = None /\ ClockNotBefore(at) /\ Holds(id, l)

MayDeliver(id, l, at) == MayMark(id, l, at) /\ StateAudit
\* Mutant: the update is not limited to the artifact of the lease.
MarkAllDelivered(id, l, result, at) ==
  LET done(d) == [Release(d, "DELIVERED") EXCEPT !.result = result, !.at = at]
      rows == [k \in DOMAIN delivery |->
                 IF delivery[k].status = "LEASED" /\ delivery[k].owner = id
                 THEN done(delivery[k]) ELSE delivery[k]]
  IN /\ MayDeliver(id, l, at)
     /\ delivery' = rows
     /\ cursor' = [cursor EXCEPT ![id] = Advance(rows, cursor[id])]
     /\ UNCHANGED <<signals, history, outbox, binding, quarantine, block>>
MarkDelivered(id, l, result, at) ==
  LET done == [Release(delivery[l.order], "DELIVERED") EXCEPT !.result = result, !.at = at]
      rows == [delivery EXCEPT ![l.order] = done]
  IN /\ MayDeliver(id, l, at)
     /\ delivery' = rows
     /\ cursor' = [cursor EXCEPT ![id] = Advance(rows, cursor[id])]
     /\ UNCHANGED <<signals, history, outbox, binding, quarantine, block>>

MarkRetry(id, l, at, dueAt) ==
  /\ MayMark(id, l, at) /\ StateAudit
  /\ delivery' = [delivery EXCEPT ![l.order] =
                     [Release(delivery[l.order], "PENDING") EXCEPT !.retries = l.retries + 1, !.dueAt = dueAt]]
  /\ UNCHANGED <<signals, history, outbox, cursor, binding, quarantine, block>>

\* The audit follows the update: the row that is being quarantined no longer counts.
MarkQuarantined(id, l, at) ==
  LET rows == [delivery EXCEPT ![l.order] = Release(delivery[l.order], "QUARANTINED")]
  IN /\ MayMark(id, l, at)
     /\ delivery' = rows
     /\ quarantine' = Append(quarantine, [order |-> l.order, at |-> at])
     /\ cursor' = [cursor EXCEPT ![id] = Advance(rows, cursor[id])]
     /\ UNCHANGED <<signals, history, outbox, binding, block>>
     /\ StateAudit'

\* The row is selected and never fetched: whether the lease is still held decides nothing.
MarkBlocked(id, l, code, at) ==
  /\ StateAudit /\ ClockNotBefore(at)
  /\ block' = IF block # None THEN block
              ELSE [code |-> code, id |-> id, order |-> l.order, at |-> at]
  /\ UNCHANGED <<signals, history, outbox, delivery, cursor, binding, quarantine>>

-----------------------------------------------------------------------------
(* External: a release with a stricter artifact contract is deployed over  *)
(* a row whose payload it no longer accepts.                               *)
ContractOutgrows(k) ==
  /\ outbox[k].valid
  /\ outbox' = [outbox EXCEPT ![k].valid = FALSE]
  /\ UNCHANGED <<signals, history, delivery, cursor, binding, quarantine, block>>
=============================================================================
