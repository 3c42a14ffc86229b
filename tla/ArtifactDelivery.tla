--------------------------- MODULE ArtifactDelivery ---------------------------
(***************************************************************************)
(* The artifact lane: signal managers fill the runtime outbox, artifact    *)
(* workers (runtime_evidence/worker.py) move its occurrences into the      *)
(* artifact store and mark them.  One step is one transaction of either    *)
(* database or one file operation between them.                            *)
(*                                                                         *)
(* The wall clock only moves forward.  A process reads it before it asks   *)
(* for the write lock, and may be kept waiting: the time it passes is any  *)
(* between its previous reading and now.                                   *)
(***************************************************************************)
EXTENDS RuntimeOutbox, ArtifactStore

CONSTANTS
  Managers,      \* threads that call persist_signal_decision()
  Workers,       \* artifact workers
  IdOf,          \* the worker_id of each worker
  StoreOf,       \* the artifact store each worker was built with
  LeaseTime,     \* lease_seconds
  RetryDelay, MaxRetryDelay,   \* retry_delay_seconds, max_retry_delay_seconds
  MaxAttempts,   \* max_store_retries
  MaxTime, MaxOutbox, MaxCrashes, MaxFaults, MaxOutgrown   \* bounds of the model

ASSUME DeliveryAssumption ==
  /\ IdOf \in [Workers -> Ids] /\ StoreOf \in [Workers -> Stores]
  /\ LeaseTime \in Nat \ {0} /\ RetryDelay \in Nat \ {0} /\ MaxRetryDelay \in Nat /\ MaxAttempts \in Nat
  /\ None \notin [store : Stores, at : Nat]

VARIABLES
  pc,        \* where run_once() of each worker is
  lease,     \* the lease it works under
  record,    \* the record append() gave it, or is about to
  failure,   \* why append() or audit() failed; the latched block code of a halted worker
  seen,      \* the last clock reading of each process
  clock, crashes, faults, outgrown

local == <<pc, lease, record, failure>>
budget == <<crashes, faults, outgrown>>
vars == <<outboxVars, storeVars, local, seen, clock, budget>>

NoFailure == "none"

Init ==
  /\ OutboxInit /\ StoreInit
  /\ pc = [w \in Workers |-> "idle"]
  /\ lease = [w \in Workers |-> None]
  /\ record = [w \in Workers |-> None]
  /\ failure = [w \in Workers |-> NoFailure]
  /\ seen = [p \in Managers \cup Workers |-> 0]
  /\ clock = 0 /\ crashes = 0 /\ faults = 0 /\ outgrown = 0

Readings(p) == seen[p]..clock
Read(p, at) == seen' = [seen EXCEPT ![p] = at]
Goto(w, where) == pc' = [pc EXCEPT ![w] = where]

Fails(w, why) == failure' = [failure EXCEPT ![w] = why]

\* run_once() has returned, or its process has restarted.
Finished(w, where, code) ==
  /\ Goto(w, where)
  /\ lease' = [lease EXCEPT ![w] = None]
  /\ record' = [record EXCEPT ![w] = None]
  /\ Fails(w, code)
Idle(w) == Finished(w, "idle", NoFailure)
\* _local_integrity_block_code is set: the service loop ends.
Halted(w, code) == Finished(w, "halted", code)

-----------------------------------------------------------------------------
(* The signal manager.                                                     *)
Persist(m) ==
  \E c \in Candidates, at \in Readings(m) :
    /\ \/ Len(outbox) < MaxOutbox /\ PersistWithEvidence(c, at)
       \/ PersistQuarantined(c, at)
       \/ PersistPlain(c)
    /\ Read(m, at)
    /\ UNCHANGED <<storeVars, local, clock, budget>>

ClockRollback == "RUNTIME_CLOCK_ROLLBACK"

-----------------------------------------------------------------------------
(* run_once()                                                              *)

Claim(w) ==
  /\ pc[w] = "idle"
  /\ \E at \in Readings(w) :
       /\ Read(w, at)
       /\ \/ /\ ClaimNext(IdOf[w], StoreOf[w], at, at + LeaseTime)
             /\ LET k == First(Claimable(at))
                IN /\ lease' = [lease EXCEPT ![w] = [order |-> k, expires |-> at + LeaseTime,
                                                     retries |-> delivery[k].retries]]
                   /\ Goto(w, IF outbox[k].valid THEN "append" ELSE "quarantine")
             /\ UNCHANGED <<record, failure>>
          \/ ClaimNothing(StoreOf[w], at) /\ UNCHANGED local
          \/ /\ ClaimFromOtherStore(IdOf[w], StoreOf[w], at)
             /\ Halted(w, "ARTIFACT_STORE_BINDING_MISMATCH")
          \/ ~ClockNotBefore(at) /\ Halted(w, ClockRollback) /\ UNCHANGED outboxVars
          \/ ClockNotBefore(at) /\ block # None /\ Halted(w, block.code) /\ UNCHANGED outboxVars
  /\ UNCHANGED <<storeVars, clock, budget>>

\* append(): the write lock is free; the clock is read inside the transaction.
AppendOpens(w) ==
  LET s == StoreOf[w]  a == lease[w].order
  IN /\ pc[w] = "append" /\ tx[s] = <<>>
     /\ IF AppendRefused(s, a)
        THEN Goto(w, "failed") /\ Fails(w, "ARTIFACT_STORE_INVENTORY_MISMATCH") /\ UNCHANGED <<record, storeVars>>
        ELSE IF Existing(s, a) # {}
        THEN /\ Goto(w, "audit")
             /\ \E r \in Existing(s, a) : record' = [record EXCEPT ![w] = r]
             /\ UNCHANGED <<failure, storeVars>>
        ELSE IF AppendCollides(s, a, clock)
        THEN Goto(w, "failed") /\ Fails(w, "ARTIFACT_ID_COLLISION") /\ UNCHANGED <<record, storeVars>>
        ELSE /\ WriteFile(s, a, w, clock) \/ AdoptFile(s, a, w, clock)
             /\ Goto(w, "insert")
             /\ record' = [record EXCEPT ![w] = tx'[s][1].record]
             /\ UNCHANGED failure
     /\ Read(w, clock)
     /\ UNCHANGED <<outboxVars, lease, clock, budget>>

AppendCommits(w) ==
  /\ pc[w] = "insert"
  /\ CommitRow(StoreOf[w])
  /\ Goto(w, "audit")
  /\ UNCHANGED <<outboxVars, lease, record, failure, seen, clock, budget>>

\* External: the disk or SQLite fails (OSError, OperationalError) during append() or audit().
AppendBreaks(w) ==
  /\ faults < MaxFaults /\ faults' = faults + 1
  /\ \/ pc[w] \in {"append", "audit"} /\ Goto(w, "failed") /\ UNCHANGED storeVars
     \/ /\ pc[w] = "insert"
        /\ Goto(w, IF tx[StoreOf[w]][1].created THEN "lookup" ELSE "failed")
        /\ Rollback(StoreOf[w])
  /\ Fails(w, IF pc[w] = "audit" THEN "audit io" ELSE "io")
  /\ UNCHANGED <<outboxVars, lease, record, seen, clock, crashes, outgrown>>

\* The handler after the rollback: is the row there?  No: unlink the file it made.
LookUpRow(w) ==
  /\ pc[w] = "lookup"
  /\ tx[StoreOf[w]] = <<>>
  /\ Goto(w, IF UnlinkAllowed(StoreOf[w], record[w]) THEN "unlink" ELSE "failed")
  /\ UNCHANGED <<outboxVars, storeVars, lease, record, failure, seen, clock, budget>>
UnlinkFile(w) ==
  /\ pc[w] = "unlink"
  /\ Unlink(StoreOf[w], record[w])
  /\ Goto(w, "failed")
  /\ UNCHANGED <<outboxVars, lease, record, failure, seen, clock, budget>>

Audit(w) ==
  /\ pc[w] = "audit" /\ tx[StoreOf[w]] = <<>>
  /\ IF AuditPasses(StoreOf[w])
     THEN Goto(w, "deliver") /\ UNCHANGED failure
     ELSE Goto(w, "failed") /\ Fails(w, "ARTIFACT_STORE_INVENTORY_MISMATCH")
  /\ Read(w, clock)
  /\ UNCHANGED <<outboxVars, storeVars, lease, record, clock, budget>>

RefusalCode(at) == IF block # None THEN block.code
                   ELSE IF ~ClockNotBefore(at) THEN ClockRollback ELSE "RUNTIME_OUTBOX_INTEGRITY"
Deliver(w) ==
  /\ pc[w] = "deliver"
  /\ \E at \in Readings(w) :
       /\ Read(w, at)
       /\ \/ /\ MarkDelivered(IdOf[w], lease[w], HashOf(record[w]), at)
             /\ Idle(w)
          \/ /\ ~MayDeliver(IdOf[w], lease[w], at)
             /\ Goto(w, "refused")
             /\ Fails(w, RefusalCode(at))
             /\ UNCHANGED <<outboxVars, lease, record>>
  /\ UNCHANGED <<storeVars, clock, budget>>

\* The block is dated with the delivered_at that was refused.
BlockRefused(w) ==
  /\ pc[w] = "refused"
  /\ \/ MarkBlocked(IdOf[w], lease[w], failure[w], seen[w])
     \/ ~(StateAudit /\ ClockNotBefore(seen[w])) /\ UNCHANGED outboxVars
  /\ Halted(w, failure[w])
  /\ UNCHANGED <<storeVars, seen, clock, budget>>

\* _store_failure_result()
Transient(w) == failure[w] \in {"io", "audit io"}
MayRetry(w) == Transient(w) /\ lease[w].retries + 1 <= MaxAttempts
\* RuntimeArtifactRetryPolicy.delay_seconds()
Delay(n) == LET d == RetryDelay * 2^(n - 1) IN IF d < MaxRetryDelay THEN d ELSE MaxRetryDelay
\* A mark that the block refuses raises what the service loop does not catch: its thread ends.
Ended(w) == IF block = None THEN Idle(w) ELSE Halted(w, block.code)
Retry(w) ==
  /\ pc[w] = "failed" /\ MayRetry(w)
  /\ \E at \in Readings(w) :
       /\ Read(w, at)
       /\ \/ MarkRetry(IdOf[w], lease[w], at, at + Delay(lease[w].retries + 1))
          \/ /\ ~(MayMark(IdOf[w], lease[w], at) /\ StateAudit)
             /\ UNCHANGED outboxVars
  /\ Ended(w)
  /\ UNCHANGED <<storeVars, clock, budget>>

BlockCode(w) ==
  CASE failure[w] = "io"       -> "ARTIFACT_STORE_TRANSIENT_RETRY_EXHAUSTED"
    [] failure[w] = "audit io" -> "POST_APPEND_AUDIT_RETRY_EXHAUSTED"
    [] OTHER                   -> failure[w]
BlockStore(w) ==
  /\ pc[w] = "failed" /\ ~MayRetry(w)
  /\ \E at \in Readings(w) :
       /\ Read(w, at)
       /\ \/ MarkBlocked(IdOf[w], lease[w], BlockCode(w), at)
          \/ ~(StateAudit /\ ClockNotBefore(at)) /\ UNCHANGED outboxVars
  /\ Halted(w, BlockCode(w))
  /\ UNCHANGED <<storeVars, clock, budget>>

\* OUTBOX_ARTIFACT_CONTRACT_INVALID; any other exception is logged and the loop goes on.
Quarantine(w) ==
  /\ pc[w] = "quarantine"
  /\ \E at \in Readings(w) :
       /\ Read(w, at)
       /\ \/ MarkQuarantined(IdOf[w], lease[w], at)
          \/ /\ ~MayMark(IdOf[w], lease[w], at) \/ Unreadable \ {lease[w].order} # {}
             /\ UNCHANGED outboxVars
  /\ Ended(w)
  /\ UNCHANGED <<storeVars, clock, budget>>

-----------------------------------------------------------------------------
(* The environment.                                                        *)

\* The process dies and is started again: an open transaction is rolled back, the file stays.
Crash(w) ==
  /\ crashes < MaxCrashes /\ crashes' = crashes + 1
  /\ pc[w] # "idle"
  /\ Idle(w)
  /\ IF pc[w] = "insert" THEN Rollback(StoreOf[w]) ELSE UNCHANGED storeVars
  /\ UNCHANGED <<outboxVars, seen, clock, faults, outgrown>>

\* No quarantine passes its audit: the rows are leased again for ever.
Stuck == \E j, k \in Unreadable : j # k
\* Time is bounded, but unless the lane is stuck a lease always expires and a retry always becomes due.
Waiting == \E k \in DOMAIN delivery : /\ ~Terminal(delivery[k])
                                      /\ delivery[k].expires > clock \/ delivery[k].dueAt > clock
Tick ==
  /\ clock < MaxTime \/ (Waiting /\ ~Stuck)
  /\ clock' = clock + 1
  /\ UNCHANGED <<outboxVars, storeVars, local, seen, budget>>

Outgrow ==
  /\ outgrown < MaxOutgrown /\ outgrown' = outgrown + 1
  /\ \E k \in DOMAIN outbox : ContractOutgrows(k)
  /\ UNCHANGED <<storeVars, local, seen, clock, crashes, faults>>

WorkerStep(w) ==
  \/ Claim(w)
  \/ AppendOpens(w) \/ AppendCommits(w) \/ LookUpRow(w) \/ UnlinkFile(w)
  \/ Audit(w) \/ Deliver(w) \/ BlockRefused(w)
  \/ Retry(w) \/ BlockStore(w) \/ Quarantine(w)

Next ==
  \/ \E m \in Managers : Persist(m)
  \/ \E w \in Workers : WorkerStep(w) \/ AppendBreaks(w) \/ Crash(w)
  \/ Tick
  \/ Outgrow

Spec == Init /\ [][Next]_vars

(* The worker service keeps calling run_once() while its thread lives, and *)
(* the clock does not stop; a disk fault, a crash or a restart is never    *)
(* owed.                                                                   *)
LiveSpec == Spec /\ WF_vars(Tick) /\ \A w \in Workers : WF_vars(WorkerStep(w))

-----------------------------------------------------------------------------
(* What _audit_runtime_outbox_state_connection() would refuse never comes  *)
(* to be, whatever the interleaving of persists, claims and marks: one     *)
(* refusal would stop every later transaction of the lane.                 *)
OutboxAuditable == outgrown = 0 => StateAudit

(* A row is DELIVERED only when the one store the lane is bound to has its *)
(* record, with the hash that was marked, and the record's file.           *)
DeliveredIsStored ==
  \A k \in DOMAIN delivery :
    delivery[k].status = "DELIVERED" =>
      \E r \in RowOf(binding.store, k) : HashOf(r) = delivery[k].result /\ r \in files[binding.store]

(* At-least-once delivery has one observable effect: an occurrence is in   *)
(* one store, once, however often its lease expired and was taken over.    *)
(* A worker built with another store writes nothing, not even a file, into *)
(* it: the lane delivers to the store it was first bound to.               *)
StoredOnce ==
  /\ \A s, t \in Stores : \A i \in DOMAIN catalog[s], j \in DOMAIN catalog[t] :
       catalog[s][i].artifact = catalog[t][j].artifact => s = t /\ i = j
  /\ \A s \in Stores : files[s] # {} => binding # None /\ binding.store = s

(* The artifact store never refuses its own committed state.               *)
StoreIntact == \A s \in Stores : Valid(s)

(* The history of a signal is a chain: every transition starts from the    *)
(* state the one before it ended in, whoever persisted them, and a         *)
(* decision persisted twice, by a retry or by two managers, is one         *)
(* occurrence.                                                             *)
HistoryIsChain ==
  /\ \A j \in DOMAIN history :
       LET before == {i \in 1..j - 1 : history[i].signal = history[j].signal}
           last == CHOOSE i \in before : \A h \in before : h <= i
       IN history[j].from = IF before = {} THEN None ELSE history[last].to
  /\ \A j, k \in DOMAIN outbox : outbox[j].decision = outbox[k].decision => j = k

(* From the decision to its record: what several managers decide is one    *)
(* chain, what several workers deliver of it is stored once, and what is   *)
(* marked delivered is there.                                              *)
DecidedAndStoredOnce == HistoryIsChain /\ StoredOnce /\ DeliveredIsStored

(* A delivered or quarantined row is never touched again, and a cursor     *)
(* never goes back; once the lane is blocked, no row it had moves at all   *)
(* and no cursor advances.                                                 *)
TerminalIsFinal ==
  [][/\ \A k \in DOMAIN delivery : block # None \/ Terminal(delivery[k]) => delivery'[k] = delivery[k]
     /\ \A i \in Ids : cursor[i] <= cursor'[i]
     /\ block # None => block' = block /\ cursor' = cursor]_vars

(* Every occurrence is delivered or quarantined in the end, unless the     *)
(* lane is blocked or its workers have halted: a crash, an expired lease   *)
(* or a retry that is not due only delays it, and one payload that is no   *)
(* longer readable is quarantined and holds up no other.  Two of them are  *)
(* excepted: the audit that ends either quarantine refuses the other, and  *)
(* both are claimed again for ever.                                        *)
Settles ==
  [](outbox # <<>> => <>(\/ \A k \in DOMAIN delivery : Terminal(delivery[k])
                         \/ \A w \in Workers : pc[w] = "halted"
                         \/ Stuck))

-----------------------------------------------------------------------------
(* What a message says, and the code does otherwise.                       *)

(* "runtime outbox blocked lease was lost" (storage/repository.py): a      *)
(* block for an occurrence is persisted by the holder of its lease.        *)
OnlyHolderBlocks ==
  [][(block = None /\ block' # None /\ block'.order # None) =>
       \E w \in Workers : IdOf[w] = block'.id /\ lease[w] # None
                          /\ lease[w].order = block'.order /\ Holds(IdOf[w], lease[w])]_vars
=============================================================================
