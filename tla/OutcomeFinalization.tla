-------------------------- MODULE OutcomeFinalization --------------------------
(***************************************************************************)
(* OutcomeCollectionService.finalize(): a case that has all its facts is   *)
(* bound to a ledger (FINALIZATION_PREPARED), its outcome is appended to   *)
(* that ledger, the ledger is audited, and the case is closed (FINALIZED). *)
(* Each is a transaction of its own, of one of two databases, so calls of  *)
(* several processes interleave, stop and are repeated anywhere between.   *)
(***************************************************************************)
EXTENDS OutcomeCollection, OutcomeLedger

CONSTANTS
  Finalizers,
  MaxCalls, MaxCrashes, MaxFaults   \* bounds

ASSUME FinalizationAssumption == Targets = Ledgers /\ None \notin Finalizers

VARIABLES
  call,                    \* by finalizer: where its call is, and what it has read
  calls, crashes, faults,
  uncleaned                \* faults that left the file of a failed append behind

finalizationVars == <<call, calls, crashes, faults, uncleaned>>
vars == <<collectionVars, ledgerVars, finalizationVars>>

Idle == [pc |-> "idle", case |-> None, ledger |-> None, again |-> FALSE, outcome |-> None,
         record |-> None, created |-> FALSE, at |-> 0, seen |-> 0]

Init ==
  /\ CollectionInit /\ LedgerInit
  /\ call = [p \in Finalizers |-> Idle]
  /\ calls = 0 /\ crashes = 0 /\ faults = 0 /\ uncleaned = 0

At(p, pc) == call[p].pc = pc
Becomes(p, state) == call' = [call EXCEPT ![p] = state]
Goto(p, pc) == Becomes(p, [call[p] EXCEPT !.pc = pc])
With(p, pc, field, value) == Becomes(p, [[call[p] EXCEPT !.pc = pc] EXCEPT ![field] = value])
Raise(p) == Becomes(p, Idle)
Fault == faults < MaxFaults /\ faults' = faults + 1
Counters == <<calls, crashes, faults, uncleaned>>
Counted == <<calls, crashes, uncleaned>>

-----------------------------------------------------------------------------
(* The collection's transactions.                                          *)

\* get_case(), and where the call goes from there.
Begin(p, c, l) ==
  /\ At(p, "idle") /\ calls < MaxCalls /\ Readable
  /\ Has(c, "finalized") => Fact(c, "prepared").target = l
  /\ Becomes(p,
       [pc |-> IF Has(c, "finalized") THEN "append" ELSE "prepare",
        case |-> c, ledger |-> l, again |-> Has(c, "finalized"),
        outcome |-> IF Has(c, "finalized") THEN Fact(c, "prepared").outcome ELSE None,
        record |-> None, created |-> FALSE, at |-> 0, seen |-> 0])
  /\ calls' = calls + 1
  /\ UNCHANGED <<collectionVars, ledgerVars, crashes, faults, uncleaned>>

\* Mutants: a repeated call builds its own outcome; the ledger is not compared.
PreparedAnew(c, l) == IF Fact(c, "prepared").target = l THEN Outcome(c, clock) ELSE None
PreparedAnywhere(c, l) == Fact(c, "prepared").outcome
\* What was prepared, unless it was for another ledger.
Prepared(c, l) == IF Fact(c, "prepared").target = l THEN Fact(c, "prepared").outcome ELSE None

\* _prepare_finalization()
Prepare(p) ==
  LET c == call[p].case  l == call[p].ledger
  IN /\ At(p, "prepare")
     /\ \/ /\ Readable /\ Has(c, "prepared") /\ Prepared(c, l) # None
           /\ With(p, "append", "outcome", Prepared(c, l))
           /\ UNCHANGED collectionVars
        \/ /\ ~Readable \/ IF Has(c, "prepared") THEN Prepared(c, l) = None ELSE ~PreparedAdmissible(c)
           /\ Raise(p) /\ UNCHANGED collectionVars
        \/ /\ PrepareFinalization(c, l)
           /\ With(p, "append", "outcome", Outcome(c, clock))
     /\ UNCHANGED <<ledgerVars, Counters>>

FinalizedFact(p) ==
  [kind |-> "finalized", target |-> call[p].ledger, outcome |-> call[p].outcome,
   record |-> call[p].record, audited |-> call[p].seen]
\* _record_finalized(): of a case that is finalized it only compares.
RecordFinalized(p) ==
  LET c == call[p].case
  IN /\ At(p, "finalize")
     /\ IF Readable /\ FinalizedAdmissible(c, FinalizedFact(p))
        THEN AppendEvent(c, FinalizedFact(p)) ELSE UNCHANGED collectionVars
     /\ Raise(p)
     /\ UNCHANGED <<ledgerVars, Counters>>

-----------------------------------------------------------------------------
(* OutcomeLedger.append() and audit().                                     *)

Appended(p, record) == With(p, "appended", "record", record)

OpenAppend(p) ==
  LET l == call[p].ledger  outcome == call[p].outcome
  IN /\ At(p, "append") /\ Free(l)
     /\ \/ /\ ~Valid(l, clock) \/ (RowsOf(l, outcome) = {} /\ ~Admissible(l, outcome, clock))
           /\ Raise(p) /\ UNCHANGED ledgerVars
        \/ /\ Valid(l, clock)
           /\ \E record \in RowsOf(l, outcome) : Appended(p, record)
           /\ UNCHANGED ledgerVars
        \/ /\ Valid(l, clock) /\ RowsOf(l, outcome) = {} /\ Admissible(l, outcome, clock)
           /\ BeginAppend(l, p)
           /\ With(p, "link", "record", NewRecord(l, outcome, "service", clock))
     /\ UNCHANGED <<collectionVars, Counters>>

Link(p) ==
  /\ At(p, "link")
  /\ \/ /\ LinkFile(call[p].ledger, call[p].record)
        /\ With(p, "commit", "created", TRUE)
        /\ UNCHANGED faults
     \/ Fault /\ Rollback(call[p].ledger) /\ Goto(p, "recover")
  /\ UNCHANGED <<collectionVars, Counted>>

\* Its temporary file cannot be removed, and if it was linked, the handler does not know.
LinkBreaks(p) ==
  /\ At(p, "link") /\ Fault /\ uncleaned' = uncleaned + 1
  /\ \E left \in {{Temporary}, {Temporary, call[p].record}} : Leaves(call[p].ledger, p, left)
  /\ Goto(p, "recover")
  /\ UNCHANGED <<collectionVars, calls, crashes>>

\* A commit that raises may have been made.
Commit(p) ==
  /\ At(p, "commit")
  /\ \/ CommitRow(call[p].ledger, call[p].record) /\ Goto(p, "appended") /\ UNCHANGED faults
     \/ Fault /\ Rollback(call[p].ledger) /\ Goto(p, "recover")
     \/ Fault /\ CommitRow(call[p].ledger, call[p].record) /\ Goto(p, "recover")
  /\ UNCHANGED <<collectionVars, Counted>>

\* Mutant: the handler takes any failure for a rollback.
RecoveredNever(p) == {}
\* _recover_committed_record()
Recovered(p) == RowsOf(call[p].ledger, call[p].outcome)
Recover(p) ==
  /\ At(p, "recover")
  /\ \/ Recovered(p) = {call[p].record} /\ Goto(p, "appended") /\ UNCHANGED <<faults, uncleaned>>
     \/ Recovered(p) \notin {{}, {call[p].record}} /\ Raise(p) /\ UNCHANGED <<faults, uncleaned>>
     \/ /\ Recovered(p) = {}
        /\ IF call[p].created THEN Goto(p, "unlink") ELSE Raise(p)
        /\ UNCHANGED <<faults, uncleaned>>
     \/ Fault /\ Raise(p) /\ uncleaned' = uncleaned + 1
  /\ UNCHANGED <<collectionVars, ledgerVars, calls, crashes>>
Unlink(p) ==
  /\ At(p, "unlink")
  /\ \/ UnlinkFile(call[p].ledger, call[p].record) /\ UNCHANGED <<faults, uncleaned>>
     \/ Fault /\ uncleaned' = uncleaned + 1 /\ UNCHANGED ledgerVars
  /\ Raise(p)
  /\ UNCHANGED <<collectionVars, calls, crashes>>

\* A repeated call compares what it got; audit() reads the clock, then waits
\* for the lock.
ReadAuditTime(p) ==
  /\ At(p, "appended")
  /\ IF call[p].again THEN Raise(p) ELSE With(p, "audit", "at", clock)
  /\ UNCHANGED <<collectionVars, ledgerVars, Counters>>
Audit(p) ==
  LET l == call[p].ledger
  IN /\ At(p, "audit") /\ Free(l)
     /\ \/ Valid(l, call[p].at) /\ With(p, "finalize", "seen", Len(rows[l]))
        \/ ~Valid(l, call[p].at) /\ Raise(p)
     /\ UNCHANGED <<collectionVars, ledgerVars, Counters>>

Crash(p) ==
  LET left == IF At(p, "link") THEN {Temporary} ELSE {}
  IN /\ ~At(p, "idle") /\ crashes < MaxCrashes
     /\ crashes' = crashes + 1
     /\ Leaves(call[p].ledger, p, left) \/ Leaves(call[p].ledger, p, {})
     /\ Raise(p)
     /\ UNCHANGED <<collectionVars, calls, faults, uncleaned>>

Finalize(p) ==
  \/ \E c \in Opened, l \in Ledgers : Begin(p, c, l)
  \/ Prepare(p) \/ OpenAppend(p) \/ Link(p) \/ LinkBreaks(p) \/ Commit(p) \/ Recover(p)
  \/ Unlink(p) \/ ReadAuditTime(p) \/ Audit(p) \/ RecordFinalized(p)
  \/ Crash(p)

Collect ==
  \/ \E s \in Snapshots, m \in Modes : OpenCase(s, m)
  \/ \E c \in Opened : Record(c)
  \/ \E t \in Time : SetClock(t)

Next ==
  \/ Collect /\ UNCHANGED <<ledgerVars, finalizationVars>>
  \/ \E p \in Finalizers : Finalize(p)

Spec == Init /\ [][Next]_vars

-----------------------------------------------------------------------------
(* Whoever finalizes, however often and wherever a call stopped, a case    *)
(* has at most one record among all ledgers, and one that is FINALIZED     *)
(* names that record and an audit that has seen it.                        *)
FinalizedIsRecorded ==
  \A c \in Opened :
    LET records == UNION {{l} \X {r \in Registered(l) : r.outcome.case = c} : l \in Ledgers}
    IN /\ Cardinality(records) <= 1
       /\ records # {} => Has(c, "prepared") /\ \A x \in records : x[2].outcome = Fact(c, "prepared").outcome
       /\ Has(c, "finalized") =>
            LET done == Fact(c, "finalized")
            IN records = {<<done.target, done.record>>} /\ done.audited >= done.record.order

(* Moreover, a record never loses its file, whoever fails, cleans up and   *)
(* retries at the same time; and a file without a record is that of a call under way, *)
(* unless a crash or a failed clean-up left it.                            *)
LedgerIntact ==
  FinalizedIsRecorded /\ \A l \in Ledgers :
    /\ Registered(l) \subseteq files[l]
    /\ crashes + uncleaned = 0 =>
         \A f \in files[l] \ Registered(l) :
           \E p \in Finalizers : call[p].ledger = l /\ call[p].record = f /\ call[p].created

(* Any call that finds a case prepared can complete it: in a ledger that    *)
(* has no stray file, at a time that was not set back, nothing stands in   *)
(* the way of the prepared outcome.                                        *)
CanFinish ==
  \A c \in Opened : Has(c, "prepared") =>
    LET l == Fact(c, "prepared").target  outcome == Fact(c, "prepared").outcome
    IN /\ files[l] = Registered(l) /\ outcome.recordedAt <= clock
       /\ \A r \in Registered(l) : r.at <= clock
       => Valid(l, clock) /\ (RowsOf(l, outcome) # {} \/ Admissible(l, outcome, clock))

(* What was accepted can be completed: a case that has all its facts can   *)
(* be prepared, unless its costed entry leaves no risk above its           *)
(* invalidation price, or its exit's costs eat up the exit's price; and    *)
(* one that is prepared can be finished.                                   *)
CanComplete ==
  /\ \A c \in Opened : State(c) = "TERMINAL_READY" =>
       Constructible(c) \/ (Has(c, "entry") /\ ~Priced(c))
  /\ CanFinish
=============================================================================
